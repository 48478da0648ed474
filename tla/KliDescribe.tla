----------------------------- MODULE KliDescribe -----------------------------
(***************************************************************************)
(* `kli describe` (cli/pkg/workload/describe.go): the tree of a workload   *)
(* with live Pods placed on components and instances, replica counts and   *)
(* request totals.  A Pod is [labels, ready, node, spec]; the Pods are     *)
(* already scoped to the workload.                                         *)
(*                                                                         *)
(* A request is [gpus, cpu]; memory is treated like cpu and left out.      *)
(* Requirements are [requests, limits], each giving every resource a       *)
(* quantity or Null.  A container is [resources, sidecar], a pod spec      *)
(* [containers, init, resources, overhead]; a pod spec without resources   *)
(* of its own has requirements that declare nothing.                       *)
(***************************************************************************)
EXTENDS Workload

CONSTANT SpecOf(_)     \* the pod spec that a value stands for, or is a part of

Request(gpus, cpu) == [gpus |-> gpus, cpu |-> cpu]
NoRequest == Request(0, 0)
Plus(a, b) == Request(a.gpus + b.gpus, a.cpu + b.cpu)
Scaled(r, n) == Request(r.gpus * n, r.cpu * n)
Larger(a, b) == Request(Max({a.gpus, b.gpus}), Max({a.cpu, b.cpu}))
SumRequests(requests) == FoldLeft(Plus, NoRequest, requests)

\* Fault: limits are not looked at.
QuantityRequested(requirements, resource) == requirements.requests[resource]

\* quantityOf: a limit without a request implies it; Null: not declared, which an
\* explicit zero is not.
QuantityOf(requirements, resource) ==
  IF requirements.requests[resource] # Null THEN requirements.requests[resource]
  ELSE requirements.limits[resource]

\* requirementsOf
RequirementsOf(requirements) ==
  LET quantity(resource) == IF QuantityOf(requirements, resource) = Null THEN 0
                            ELSE QuantityOf(requirements, resource)
  IN  Request(quantity("gpus"), quantity("cpu"))

\* sumContainers
SumContainers(containers) ==
  SumRequests([i \in DOMAIN containers |-> RequirementsOf(containers[i].resources)])

\* podRequest: a sidecar adds to the running containers, other init containers
\* only peak; a pod-level cpu request replaces the containers', then overhead.
PodRequest(spec) ==
  LET peaking == SelectSeq(spec.init, LAMBDA c : ~c.sidecar)
      running == Plus(SumContainers(spec.containers),
                      SumContainers(SelectSeq(spec.init, LAMBDA c : c.sidecar)))
      largest == FoldLeft(LAMBDA r, c : Larger(r, RequirementsOf(c.resources)), NoRequest, peaking)
      podLevel == QuantityOf(spec.resources, "cpu")
      total == [Larger(largest, running) EXCEPT !.cpu = IF podLevel = Null THEN @ ELSE podLevel]
  IN  Plus(total, RequirementsOf([requests |-> spec.overhead,
                                  limits |-> [r \in DOMAIN spec.overhead |-> Null]]))

Given(values, role) == role \in DOMAIN values /\ values[role] # Null

\* What the fragments stand for: the containers, one container and the resources
\* of a pod spec.
ContainersGiven(values) ==
  IF Given(values, "containers") THEN SpecOf(values.containers).containers ELSE <<>>
ContainerGiven(values) ==
  IF Given(values, "container") THEN <<SpecOf(values.container).containers[1]>> ELSE <<>>
ResourcesGiven(values) == SpecOf(values.resources).containers[1].resources

\* fragmentedRequest: containers add up; the resources of the object count only
\* when no container declares any.
FragmentedRequest(values) ==
  LET total == Plus(SumContainers(ContainersGiven(values)), SumContainers(ContainerGiven(values)))
  IN  IF total = NoRequest /\ Given(values, "resources")
        THEN RequirementsOf(ResourcesGiven(values)) ELSE total

\* requestOf: the first shape the instance has.
RequestOf(values) ==
  CASE Given(values, "podTemplateSpec") -> PodRequest(SpecOf(values.podTemplateSpec))
    [] Given(values, "podSpec") -> PodRequest(SpecOf(values.podSpec))
    [] OTHER -> FragmentedRequest(values)

\* replicasOf
ReplicasOf(values) ==
  CASE Given(values, "replicas") -> values.replicas
    [] Given(values, "minReplicas") -> values.minReplicas
    [] OTHER -> 1

DeclaresScale(values) == DOMAIN values \cap ScaleRoles # {}

-----------------------------------------------------------------------------
(* Rows: [name, desired, current, ready, request, nodes, pods, children] *)

EmptyRow(name) ==
  [name |-> name, desired |-> 0, current |-> 0, ready |-> 0, request |-> NoRequest,
   nodes |-> {}, pods |-> {}, children |-> <<>>]

\* isSolePodOwner counts the components with a specDefinition.
IsSolePodOwner(k) ==
  Cardinality({n \in NamesOf(k) : Has(Named(k, n), Roles \ ScaleRoles)}) = 1

\* Fault: without a selector a component takes every Pod.
MatchComponentTypeLoosely(k, component, pods) ==
  IF component.type = Null THEN pods ELSE {p \in pods : MatchesComponentType(p.labels, component.type)}

\* matchComponentType: without a selector only the sole owner takes the Pods.
MatchComponentType(k, component, pods) ==
  IF component.type = Null THEN (IF IsSolePodOwner(k) THEN pods ELSE {})
  ELSE {p \in pods : MatchesComponentType(p.labels, component.type)}

\* filterByInstance; tree.Build sets no replica key.
FilterByInstance(component, key, pods) ==
  IF ~HasPodSelector(component) \/ key = EmptyId THEN pods
  ELSE {p \in pods : p.labels[component.instance] = key}

\* attach
Attach(row, pods) ==
  [row EXCEPT !.current = @ + Cardinality(pods), !.ready = @ + Cardinality({p \in pods : p.ready}),
              !.pods = @ \cup pods, !.nodes = @ \cup ({p.node : p \in pods} \ {Null})]

IsEmptyRow(row) ==
  /\ row.pods = {} /\ row.children = <<>> /\ row.request = NoRequest
  /\ row.desired = 0 /\ row.current = 0 /\ row.ready = 0

\* appendComponent drops plumbing the workload never populated.
AppendComponent(rows, row, podBearing) ==
  IF ~podBearing /\ IsEmptyRow(row) THEN rows ELSE Append(rows, row)

\* aggregate
Aggregate(row, child) ==
  [row EXCEPT !.desired = @ + child.desired, !.current = @ + child.current,
              !.ready = @ + child.ready, !.request = Plus(@, child.request),
              !.nodes = @ \cup child.nodes]

\* A child's row is appended if it says anything, and folded into the totals.
Include(row, child, podBearing) ==
  [Aggregate(row, child) EXCEPT !.children = AppendComponent(@, child, podBearing)]

\* Only requests and nodes of a child roll up into a component with Pods.
IncludeTotals(row, child, podBearing) ==
  [row EXCEPT !.request = Plus(@, child.request), !.nodes = @ \cup child.nodes,
              !.children = AppendComponent(@, child, podBearing)]

\* Rows and Pods go down the tree together: k is the definition, pods what the
\* component's parent sees.
RECURSIVE BuildComponent(_, _, _)

\* buildGroupingComponent: its own scale counts only when nothing below it says
\* anything.
WithOwnScale(row, instances) ==
  IF row.children # <<>> THEN row
  ELSE FoldLeft(LAMBDA r, i : IF ~DeclaresScale(i.values) THEN r
                              ELSE [r EXCEPT !.desired = @ + ReplicasOf(i.values)],
                row, instances)

BuildGrouping(k, name, instances, pods) ==
  LET add(row, node) == Include(row, BuildComponent(k, node, pods), node.pods)
  IN  WithOwnScale(FoldLeft(LAMBDA row, i : FoldLeft(add, row, i.children),
                            EmptyRow(name), instances),
                   instances)

\* buildPodBearingComponent
WithOwnPart(row, replicas, request) ==
  [row EXCEPT !.desired = @ + replicas, !.request = Plus(@, Scaled(request, replicas))]

BuildPodBearing(k, name, instances, pods) ==
  LET add(row, node) == IncludeTotals(row, BuildComponent(k, node, pods), node.pods)
      own(row, i) == WithOwnPart(row, ReplicasOf(i.values), RequestOf(i.values))
  IN  FoldLeft(LAMBDA row, i : FoldLeft(add, own(row, i), i.children),
               Attach(EmptyRow(name), pods), instances)

BuildEither(k, node, instances, pods) ==
  IF node.pods THEN BuildPodBearing(k, node.name, instances, pods)
  ELSE BuildGrouping(k, node.name, instances, pods)

\* isMultiInstance
IsMultiInstance(instances) == \E i \in DOMAIN instances : instances[i].key # EmptyId

Claimed(k, node, pods) ==
  IF node.pods THEN MatchComponentType(k, Named(k, node.name), pods) ELSE pods

\* buildComponent: with instance keys, one row per instance below a row for the
\* component.
BuildComponent(k, node, pods) ==
  LET scoped(i) == FilterByInstance(Named(k, node.name), i.key, Claimed(k, node, pods))
  IN  IF IsMultiInstance(node.instances)
        THEN FoldLeft(LAMBDA row, i :
                        Include(row, BuildEither(k, node, <<i>>, scoped(i)), node.pods),
                      EmptyRow(node.name), node.instances)
      ELSE BuildEither(k, node, node.instances, Claimed(k, node, pods))

\* rootInstances: the root's row has no children.
RootRow(k, object, pods) ==
  LET childless(instances) == [i \in DOMAIN instances |-> [instances[i] EXCEPT !.children = <<>>]]
  IN  BuildPodBearing(k, k.root.name, childless(ComponentNodes(k, object, <<k.root.name>>)[1].instances),
                      MatchComponentType(k, k.root, pods))

ViewOf(rows) ==
  [components |-> rows, request |-> SumRequests([i \in DOMAIN rows |-> rows[i].request])]

\* ResolveDescribe: a failure to build the tree fails it.
ResolveDescribe(k, object, pods) ==
  LET top == IF HasPodDefinition(k.root) THEN <<RootRow(k, object, pods)>> ELSE <<>>
      add(rows, node) == AppendComponent(rows, BuildComponent(k, node, pods), node.pods)
  IN  IF TreeFails(k, object) THEN Failed
      ELSE Result(FALSE, ViewOf(FoldLeft(add, top, Tree(k, object))))

-----------------------------------------------------------------------------
(* Properties *)

\* All Pods the selectors of a definition can tell apart, one of each.
LabelledPods(types, instanceKeys) ==
  LET values == {t.value : t \in types} \ {AnyValue, NoValue}
      labelled(a, b) == [labels |-> a @@ b, ready |-> TRUE, node |-> "node"]
  IN  {labelled(a, b) : a \in [{t.key : t \in types} -> values \cup {Null, "other"}],
                        b \in [instanceKeys -> {Null, 1, 2}]}

SelectorPods(k) ==
  LabelledPods({Named(k, n).type : n \in NamesOf(k)} \ {Null},
               {Named(k, n).instance : n \in NamesOf(k)} \ {Null})

\* The rows and everything below them.
RECURSIVE AllRows(_)
AllRows(rows) ==
  rows \o FlattenSeq([i \in DOMAIN rows |-> AllRows(rows[i].children)])

UniqueIds == \A n \in DOMAIN doc : IsInjective([i \in DOMAIN doc[n] |-> doc[n][i].id])

\* A Pod that at most one selector accepts is listed in at most one row, and only
\* in one of the component the exporter attributes it to (InferPodComponent), as
\* long as instance ids are unique.
PodsListedOnce ==
  doc # Null /\ UniqueIds /\ ~TreeFails(karta, doc) =>
    LET takers(p) == {n \in NamesOf(karta) : HasPodDefinition(Named(karta, n))
                                               /\ MatchesComponentType(p.labels, Named(karta, n).type)}
        own(p, rows) == \/ rows = <<>>
                        \/ Len(rows) = 1 /\ rows[1].name = InferPodComponent(karta, p.labels)
        listed(pods, rows) == \A p \in pods : Cardinality(takers(p)) <= 1 =>
                                own(p, SelectSeq(rows, LAMBDA row : p \in row.pods))
        view(pods) == AllRows(ResolveDescribe(karta, doc, pods).value.components)
    IN  \A pods \in {SelectorPods(karta)} : listed(pods, view(pods))

\* The quantities that requirements declare of a resource, the one that counts first.
Declared(requirements, resource) ==
  SelectSeq(<<requirements.requests[resource], requirements.limits[resource]>>, LAMBDA q : q # Null)
FirstOf(quantities) == IF quantities = <<>> THEN 0 ELSE Head(quantities)

\* What the containers at these places ask for together.
AskedAt(containers, places, resource) ==
  MapThenSumSet(LAMBDA i : FirstOf(Declared(containers[i].resources, resource)), places)

\* What has to be free for a Pod: the most at any moment of its life, that is
\* while an init container runs alone or once the others all run, unless the Pod
\* declares it itself, and its overhead.
ExactPod(spec, resource) ==
  LET all == spec.init \o spec.containers
      alone == {i \in DOMAIN spec.init : ~spec.init[i].sidecar}
      moments == {{i} : i \in alone} \cup {DOMAIN all \ alone}
      own == IF resource = "gpus" THEN <<>> ELSE Declared(spec.resources, resource)
  IN  (IF own # <<>> THEN Head(own) ELSE Max({AskedAt(all, m, resource) : m \in moments}))
        + FirstOf(SelectSeq(<<spec.overhead[resource]>>, LAMBDA q : q # Null))

\* The same of one replica of an instance.
ExactInstance(values) ==
  LET whole == {values[r] : r \in {x \in {"podTemplateSpec", "podSpec"} : Given(values, x)}}
      parts == ContainersGiven(values) \o ContainerGiven(values)
      ofParts(resource) == AskedAt(parts, DOMAIN parts, resource)
      ofObject(resource) == IF Given(values, "resources")
                              THEN FirstOf(Declared(ResourcesGiven(values), resource)) ELSE 0
      asked(resource) ==
        IF whole # {} THEN ExactPod(SpecOf(CHOOSE v \in whole : TRUE), resource)
        ELSE IF \E r \in {"gpus", "cpu"} : ofParts(r) > 0 THEN ofParts(resource)
        ELSE ofObject(resource)
  IN  Request(asked("gpus"), asked("cpu"))

\* The request of the whole object without a tree: what the instances of each
\* component with Pods ask for, once per instance of the components above it.
ExactRequest ==
  LET withPods == {n \in NamesOf(karta) : HasPodDefinition(Named(karta, n))}
      above(n) == SelectSeq(Tail(Lineage(karta, n)), LAMBDA m : m # karta.root.name)
      copies(n) == FoldLeft(LAMBDA x, m : x * Len(doc[m]), 1, above(n))
      asked(read, ids) == SumRequests([i \in DOMAIN ids |->
                            Scaled(ExactInstance(read[ids[i]]), ReplicasOf(read[ids[i]]))])
      own(n) == asked(GetExtractedInstances(Named(karta, n), doc[n]).value,
                      GetInstanceIds(Named(karta, n), doc[n]).value)
  IN  MapThenFoldSet(Plus, NoRequest, LAMBDA n : Scaled(own(n), copies(n)),
                     LAMBDA S : CHOOSE n \in S : TRUE, withPods)

\* The total printed for an object counts what every Pod it asks for needs at its
\* most demanding moment, declared as a request or only as a limit, whether or not
\* any Pod is alive, and none twice: nothing is lost with the rows that are left
\* out, and nothing is added again on the way up.
RequestIsExact ==
  doc # Null /\ ~TreeFails(karta, doc) =>
    ResolveDescribe(karta, doc, {}).value.request = ExactRequest
=============================================================================
