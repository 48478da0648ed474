--------------------------- MODULE KartaExtraction ---------------------------
(***************************************************************************)
(* Reading and writing a workload object through a Karta: the accessor,    *)
(* the components and their instances (karta/sdk/pkg/resource), the jq     *)
(* runner (jq/execution) and the gang scale of a subtree                   *)
(* (instructions/gang_scheduling.go).                                      *)
(*                                                                         *)
(* A document maps each component to the sequence of elements its paths    *)
(* iterate over: one element for a component without instanceIdPath.  An   *)
(* element is [id, guard, vals]: its instance id (0: the empty string),    *)
(* whether the select() of a guarded path accepts it, and role -> value.   *)
(* The shape of a path says what it yields for a sequence of elements:     *)
(*   "plain"   .items[].f        one result per element, null if absent    *)
(*   "default" .items[] | .f//1  one result per element, 1 if absent       *)
(*   "strict"  .items[] | .f*.g  as plain, but an error if absent          *)
(*   "guarded" .items[] | select(..) | .f   accepted elements only         *)
(*   "carried" .items[].f // 1   present values only, 1 if there are none  *)
(*   "optional" .f | tonumber?   present values only                       *)
(*   "literal" 1                 a single 1                                *)
(***************************************************************************)
EXTENDS KartaStructure, TLC

CONSTANTS
  MaxResults,   \* maxResults of the runner
  Width,        \* bits of the replica counts: 32 in the code
  Unparsable    \* a value that does not convert to the Go type of its role

ASSUME ExtractionAssumption == MaxResults \in Nat /\ Width \in Nat \ {0}

EmptyId == 0
DefaultReplicas == 1
Result(err, value) == [err |-> err, value |-> value]

\* The function itself; TLC evaluates the values of f @@ g once, not on every use.
Once(f) == f @@ <<>>

Failed == Result(TRUE, <<>>)

\* Elements a path visits, in order.
Visited(shape, elements) ==
  IF shape = "guarded" THEN SelectSeq([i \in DOMAIN elements |-> i], LAMBDA i : elements[i].guard)
  ELSE [i \in DOMAIN elements |-> i]

Present(values) == SelectSeq(values, LAMBDA v : v # Null)
Defaulted(v) == IF v = Null THEN DefaultReplicas ELSE v

\* What a path of the shape makes of the values it visits.
Shaped(shape, values) ==
  CASE shape \in {"plain", "strict", "guarded"} -> values
    [] shape = "default" -> [i \in DOMAIN values |-> Defaulted(values[i])]
    [] shape = "carried" /\ Present(values) = <<>> -> <<DefaultReplicas>>
    [] shape \in {"carried", "optional"} -> Present(values)
    [] shape = "literal" -> <<DefaultReplicas>>

\* What the jq path yields.
Yields(shape, elements, role) ==
  LET at(visited) == [i \in DOMAIN visited |-> elements[visited[i]].vals[role]]
  IN  Shaped(shape, Once(at(Visited(shape, elements))))

\* safeRunWithVariables gives up once it holds MaxResults results.
WithinLimit(results) == Len(results) < MaxResults

\* extractReplicas and safeConvertSlice
Converted(shape, results) ==
  IF \/ ~WithinLimit(results)
     \/ shape = "strict" /\ Null \in ToSet(results)
     \/ Unparsable \in ToSet(results)
    THEN Failed ELSE Result(FALSE, results)

\* extract: a role without a path has no results.
ExtractRole(component, elements, role) ==
  IF role \notin DOMAIN component.paths THEN Result(FALSE, <<>>)
  ELSE Converted(component.paths[role], Yields(component.paths[role], elements, role))

\* safeGetByIndex
At(results, i) == IF i \in DOMAIN results THEN results[i] ELSE Null

\* Results of several paths joined by index, up to the longest.
Joined(got) ==
  LET rows == 1..Max({0} \cup {Len(got[r].value) : r \in DOMAIN got})
  IN  IF \E r \in DOMAIN got : got[r].err THEN Failed
      ELSE Result(FALSE, Once([i \in rows |-> Once([r \in DOMAIN got |-> At(got[r].value, i)])]))

\* ExtractScale and ExtractFragmentedPodSpec; the other Extract* have one path.
ExtractRows(component, elements, roles) ==
  Joined(Once([r \in roles |-> ExtractRole(component, elements, r)]))

\* ExtractInstanceIds; an empty id is an error.
GivenIds(ids) ==
  IF ~WithinLimit(ids) \/ EmptyId \in ToSet(ids) THEN Failed ELSE Result(FALSE, ids)

\* GetInstanceIds
GetInstanceIds(component, elements) ==
  IF component.ids THEN GivenIds([i \in DOMAIN elements |-> elements[i].id])
  ELSE Result(FALSE, <<EmptyId>>)

\* Fault: results beyond the instance ids are ignored.
ZipWithInstanceIdsLoosely(ids, rows) ==
  Result(FALSE, [id \in ToSet(ids) |->
    LET last == Max({i \in DOMAIN ids : ids[i] = id})
    IN  IF last \in DOMAIN rows THEN rows[last] ELSE [r \in Roles |-> Null]])

\* zipWithInstanceIds: of two equal ids the later one stays.
ZipWithInstanceIds(ids, rows) ==
  IF Len(ids) # Len(rows) THEN Failed
  ELSE Result(FALSE, [id \in ToSet(ids) |-> rows[Max({i \in DOMAIN ids : ids[i] = id})]])

Parts == {{"podTemplateSpec"}, {"podSpec"}, {"metadata"}, FragmentFields, ScaleRoles}

ZipWhenRead(ids, rows) ==
  IF ids.err \/ rows.err THEN Failed ELSE ZipWithInstanceIds(ids.value, rows.value)

\* GetPodTemplateSpec, GetPodSpec, GetPodMetadata, GetFragmentedPodSpec, GetScale:
\* Null when the definition has no such part.
GetPart(component, elements, part) ==
  IF ~Has(component, part) THEN Result(FALSE, Null)
  ELSE ZipWhenRead(GetInstanceIds(component, elements), ExtractRows(component, elements, part))

PartOf(role) == CHOOSE p \in Parts : role \in p

\* The values of every instance, part by part.
Assembled(component, ids, got) ==
  IF ids.err \/ \E p \in Parts : got[p].err THEN Failed
  ELSE Result(FALSE, Once([id \in ToSet(ids.value) |->
         Once([r \in DOMAIN component.paths |-> got[PartOf(r)].value[id][r]])]))

\* GetExtractedInstances: per instance id, the values of the roles given.
GetExtractedInstances(component, elements) ==
  Assembled(component, GetInstanceIds(component, elements),
            Once([p \in Parts |-> GetPart(component, elements, p)]))

-----------------------------------------------------------------------------
(* Writing *)

\* The order in which UpdateFragmentedPodSpec writes the fields.
FieldOrder ==
  <<"schedulerName", "priorityClassName", "image", "labels", "annotations", "resources",
    "podAffinity", "nodeAffinity", "container", "resourceClaims", "containers">>

\* Accessor.assign: AssignZip needs as many paths as values; Assign sets every
\* path to the first value.
Assign(component, elements, role, values) ==
  LET visited == Visited(component.paths[role], elements)
      valueFor(i) == LET at == CHOOSE k \in DOMAIN visited : visited[k] = i
                     IN  IF component.ids THEN values[at] ELSE values[1]
  IN  IF component.ids /\ Len(visited) # Len(values) THEN Result(TRUE, elements)
      ELSE Result(FALSE, Once([i \in DOMAIN elements |->
             IF i \in ToSet(visited) THEN [elements[i] EXCEPT !.vals[role] = valueFor(i)]
             ELSE elements[i]]))

\* updateField: nothing is written when every value is empty.
UpdateField(component, elements, field, values) ==
  LET allEmpty == \A v \in ToSet(values) : v = Null
  IN  IF field \notin DOMAIN component.paths THEN Result(~allEmpty, elements)
      ELSE IF allEmpty THEN Result(FALSE, elements)
      ELSE Assign(component, elements, field, values)

\* Fault: the values are taken in the order of the ids, not of the elements.
UnzipWithInstanceIdsSorted(component, elements, given) ==
  LET ids == GetInstanceIds(component, elements)
  IN  IF ids.err \/ ~(ToSet(ids.value) \subseteq DOMAIN given) THEN Failed
      ELSE LET sorted == SortSeq(ids.value, <)
           IN  Result(FALSE, [i \in DOMAIN sorted |-> given[sorted[i]]])

\* unzipWithInstanceIds: the given values in document order.
UnzipWithInstanceIds(component, elements, given) ==
  LET ids == GetInstanceIds(component, elements)
  IN  IF ids.err \/ ~(ToSet(ids.value) \subseteq DOMAIN given) THEN Failed
      ELSE Result(FALSE, [i \in DOMAIN ids.value |-> given[ids.value[i]]])

\* UpdateFragmentedPodSpec: field by field; the first failure ends it and leaves
\* the fields before it written.
UpdateFragmentedPodSpec(component, elements, given) ==
  LET rows == UnzipWithInstanceIds(component, elements, given)
      column(f) == [i \in DOMAIN rows.value |-> rows.value[i][f]]
      write(done, f) == IF done.err THEN done ELSE UpdateField(component, done.value, f, column(f))
  IN  IF rows.err \/ ~Has(component, FragmentFields) THEN Result(TRUE, elements)
      ELSE FoldLeft(write, Result(FALSE, elements), FieldOrder)

\* UpdatePodTemplateSpec, UpdatePodSpec, UpdatePodMetadata
UpdateWhole(component, elements, role, given) ==
  LET rows == UnzipWithInstanceIds(component, elements, given)
  IN  IF rows.err \/ role \notin DOMAIN component.paths THEN Result(TRUE, elements)
      ELSE Assign(component, elements, role, [i \in DOMAIN rows.value |-> rows.value[i][role]])

-----------------------------------------------------------------------------
(* tree.Build: the components below the root with their instances *)

\* Building fails when the definition is invalid or one component is unreadable.
TreeFails(karta, doc) ==
  \/ ~Validate(karta)
  \/ \E n \in NamesOf(karta) : GetExtractedInstances(Named(karta, n), doc[n]).err

\* buildComponentNodes and buildInstanceNodes: every instance of a component has
\* the same children.  Instances are in the order of their ids.
InstanceNodes(ids, extracted, children) ==
  [i \in DOMAIN ids |-> [key |-> ids[i], values |-> extracted[ids[i]], children |-> children]]

ComponentNodes(karta, doc, names) ==
  LET sortedIds(n) == SortSeq(GetInstanceIds(Named(karta, n), doc[n]).value, <)
      nodeOf[n \in NamesOf(karta)] ==
        [name |-> n, pods |-> HasPodDefinition(Named(karta, n)),
         instances |-> InstanceNodes(sortedIds(n),
                         GetExtractedInstances(Named(karta, n), doc[n]).value,
                         Once([i \in DOMAIN ChildrenOf(karta, n) |->
                           nodeOf[ChildrenOf(karta, n)[i].name]]))]
  IN  [i \in DOMAIN names |-> nodeOf[names[i]]]

\* The root itself is dropped.
Tree(karta, doc) ==
  ComponentNodes(karta, doc, <<karta.root.name>>)[1].instances[1].children

-----------------------------------------------------------------------------
(* Gang scale of a subtree *)

\* int32 arithmetic
Wrap(n) == ((n + 2^(Width - 1)) % 2^Width) - 2^(Width - 1)
WrappedSum(seq) == FoldLeft(LAMBDA a, b : Wrap(a + b), 0, seq)

\* getEffectiveMinReplicas
EffectiveMinReplicas(scale) ==
  CASE scale.minReplicas # Null /\ scale.minReplicas > 0 -> scale.minReplicas
    [] scale.replicas # Null /\ scale.replicas > 0 -> scale.replicas
    [] OTHER -> 0

\* Counts of all instances, or of one; Null: no scale definition.
CountOf(scales, instance) ==
  LET counts == [id \in DOMAIN scales |-> EffectiveMinReplicas(scales[id])]
  IN  CASE scales = Null -> Result(instance # Null, 0)
        [] scales # Null /\ instance = Null ->
             Result(FALSE, FoldFunction(LAMBDA x, y : Wrap(x + y), 0, counts))
        [] scales # Null /\ instance # Null ->
             IF instance \in DOMAIN scales THEN Result(FALSE, counts[instance]) ELSE Result(TRUE, 0)

\* The component's own count.
OwnScale(component, elements, instance) ==
  LET of(scales) == IF scales.err THEN Result(TRUE, 0) ELSE CountOf(scales.value, instance)
  IN  of(GetPart(component, elements, ScaleRoles))

\* Fault: a component without a scale of its own hides its children's.
ScaleTimesChildrenAlways(own, children) == Wrap(own * children)

\* Zero stands for "defined at another level".
ScaleTimesChildren(own, children) ==
  CASE children = 0 -> own [] own = 0 -> children [] OTHER -> Wrap(own * children)

SumOf(results) ==
  Result(\E i \in DOMAIN results : results[i].err,
         WrappedSum([i \in DOMAIN results |-> results[i].value]))

ScaleWith(own, children) ==
  Result(own.err \/ children.err, ScaleTimesChildren(own.value, children.value))

\* calculateSubtreeScaleByDefinition
ScaleByDefinition(karta, doc, top, instance) ==
  LET scaleOf[n \in NamesOf(karta)] ==
        ScaleWith(OwnScale(Named(karta, n), doc[n], IF n = top THEN instance ELSE Null),
                  SumOf(Once([i \in DOMAIN ChildrenOf(karta, n) |->
                          scaleOf[ChildrenOf(karta, n)[i].name]])))
  IN  scaleOf[top]

\* The instances of a leaf: all of them, or the one wanted.
InstanceCount(ids, wanted) ==
  CASE ids.err -> Result(TRUE, 0)
    [] ~ids.err /\ wanted = Null -> Result(FALSE, Len(ids.value))
    [] ~ids.err /\ wanted # Null -> Result(wanted \notin ToSet(ids.value), 1)

LeafScale(component, elements, wanted) ==
  IF component.ids THEN InstanceCount(GetInstanceIds(component, elements), wanted)
  ELSE Result(FALSE, 1)

\* calculateSubtreeScaleByLeaves: a leaf is not descended.
ScaleByLeaves(karta, doc, top, instance) ==
  LET scaleOf[n \in NamesOf(karta)] ==
        IF HasPodDefinition(Named(karta, n))
          THEN LeafScale(Named(karta, n), doc[n], IF n = top THEN instance ELSE Null)
        ELSE SumOf(Once([i \in DOMAIN ChildrenOf(karta, n) |->
                     scaleOf[ChildrenOf(karta, n)[i].name]]))
  IN  scaleOf[top]

\* CalculateSubtreeScale; the instance is Null or an id.
SubtreeScale(karta, doc, top, instance) ==
  IF instance = EmptyId THEN Result(TRUE, 0)
  ELSE IF HasScaleDefinition(karta) THEN ScaleByDefinition(karta, doc, top, instance)
  ELSE ScaleByLeaves(karta, doc, top, instance)
=============================================================================
