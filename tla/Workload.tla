------------------------------ MODULE Workload ------------------------------
(***************************************************************************)
(* A workload object in the cluster, read and written through its Karta    *)
(* while its own controller and its users change it.                       *)
(*                                                                         *)
(* A behaviour follows one definition and either the status side of the    *)
(* object (obs) or its spec side (doc); the other one is Null.  The SDK's  *)
(* operations are Suspend, Resume and Update; Report and the Edit actions  *)
(* are the environment.  What the SDK reads is a function of the state and *)
(* is what the properties are about.                                       *)
(***************************************************************************)
EXTENDS KartaCatalog, KartaExtraction, FiniteSetsExt

CONSTANTS
  Observed,      \* definitions whose status side is followed
  Documented,    \* definitions whose spec side is followed
  EditedRoles,   \* roles that users and updates change
  MaxEdits       \* bound: changes to the spec

\* A definition as the SDK decodes it: a list of children, and no name is nil.
IsDefinition(k) ==
  /\ k.children \in Seq({k.children[i] : i \in DOMAIN k.children})
  /\ Null \notin NamesOf(k)

\* Nothing but the owners that its children name can be wrong with it.
OtherwiseValid(k) ==
  /\ UniqueNames(k) /\ ValidRoot(k) /\ ValidGangScheduling(k)
  /\ \A i \in DOMAIN k.children : ValidComponent(k.children[i])

ASSUME WorkloadAssumption == \A k \in Documented : IsDefinition(k) /\ OtherwiseValid(k)

VARIABLES
  karta,   \* the definition
  obs,     \* the status side: [phase, conds, facts], or Null
  doc,     \* the spec side: component -> elements, or Null
  edits    \* changes made to the spec so far

vars == <<karta, obs, doc, edits>>

-----------------------------------------------------------------------------
(* The status side *)

Matchers(def) == UNION {def.mappings[s] : s \in DOMAIN def.mappings}
Expressions(def) == {m.expr : m \in Matchers(def)} \ {Null}

\* What the catalog's expressions read besides phase and conditions, with the
\* values a controller or a user may give it; the first one is the initial value.
FactValues ==
  "active" :> <<0, 1>> @@ "ready" :> <<0, 1>> @@ "finished" :> <<0, 1>> @@ "parallelism" :> <<1, 2>>
    @@ "suspend" :> <<Null, TRUE, FALSE>> @@ "scheduled" :> <<FALSE, TRUE>>
    @@ "generation" :> <<1, 2>> @@ "observedGeneration" :> <<0, 1, 2>>
    @@ "currentRevision" :> <<"r1", "r2">> @@ "updateRevision" :> <<"r1", "r2">>
    @@ "desired" :> <<1, 0, 2>> @@ "replicas" :> <<0, 1, 2>> @@ "readyReplicas" :> <<0, 1, 2>>
    @@ "updatedReplicas" :> <<0, 1, 2>> @@ "availableReplicas" :> <<0, 1, 2>>
    @@ "operatingMode" :> <<Null, "Running", "Suspended">>
    @@ "jobDeploymentStatus" :> <<Null, "Initializing", "Suspended", "Running">>
    @@ "jobs" :> LET job(a, r, f) == [active |-> a, ready |-> r, failed |-> f]
                 IN  <<{}, {job(1, 0, 0)}, {job(1, 1, 0)}, {job(1, 0, 0), job(1, 1, 0)},
                       {job(0, 0, 0)}, {job(1, 0, 0), job(0, 0, 1)}>>

FactsRead ==
  "job pods active, none ready" :> {"active", "ready"}
    @@ "job pods active and ready" :> {"active", "ready"}
    @@ "job below parallelism" :> {"parallelism", "ready", "finished"}
    @@ "never scheduled" :> {"suspend", "scheduled"} @@ "has been scheduled" :> {"suspend", "scheduled"}
    @@ "suspend requested" :> {"suspend"} @@ "raycluster suspended" :> {"suspend"}
    @@ "statefulset at desired state" :>
         {"generation", "observedGeneration", "currentRevision", "updateRevision", "desired",
          "replicas", "readyReplicas", "updatedReplicas"}
    @@ "jobset starting" :> {"jobs"} @@ "jobset working" :> {"jobs"}
    @@ "deployment initializing" :> {"jobDeploymentStatus"}
    @@ "deployment suspended" :> {"jobDeploymentStatus"}
    @@ "all groups ready and updated" :> {"replicas", "readyReplicas", "updatedReplicas"}
    @@ "replicas available" :> {"availableReplicas", "desired"}
    @@ "replicas missing" :> {"availableReplicas", "desired"}

\* Conditions the catalog's expressions read without a matcher naming them.
ConditionsRead(expr) ==
  IF expr \in {"llm converging", "llm starting", "llm failed", "llm presets failed"}
    THEN {"Ready", "PresetsCombined"}
  ELSE IF expr \in {"mode running, not suspended", "mode suspended, still running"}
    THEN {"Suspended"} ELSE {}

FactsOf(k) ==
  UNION {FactsRead[e] : e \in Expressions(k.status) \cap DOMAIN FactsRead}
    \cup {k.suspend[i].field : i \in DOMAIN k.suspend}
ConditionTypes(def) ==
  UNION {{c.type : c \in m.conds} : m \in Matchers(def)}
    \cup UNION {ConditionsRead(e) : e \in Expressions(def)}
PhasesOf(def) == ({m.phase : m \in Matchers(def)} \cup {Null, "suspended"})
ReasonsOf(def) ==
  ((UNION {{c.reason : c \in m.conds} : m \in Matchers(def)}) \ {Null})
    \cup {"Other"}
    \cup (IF "llm failed" \in Expressions(def) THEN LLMStartupReasons ELSE {})
StatusesOf(def) ==
  {"True", "False"} \cup UNION {{c.status : c \in m.conds} : m \in Matchers(def)}
    \cup (IF "llm converging" \in Expressions(def) THEN {"Unknown"} ELSE {})
ConditionValues(def) ==
  {Null} \cup [status : StatusesOf(def), reason : ReasonsOf(def)]

FreshObservation(k) ==
  [phase |-> Null, conds |-> [t \in ConditionTypes(k.status) |-> Null],
   facts |-> [f \in FactsOf(k) |-> FactValues[f][1]]]

\* The controller, or a user, writes one field.
Report ==
  /\ obs # Null
  /\ \/ \E p \in PhasesOf(karta.status) :
          karta.status.phase /\ obs' = [obs EXCEPT !.phase = p]
     \/ \E t \in DOMAIN obs.conds, c \in ConditionValues(karta.status) :
          obs' = [obs EXCEPT !.conds[t] = c]
     \/ \E f \in DOMAIN obs.facts : \E v \in ToSet(FactValues[f]) :
          obs' = [obs EXCEPT !.facts[f] = v]
  /\ UNCHANGED <<karta, doc, edits>>

\* Fault: the resume actions are applied.
ApplyActionsReversed(actions, facts, wanted) ==
  FoldLeft(LAMBDA f, a : [f EXCEPT ![a.field] = a.running], facts, actions)

\* ApplySuspendActions and ApplyResumeActions: the assignments in sequence.
ApplyActions(actions, facts, wanted) ==
  FoldLeft(LAMBDA f, a : [f EXCEPT ![a.field] = a[wanted]], facts, actions)

\* Component.Suspend and Component.Resume; without a suspendDefinition they do
\* nothing.
Suspend ==
  /\ obs # Null
  /\ obs' = [obs EXCEPT !.facts = ApplyActions(karta.suspend, @, "suspended")]
  /\ UNCHANGED <<karta, doc, edits>>

Resume ==
  /\ obs # Null
  /\ obs' = [obs EXCEPT !.facts = ApplyActions(karta.suspend, @, "running")]
  /\ UNCHANGED <<karta, doc, edits>>

Statuses == MatchedStatuses(karta.status, obs)

-----------------------------------------------------------------------------
(* The spec side *)

ValuesOf(role) == IF role \in ScaleRoles THEN {Null, 0, 1, 2} ELSE {Null, "old", "new"}

\* An element with every path of the component present.
Element(component, id) ==
  [id |-> id, guard |-> TRUE,
   vals |-> [r \in DOMAIN component.paths |-> IF r \in ScaleRoles THEN 1 ELSE "old"]]

\* The selects of an LLMInferenceService test whether it has a worker (a prefill
\* worker): main and prefill are accepted without one, the others with one.
SameFact == {{"main", "leader", "worker"}, {"prefill", "prefill-leader", "prefill-worker"}}
Linked(n) == {n} \cup UNION {S \in SameFact : n \in S}
WithWorker == {"leader", "worker", "prefill-leader", "prefill-worker"}

\* The worker count of a LeaderWorkerSet is no field of its own: its path computes
\* it from those of the leader (.spec.replicas) and of the group (size).
WithComputed(k, d) ==
  IF k.root.name # "leaderworkerset" THEN d
  ELSE LET replicas == Defaulted(d["leader"][1].vals.replicas)
           size == Defaulted(d["group"][1].vals.replicas)
       IN  [d EXCEPT !["worker"][1].vals.replicas = replicas * (size - 1)]

\* Two instances, not in the order of their ids, or the only one.
FreshDocument(k) ==
  WithComputed(k, [n \in NamesOf(k) |->
     LET c == Named(k, n)
         element(id) == [Element(c, id) EXCEPT !.guard = n \notin WithWorker]
     IN  IF c.ids THEN <<element(2), element(1)>> ELSE <<element(EmptyId)>>])

\* A user edits one field, what a select() looks at, or the list of elements.
\* Nothing reads an object through a definition that was not accepted.
Edit ==
  /\ doc # Null /\ edits < MaxEdits
  /\ Validate(karta)
  /\ edits' = edits + 1
  /\ \E n \in DOMAIN doc :
       \/ \E i \in DOMAIN doc[n] : \E r \in DOMAIN doc[n][i].vals \cap EditedRoles :
            \E v \in ValuesOf(r) : doc' = WithComputed(karta, [doc EXCEPT ![n][i].vals[r] = v])
       \/ \E i \in DOMAIN doc[n] :
            /\ "guarded" \in Range(Named(karta, n).paths)
            /\ doc' = [m \in DOMAIN doc |->
                         IF m \in Linked(n) THEN [doc[m] EXCEPT ![i].guard = ~@] ELSE doc[m]]
       \/ /\ Named(karta, n).ids
          /\ \/ \E id \in {EmptyId, 1, 3} :
                  doc' = [doc EXCEPT ![n] = Append(@, Element(Named(karta, n), id))]
             \/ doc[n] # <<>> /\ doc' = [doc EXCEPT ![n] = Tail(@)]
  /\ UNCHANGED <<karta, obs>>

\* A client reads a component, changes one field of one instance and writes all
\* instances back.
Changed(component, elements, id, role, value) ==
  LET read == GetExtractedInstances(component, elements).value
  IN  Once([i \in DOMAIN read |-> Once([r \in Roles |->
         IF i = id /\ r = role THEN value
         ELSE IF r \in DOMAIN component.paths THEN read[i][r] ELSE Null])])

UpdateComponent(component, elements, given, role) ==
  IF role \in FragmentFields THEN UpdateFragmentedPodSpec(component, elements, given)
  ELSE UpdateWhole(component, elements, role, given)

Readable(n) == ~GetExtractedInstances(Named(karta, n), doc[n]).err

Update(n, id, role, value) ==
  LET component == Named(karta, n)
      done == UpdateComponent(component, doc[n],
                              Changed(component, doc[n], id, role, value), role)
  IN  /\ role \in DOMAIN component.paths \ ScaleRoles
      /\ id \in ToSet(GetInstanceIds(component, doc[n]).value)
      /\ Readable(n)
      /\ doc' = [doc EXCEPT ![n] = done.value]
      /\ edits' = edits + 1
      /\ UNCHANGED <<karta, obs>>

UpdateSome ==
  /\ doc # Null /\ edits < MaxEdits
  /\ Validate(karta)
  /\ \E n \in DOMAIN doc, id \in 0..3, role \in EditedRoles \ ScaleRoles :
       \E value \in {Null, "new"} : Update(n, id, role, value)

-----------------------------------------------------------------------------
Init ==
  /\ \/ karta \in Observed /\ obs = FreshObservation(karta) /\ doc = Null
     \/ karta \in Documented /\ obs = Null /\ doc = FreshDocument(karta)
  /\ edits = 0

Next == Report \/ Suspend \/ Resume \/ Edit \/ UpdateSome

Spec == Init /\ [][Next]_vars

-----------------------------------------------------------------------------
(* Properties of the status side *)

\* Of each of these sets of statuses an object of the type reports at most one.
Exclusive ==
  LET any == {"Initializing", "Running", "Completed", "Failed", "Degraded", "Suspended",
              "Suspending", "Resuming"}
  IN  "sandbox" :> {any} @@ "cronjob" :> {any} @@ "rayservice" :> {any} @@ "knativeservice" :> {any}
        @@ "job" :> {{"Initializing", "Running"}} @@ "inferenceservice" :> {any}
        @@ "statefulset" :> {{"Running", "Degraded"}, {"Running", "Initializing"}}
        @@ "podcliqueset" :> {{"Initializing", "Running"}}
        @@ "llminferenceservice" :> {{"Initializing", "Failed"}, {"Running", "Failed"}}

\* Whatever the controller has not written yet and whichever way users flip the
\* suspend switch, an object never resolves to two contradictory statuses.
\* (sandbox.go:61-63 claims it for Sandbox; the LLM mapping relies on it.)
NoContradictoryStatuses ==
  obs # Null /\ karta.root.name \in DOMAIN Exclusive =>
    \A together \in Exclusive[karta.root.name] : Cardinality(Statuses \cap together) <= 1

\* A matcher read off the raw object, with nothing lost in extraction.
HoldsRaw(matcher) ==
  /\ matcher.phase # Null => obs.phase = matcher.phase
  /\ \A want \in matcher.conds :
       /\ obs.conds[want.type] # Null
       /\ want.status \in {Null, obs.conds[want.type].status}
       /\ want.reason \in {Null, obs.conds[want.type].reason}
  /\ matcher.expr # Null => Holds(matcher.expr, obs)

\* Every built-in definition extracts what its matchers look at, so no status is
\* missed: a matcher on a reason that is not extracted could never fire
\* (lws.go:41-43).
ReportedAsObserved ==
  obs # Null =>
    Statuses \ {"Undefined"}
      = {s \in DOMAIN karta.status.mappings : \E m \in karta.status.mappings[s] : HoldsRaw(m)}

\* A suspended CronJob or Sandbox says so at once, whatever its controller has
\* reported before, and Resume takes it back.
SuspensionIsReported ==
  [][/\ Suspend => /\ karta.root.name = "sandbox" => Statuses' \subseteq {"Suspending", "Suspended"}
                   /\ karta.root.name = "cronjob" => Statuses' = {"Suspended"}
     /\ Resume => /\ karta.root.name = "sandbox" => Statuses' \cap {"Suspending", "Suspended"} = {}
                  /\ karta.root.name = "cronjob" => "Suspended" \notin Statuses']_vars

-----------------------------------------------------------------------------
(* Properties of the spec side *)

\* Every owner exists, and climbing as often as there are children leads from any
\* component to the root.
IsTree(k) ==
  LET root == k.root.name
      up(n, step) == IF n = root THEN root ELSE Named(k, n).owner
  IN  /\ \A i \in DOMAIN k.children : k.children[i].owner \in NamesOf(k)
      /\ \A n \in NamesOf(k) : FoldLeft(up, n, k.children) = root

\* Validation accepts exactly the definitions whose components form a tree under
\* the root.
AcceptedIsTree == doc # Null => (Validate(karta) <=> IsTree(karta))

\* The gang scale of a subtree without recursion and without a width: the lowest
\* scaled components, each times the scaled components above it; without any
\* scale definition, the instances of the topmost components with Pods.
ExactScale(top) ==
  LET below == {n \in NamesOf(karta) : top \in ToSet(Lineage(karta, n))}
      above(n) == ToSet(Lineage(karta, n)) \cap below
      sum(part) == IF part = Null THEN 0
                   ELSE MapThenSumSet(LAMBDA id : EffectiveMinReplicas(part[id]), DOMAIN part)
      own == Once([n \in below |-> sum(GetPart(Named(karta, n), doc[n], ScaleRoles).value)])
      scaled == {n \in below : own[n] > 0}
      lowest == {n \in scaled : ~\E m \in scaled \ {n} : n \in above(m)}
      withPods == {n \in below : HasPodDefinition(Named(karta, n))}
      topmost == {n \in withPods : above(n) \cap withPods = {n}}
  IN  IF HasScaleDefinition(karta)
        THEN MapThenSumSet(LAMBDA n : MapThenFoldSet(LAMBDA x, y : x * y, 1, LAMBDA m : own[m], LAMBDA S : CHOOSE x \in S : TRUE,
                                                     above(n) \cap scaled), lowest)
      ELSE MapThenSumSet(LAMBDA n : IF Named(karta, n).ids THEN Len(doc[n]) ELSE 1, topmost)

\* The gang scale is exact while it fits the width of the counts, whatever levels
\* of the tree define a scale and whichever counts are zero or absent.
ScaleIsExact ==
  doc # Null /\ Validate(karta) =>
    \A n \in NamesOf(karta) :
      LET agree(scale, exact) == ~scale.err /\ exact < 2^(Width - 1) => scale.value = exact
      IN  agree(SubtreeScale(karta, doc, n, Null), ExactScale(n))

\* Which component a Pod is scheduled with does not depend on the order in which
\* the pod groups are written, when no component is a member twice.  (The
\* definition alone decides it, so the unedited object stands for all.)
GangOrderIndependent ==
  doc # Null /\ edits = 0 /\ Validate(karta) /\ GangMembers(karta) # {} =>
    LET filters == UNION {ToSet(m.filters) : m \in GangMembers(karta)}
        chosen(order, pod, n) ==
          LET arranged == [karta EXCEPT !.gang = [i \in DOMAIN @ |-> @[order[i]]]]
              found == EffectiveComponent(arranged, pod, n)
          IN  IF found = Null THEN Null ELSE found.component
    IN  \A pod \in [filters -> {"true", "false", "error"}], n \in NamesOf(karta),
           order \in Permutations(DOMAIN karta.gang) :
          chosen(order, pod, n) = chosen([i \in DOMAIN karta.gang |-> i], pod, n)

\* What the definition says about one element.
OwnValue(shape, element, role) ==
  IF shape = "literal" \/ (shape \in {"default", "carried"} /\ element.vals[role] = Null)
    THEN DefaultReplicas ELSE element.vals[role]

OwnedBy(n, parts) ==
  LET component == Named(karta, n)
      read == GetExtractedInstances(component, doc[n])
      last(id) == Max({i \in DOMAIN doc[n] : doc[n][i].id = id})
  IN  ~read.err => \A id \in DOMAIN read.value : \A part \in parts :
        \A r \in part \cap DOMAIN component.paths :
          read.value[id][r] = OwnValue(component.paths[r], doc[n][last(id)], r)

\* An instance that can be read is given its own values, not its neighbour's, as
\* long as the paths of one part (scale, fragments) all have one shape: paths that
\* skip the same elements are then noticed by the count.  (Two paths that each skip
\* the absent values would not be; no built-in component has such a part.)
InstancesReadTheirOwn ==
  doc # Null =>
    \A n \in NamesOf(karta) :
      OwnedBy(n, {part \in Parts :
                    Cardinality({Named(karta, n).paths[r] :
                                   r \in part \cap DOMAIN Named(karta, n).paths}) = 1})

\* A successful update gives the instance its new value and leaves every other
\* field and instance of the object alone; only emptying the last value of a
\* field, and a path that selects no place in the object, write nothing.  A failed
\* one leaves behind what a successful one writes, up to some field and no more.
UpdateIsExact ==
  [][\A n \in NamesOf(karta), id \in 0..3, role \in EditedRoles, value \in {Null, "new"} :
       doc # Null /\ Update(n, id, role, value) =>
         LET component == Named(karta, n)
             given == Changed(component, doc[n], id, role, value)
             failed == UpdateComponent(component, doc[n], given, role).err
             skipped(r) == \/ \A i \in DOMAIN given : given[i][r] = Null
                           \/ Visited(component.paths[r], doc[n]) = <<>>
             after == GetExtractedInstances(component, doc'[n])
             holds(r, wanted(_)) == \A i \in DOMAIN doc[n] : doc'[n][i].vals[r] = wanted(doc[n][i])
             written(r) == holds(r, LAMBDA e : given[e.id][r])
             untouched(r) == holds(r, LAMBDA e : e.vals[r])
             places(elements) == [i \in DOMAIN elements |-> [elements[i] EXCEPT !.vals = Null]]
         IN  /\ places(doc'[n]) = places(doc[n])
             /\ ~failed =>
                  /\ ~after.err
                  /\ \A i \in DOMAIN given : \A r \in DOMAIN component.paths :
                       ~skipped(r) => after.value[i][r] = given[i][r]
             /\ failed =>
                  \E last \in 0..Len(FieldOrder) :
                    LET before == {FieldOrder[k] : k \in 1..last}
                    IN  \A r \in DOMAIN component.paths :
                          IF r \in before /\ ~skipped(r) THEN written(r) ELSE untouched(r)
             /\ \A m \in NamesOf(karta) \ {n} : doc'[m] = doc[m]]_vars

-----------------------------------------------------------------------------
(* What the repository's documentation says of the built-in definitions *)

\* "Any fragmented or scale path that can return more than one value, or zero,
\* requires instanceIdPath" and "the paths select on worker presence to count each
\* pod spec once": an object whose values all parse can be read.
ObjectIsReadable ==
  doc # Null /\ Validate(karta) => ~TreeFails(karta, doc)
=============================================================================
