---------------------------- MODULE MCController ----------------------------
(***************************************************************************)
(* Scenarios for Controller: which objects exist, the lives they lead and  *)
(* the definitions the inventory offers.  The kind "Job" may be served in  *)
(* two versions, "Job" and "Job2".                                         *)
(***************************************************************************)
EXTENDS Controller

KindsOfGVKs ==
  [g \in GVKs |-> IF g = "Job2" THEN "Job" ELSE g]
KindsOfObjects ==
  [o \in Objects |-> CASE o \in {"p", "q"} -> "Pod" [] o \in {"i", "j"} -> "Job" [] o = "s" -> "Set"]

Both == {"pod", "object"}
State(inc, owner, matches) ==
  [inc |-> inc, owner |-> owner, matches |-> matches, renders |-> TRUE]
Unrendered(s) == [s EXCEPT !.renders = FALSE]
OwnedBy(g, o) == [gvk |-> g, uid |-> <<o, 1>>]

Def(g, name) == [gvk |-> g, origin |-> name, invalid |-> FALSE, evaluates |-> TRUE]
Failing(def) == [def EXCEPT !.evaluates = FALSE]
Invalid(def) == [def EXCEPT !.invalid = TRUE]
JobSnapshot(def) == [err |-> "none", defs |-> [k \in Kinds |-> IF k = "Job" THEN def ELSE None]]
Down == [err |-> "unavailable", defs |-> [k \in Kinds |-> None]]

Root1 == State(1, None, Both)
Child == State(1, OwnedBy("Job", "j"), Both)
Hidden(s) == [s EXCEPT !.matches = {}]
Pair(lifeOfPod, lifeOfJob) == [p |-> lifeOfPod, j |-> lifeOfJob]

\* No filters, one worker for each queue, a cluster that changes its objects only.
Scenario(life0, snapshots) ==
  [filters |-> FALSE, selected |-> {}, leafWorkers |-> 1, rootWorkers |-> 1,
   life |-> life0, snapshots |-> snapshots, unserved |-> {}, changes |-> 0, faults |-> 0]
Undefined(life0) == Scenario(life0, {JobSnapshot(None)})
Defined(life0) == Scenario(life0, {JobSnapshot(Def("Job", "a"))})

\* The middle of an owner chain changes its owner: the Job of a Pod is adopted by
\* a Pod, or a Pod that owns another one is released by its Job.
OwnershipScenarios ==
  {Undefined([p |-> <<Child>>, j |-> <<Root1, State(1, OwnedBy("Pod", "q"), Both)>>, q |-> <<Root1>>]),
    Undefined([p |-> <<Child, Root1>>, j |-> <<Root1>>, q |-> <<State(1, OwnedBy("Pod", "p"), Both)>>])}

\* A Pod or its Job is deleted and recreated, leaves the selectors' scope,
\* or gets a controller reference that is malformed and then one of an ignored
\* kind; or its labels stop rendering.
IgnoredOwner == State(1, OwnedBy("Set", "s"), Both)
LifetimeScenarios ==
  {Defined(Pair(<<Child, None, [Child EXCEPT !.inc = 2]>>, <<Root1>>)),
    Defined(Pair(<<Child>>, <<Root1, None, State(2, None, Both)>>)),
    Defined(Pair(<<Child, Hidden(Child)>>, <<Hidden(Root1), Root1>>)),
    Defined(Pair(<<Child>>, <<Root1, State(1, Malformed, Both), IgnoredOwner>>)),
    Defined(Pair(<<Child, Unrendered(Child)>>, <<Root1>>)),
    Defined(Pair(<<Child>>, <<Root1, Unrendered(Root1)>>))}

\* Definitions change, fail and become unavailable under a Pod and its Job.
DefinitionScenarios ==
  {[Scenario(Pair(<<Child>>, <<Root1>>),
             {JobSnapshot(Def("Job", "a")), JobSnapshot(Failing(Def("Job", "b"))),
              JobSnapshot(Invalid(Def("Job", "b"))), Down}) EXCEPT !.changes = 1]}
LifetimeAndDefinitionScenarios == LifetimeScenarios \cup DefinitionScenarios

\* The definition moves between versions of a Job without Pods and may be invalid.
VersionScenarios ==
  {[Scenario(Pair(<<None>>, <<Root1, None>>),
             {JobSnapshot(None), JobSnapshot(Def("Job", "a")), JobSnapshot(Def("Job2", "b")),
              JobSnapshot(Invalid(Def("Job2", "b")))}) EXCEPT !.changes = 1, !.rootWorkers = 2]}

\* The definition of a Job moves to the version the resource rules select.
Filtered(life0) ==
  [Scenario(life0, {JobSnapshot(Def("Job", "a")), JobSnapshot(Def("Job2", "b"))})
     EXCEPT !.changes = 1, !.filters = TRUE, !.selected = {"Pod", "Job2"}, !.unserved = {"Job2"}]
FilterScenarios == {Filtered(Pair(<<Child>>, <<Root1>>))}
VersionAndFilterScenarios == VersionScenarios \cup FilterScenarios

\* The same, for a Job that adopts a Pod which had no owner.
RescopeScenarios == {[Filtered(Pair(<<Root1, Child>>, <<Root1>>)) EXCEPT !.unserved = {}]}

\* A Job known only as the owner of a Pod: its metadata watch is replaced by a
\* full one, and watches fail and recover.
UpgradeScenarios ==
  {[Undefined(Pair(<<Child>>, <<Root1, Hidden(Root1)>>)) EXCEPT !.faults = 2]}

\* A Pod owned by a Job whose CRD may be installed late.
ProgressScenarios ==
  {[Undefined(Pair(<<Child>>, <<Root1>>)) EXCEPT !.faults = 1, !.unserved = {"Job"}]}
=============================================================================
