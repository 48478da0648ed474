------------------------------ MODULE Controller ------------------------------
(***************************************************************************)
(* The exporter's controller: watches accept objects, the sources worker   *)
(* refreshes definitions, Pod workers and workload workers turn queued     *)
(* keys into Store results (dsx-workload-exporter/pkg/controller).         *)
(***************************************************************************)
EXTENDS ControllerWorkloads

Definition == [gvk : GVKs, origin : STRING, invalid : BOOLEAN, evaluates : BOOLEAN]
WatchRecord == [full : BOOLEAN, ready : BOOLEAN, err : {"none"} \cup WatchErrors, listing : BOOLEAN]
HealthRecord == [synced : BOOLEAN, err : {"none"} \cup WatchErrors]
Refs == [gvk : GVKs, uid : UIDs, rv : Nat]
Errors == {"none", "denied", "unavailable", "unresolved", "invalid", "evaluation"}
Root == [gvk : GVKs, pods : SUBSET PodUIDs, selected : SUBSET SelectedKeys]
Exclusion == [path : Seq(Refs), version : Nat]
Outcome == [root : UIDs \cup {None}, exclusion : Exclusion \cup {None}]
PodResult == [hasValue : BOOLEAN, ref : Refs \cup {None}, karta : STRING \cup {None}, error : Errors]
WorkloadResult == [hasValue : BOOLEAN, ref : Refs, karta : STRING \cup {None},
                   error : Errors, statusError : Errors]
Steps == {"register", "readRoot", "failEvaluation", "publish", "unregister",
          "withdraw", "remove", "replace", "exclude"}

ASSUME ControllerAssumption ==
  /\ KindOf \in [GVKs -> Kinds] /\ KindOfObject \in [Objects -> Kinds]
  /\ PodGVK \in GVKs
  /\ RequiredKinds \subseteq GVKs /\ IgnoredOwnerKinds \subseteq GVKs
  /\ \A s \in Scenarios :
       /\ s.selected \subseteq GVKs /\ s.unserved \subseteq GVKs
       /\ s.filters \in BOOLEAN
       /\ s.changes \in Nat /\ s.faults \in Nat
       /\ s.leafWorkers \in Nat \ {0} /\ s.rootWorkers \in Nat \ {0}
  /\ WatchErrors \subseteq {"denied", "unavailable"}

\* Consecutive states differ, and a UID, once gone, does not come back.
ASSUME LivesAssumption ==
  \A l \in {s.life : s \in Scenarios}, o \in Objects :
    /\ Len(l[o]) > 0
    /\ \A i \in 1..Len(l[o]) - 1 :
         /\ l[o][i] # l[o][i + 1]
         /\ l[o][i] # None /\ l[o][i + 1] # None => l[o][i].inc = l[o][i + 1].inc
    /\ \A i, j, m \in 1..Len(l[o]) :
         i < j /\ j < m /\ l[o][i] # None /\ l[o][j] = None /\ l[o][m] # None => l[o][i].inc # l[o][m].inc

\* Objects and UIDs are finitely many, and an owner that discovery goes on to is
\* one of them, referred to in a version of its kind.
ASSUME OwnersAssumption ==
  /\ IsFiniteSet(Objects) /\ IsFiniteSet(UIDs)
  /\ \A s \in Scenarios : s.life \in [Objects -> Seq(States \cup {None})]
  /\ \A s \in {t \in States : NamesOwner(t)} : <<s.owner.gvk, s.owner.uid>> \in SelectedKeys

\* Inventory.List keys its definitions by group-kind.
ASSUME SnapshotsAssumption ==
  \A snapshot \in UNION {s.snapshots : s \in Scenarios} :
    /\ snapshot.err \in Errors
    /\ snapshot.defs \in [Kinds -> Definition \cup {None}]
    /\ \A kind \in Kinds :
         snapshot.defs[kind] # None => KindOf[snapshot.defs[kind].gvk] = kind

\* None is a value of its own.
ASSUME NoneAssumption ==
  /\ None \notin UIDs /\ None \notin Refs /\ None \notin Definition
  /\ None \notin WatchRecord /\ None \notin HealthRecord /\ None \notin Root
  /\ None \notin Outcome /\ None \notin Exclusion
  /\ None \notin PodResult /\ None \notin WorkloadResult

MaxLife == LET lengths == UNION {{Len(s.life[o]) : o \in Objects} : s \in Scenarios}
           IN  CHOOSE m \in lengths : \A n \in lengths : n <= m

Init ==
  /\ scenario \in Scenarios
  /\ unmapped = scenario.unserved
  /\ inventory \in scenario.snapshots
  /\ inventoryLeft = scenario.changes /\ failuresLeft = scenario.faults
  /\ watches = [g \in GVKs |-> None] /\ replacements = [g \in GVKs |-> None]
  /\ pos = [k \in Keys |-> 0]
  /\ watchFailures = {} /\ health = [g \in GVKs |-> None]
  /\ roots = [u \in UIDs |-> None]
  /\ podRoots = [u \in PodUIDs |-> None]
  /\ selectedRoots = [x \in SelectedKeys |-> None]
  /\ ancestorPods = {}
  /\ defs = [kind \in Kinds |-> None] /\ defErr = "unavailable" /\ defVersion = 0
  /\ dirty = {} /\ job = <<>>
  /\ syncWorker = IdleSync(TRUE)
  /\ pods = [u \in PodUIDs |-> None] /\ workloads = [u \in UIDs |-> None] /\ failures = {}

Positions(g) ==
  [{o \in Objects : KindOfObject[o] = KindOf[g]} -> 1..MaxLife]

Listing(g) ==
  \E slot \in {s \in Slots : Owes(g, s)} : \E at \in Positions(g) :
    (\A o \in DOMAIN at : at[o] <= Len(life[o])) /\ Replace(g, slot, at)

Watching ==
  \E g \in {h \in GVKs : watches[h] # None} :
    \/ \E o \in Objects : WatchEvent(g, o)
    \/ Listing(g)
    \/ \E slot \in {s \in Slots : WatchIn(g, s) # None} :
         \/ WatchIn(g, slot).err # "none" /\ \E listing \in BOOLEAN : WatchStarts(g, slot, listing)
         \/ failuresLeft > 0 /\ \E err \in WatchErrors : WatchFails(g, slot, err)

Syncing == RefreshDefinitions \/ (\E g \in GVKs : SyncWatch(g)) \/ SyncReturns
External == (\E s \in scenario.snapshots : InventoryChanges(s)) \/ (\E g \in GVKs : Install(g))

Next ==
  \/ Watching \/ Syncing \/ External
  \/ \E u \in PodUIDs : PodStep(u)
  \/ RequeueScope
  \/ \E u \in UIDs : RootStep(u)
  \/ \E x \in SelectedKeys : SelectedStep(x)

Spec == Init /\ [][Next]_vars

\* A work queue hands out keys in the order they were added, so a worker comes
\* to every key; reflectors retry their lists and deliver what they watch.
Fairness ==
  /\ \A u \in PodUIDs : SF_vars(PodStep(u))
  /\ \A u \in UIDs : SF_vars(RootStep(u))
  /\ \A x \in SelectedKeys : SF_vars(SelectedStep(x))
  /\ SF_vars(RequeueScope)
  /\ WF_vars(Syncing)
  /\ \A g \in GVKs : WF_vars(Listing(g)) /\ WF_vars(\E o \in Objects : WatchEvent(g, o))

FairSpec == Spec /\ Fairness

-------------------------------------------------------------------------------
(* Types *)

TypeOK ==
  /\ scenario \in Scenarios
  /\ unmapped \subseteq scenario.unserved /\ inventory \in scenario.snapshots
  /\ inventoryLeft \in 0..scenario.changes /\ failuresLeft \in 0..scenario.faults
  /\ watches \in [GVKs -> WatchRecord \cup {None}]
  /\ replacements \in [GVKs -> WatchRecord \cup {None}]
  /\ pos \in [Keys -> Nat]
  /\ watchFailures \subseteq GVKs \X {"sources", "job"}
  /\ health \in [GVKs -> HealthRecord \cup {None}]
  /\ roots \in [UIDs -> Root \cup {None}]
  /\ podRoots \in [PodUIDs -> UIDs \cup {None}]
  /\ selectedRoots \in [SelectedKeys -> Outcome \cup {None}]
  /\ ancestorPods \subseteq PodUIDs
  /\ defs \in [Kinds -> Definition \cup {None}] /\ defErr \in Errors /\ defVersion \in Nat
  /\ dirty \subseteq PodJobs \cup WorkloadJobs \cup {Rescan}
  /\ DOMAIN job \subseteq PodJobs \cup WorkloadJobs /\ job \in [DOMAIN job ->
               [pc : Steps, path : Seq(Refs), def : Definition \cup {None}, err : Errors,
                version : Nat, ref : Refs \cup {None}]]
  /\ syncWorker \in [queued : BOOLEAN, busy : BOOLEAN, failed : BOOLEAN, todo : SUBSET GVKs]
  /\ pods \in [PodUIDs -> PodResult \cup {None}]
  /\ workloads \in [UIDs -> WorkloadResult \cup {None}]
  /\ failures \subseteq UIDs

-------------------------------------------------------------------------------
(* Membership *)

\* The two directions of membership agree: a Pod is among the Pods of a root
\* exactly when podRoots names that root, and likewise for selected objects,
\* whichever of registration, re-parenting and withdrawal interleave.
MembershipMirror ==
  /\ \A p \in PodUIDs, r \in UIDs :
       podRoots[p] = r <=> roots[r] # None /\ p \in roots[r].pods
  /\ \A x \in SelectedKeys, r \in UIDs :
       (Tracked(x[1], x[2]) /\ selectedRoots[x].root = r)
         <=> (roots[r] # None /\ x \in roots[r].selected)

\* A workload result in Store belongs to a root the controller still tracks, so
\* something can withdraw it.
StoredWorkloadTracked ==
  \A u \in UIDs : workloads[u] # None => roots[u] # None

\* A tracked object without a root or an exclusion has a job that will find one:
\* withdrawing a root never strands its members.
NoOutcomeIsPending ==
  \A x \in SelectedKeys :
    Tracked(x[1], x[2]) /\ selectedRoots[x] = NoOutcome => JobOf(x) \in dirty \/ Busy(JobOf(x))

\* Store keeps a discovery failure only while a job that can clear it is queued
\* or running.
FailureIsPending ==
  \A u \in failures : \E x \in SelectedKeys :
    x[2] = u /\ (JobOf(x) \in dirty \/ Busy(JobOf(x)))

-------------------------------------------------------------------------------
(* Settled results: what Store says once nothing more is queued for a key *)

Quiet(k) == k \notin dirty /\ ~Busy(k)
RootsFrom(ref) == {Last(path) : path \in {w \in Walks(ref) : Current(ref) /\ WalkErr(w) = "none"}}
Readable(g, u) == Lookup(Ref(g, u, 0), TRUE) = "none"
CurrentRef(g, u) == Ref(g, u, pos[<<g, u[1]>>])
Origin(def) == IF def = None THEN None ELSE def.origin

\* The result a Pod job would write for a Pod whose root is read in version g.
PodOutcomeIsCurrent(u, g, root) ==
  LET def == defs[KindOf[g]]
      object == Object(g, root[1])
      evaluates == def # None => def.evaluates
  IN  IF ~(ObjectSelected(object) /\ ResourceSelected(g))
        THEN pods[u] = None /\ podRoots[u] = None
        ELSE /\ podRoots[u] = root
             /\ pods[u] # None
             /\ IF DefinitionErr(KindOf[g]) # "none" THEN pods[u].error = DefinitionErr(KindOf[g])
                ELSE IF ~(evaluates /\ object.renders /\ Object(PodGVK, u[1]).renders)
                  THEN pods[u].error = "evaluation"
                ELSE pods[u] = [hasValue |-> TRUE, ref |-> CurrentRef(g, root),
                                karta |-> Origin(def), error |-> "none"]

\* When no job is left for a Pod, Store maps it to the root its current owner
\* chain ends in, at that root's current version and under the current
\* definition, or holds nothing when the Pod or its root is out of scope: no
\* event that could change the result is lost while a job runs.
PodSettled ==
  \A u \in PodUIDs :
    Quiet(PodJob(u)) /\ Rescan \notin dirty /\ Lookup(Ref(PodGVK, u, 0), TRUE) \in {"none", "notfound"} =>
      IF ~Has(PodGVK, u) \/ ~PodSelected(Object(PodGVK, u[1]))
        THEN pods[u] = None /\ podRoots[u] = None
        ELSE \A root \in RootsFrom(CachedRef(<<PodGVK, u[1]>>)) :
               LET g == SelectedGVK(root.gvk, defs[KindOf[root.gvk]])
               IN  Readable(g, root.uid) /\ ~ResourceErr(g) /\ HasRootOwnership(g, root.uid)
                     => PodOutcomeIsCurrent(u, g, root.uid)

\* When no job is left for a tracked root whose source is healthy, the root
\* exists and has no owner, and Store holds its result at its current version
\* and under the current definition, or none when the root is out of scope.
WorkloadSettled ==
  \A u \in RootUIDs :
    LET def == defs[KindOfObject[u[1]]]
        g == SelectedGVK(roots[u].gvk, def)
        object == Object(g, u[1])
        evaluates == def # None => def.evaluates
        status == IF DefinitionErr(KindOf[g]) # "none" THEN DefinitionErr(KindOf[g])
                  ELSE IF evaluates /\ object.renders THEN "none" ELSE "evaluation"
    IN  Quiet(RootJob(u)) /\ Lookup(Ref(g, u, 0), TRUE) \in {"none", "notfound"} =>
          /\ Has(g, u) /\ EndsChain(object)
          /\ HasRootOwnership(g, u) /\ ~ResourceErr(g) =>
               IF ~(ObjectSelected(object) /\ ResourceSelected(g)) THEN workloads[u] = None
               ELSE /\ workloads[u] # None /\ workloads[u].error = "none"
                    /\ workloads[u].statusError = status
                    /\ status = "none" => /\ workloads[u].ref = CurrentRef(g, u)
                                          /\ workloads[u].karta = Origin(def)

\* When no job is left for a cached object, the root its owner chain ends in is
\* tracked, so that a workload without Pods is published too; a key whose
\* version the definitions no longer select is not tracked at all.
SelectedSettled ==
  \A x \in SelectedKeys :
    LET def == defs[KindOf[x[1]]]
    IN  Quiet(JobOf(x)) /\ Rescan \notin dirty /\ Lookup(Ref(x[1], x[2], 0), FALSE) = "none" =>
          IF def # None /\ def.gvk # x[1] THEN ~Tracked(x[1], x[2])
          ELSE ShouldDiscover(defs, x[1]) => \A root \in RootsFrom(CachedRef(<<x[1], x[2][1]>>)) :
                 LET g == SelectedGVK(root.gvk, defs[KindOf[root.gvk]])
                 IN  ResourceSelected(g) => roots[root.uid] # None

\* A result without error that this step writes is right at that moment.
PublishesFresh ==
  /\ \A u \in PodUIDs :
       LET new == pods'[u]
       IN  new # pods[u] /\ new # None /\ new.error = "none" =>
             /\ new.ref = CurrentRef(new.ref.gvk, new.ref.uid)
             /\ new.karta = Origin(defs[KindOf[new.ref.gvk]])
             /\ \E root \in RootsFrom(CachedRef(<<PodGVK, u[1]>>)) : root.uid = new.ref.uid
  /\ \A u \in UIDs :
       LET new == workloads'[u]
       IN  new # workloads[u] /\ new # None /\ new.error = "none" /\ new.statusError = "none" =>
             /\ new.ref = CurrentRef(new.ref.gvk, u)
             /\ EndsChain(Object(new.ref.gvk, u[1]))
             /\ new.karta = Origin(defs[KindOf[new.ref.gvk]])

\* A result without error that a job writes is right at the moment it is
\* written: the Pod's current owner chain ends in that root, the root is at that
\* version, and the definition is the selected one.  What changed since the job
\* read its inputs leads to another pass instead of a stale write.
NoStalePublish == [][PublishesFresh]_vars

\* Store reports a source as synchronized and healthy only when the watch that
\* serves reads is, and no replacement is still to take over from it.
HealthHonest ==
  \A g \in GVKs :
    health[g] = [synced |-> TRUE, err |-> "none"] =>
      watches[g] # None /\ watches[g].ready /\ watches[g].err = "none" /\ replacements[g] = None

-------------------------------------------------------------------------------
(* Convergence *)

Quiescent ==
  /\ dirty = {} /\ job = <<>>
  /\ ~syncWorker.queued /\ ~syncWorker.busy
Final(o) == life[o][Len(life[o])]
Running == {o \in Objects : KindOfObject[o] = KindOf[PodGVK] /\ Final(o) # None /\ PodSelected(Final(o))}

\* Once every kind is served, and whatever watches failed and recovered, retries
\* chase sources that are not ready yet until no work is left: the
\* controller is ready and every Pod has a valid mapping to the newest
\* version of a root, with the definitions the inventory holds.
Converges ==
  <>(unmapped = {}) =>
  <>[](/\ Quiescent /\ Ready
       /\ defErr = inventory.err /\ defs = inventory.defs
       /\ \A o \in Running :
            LET result == pods[<<o, Final(o).inc>>]
            IN  /\ result # None /\ result.hasValue /\ result.error = "none"
                /\ result.ref.rv = Len(life[result.ref.uid[1]])
                /\ result.karta = Origin(defs[KindOf[result.ref.gvk]]))
===============================================================================
