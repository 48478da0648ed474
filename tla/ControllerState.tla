--------------------------- MODULE ControllerState ---------------------------
(***************************************************************************)
(* The state the exporter's controller keeps under stateMu, and the        *)
(* helpers that read it (dsx-workload-exporter/pkg/controller/state.go,    *)
(* runtime.go, reader.go), for the configuration without a namespace       *)
(* selector: one collection per kind covers every namespace.               *)
(*                                                                         *)
(* An object goes through a life, the sequence of states the API server    *)
(* gives it.  A cache entry is a position in that life, which is also the  *)
(* resource version; position 0 is "never seen".  Several GVKs may serve   *)
(* the same kind, each with its own watch and its own position.            *)
(*   object state  [inc, owner, matches]   or None while it does not exist *)
(*     inc         incarnation; <<object, inc>> is the UID                 *)
(*     owner       None, Malformed, or [gvk, uid]                          *)
(*     matches     which of the selectors "pod" and "object" match         *)
(*     renders     FALSE when a label expression fails on the object       *)
(* A scenario is a configuration and what the cluster does under it:       *)
(*   filters     config has ResourceRules or ExcludeResourceRules          *)
(*   selected    GVKs whose resource the rules select                      *)
(*   leafWorkers, rootWorkers   config.LeafWorkers, config.RootWorkers     *)
(*   life        external: the life of every object                        *)
(*   snapshots   external: what Inventory.List may return                  *)
(*   unserved    external: GVKs the REST mapper does not know at first     *)
(*   changes     bound: changes of the inventory                           *)
(*   faults      bound: watch failures                                     *)
(***************************************************************************)
EXTENDS Naturals, Sequences, FiniteSets, Functions

CONSTANTS
  Objects,           \* names of the objects that may exist
  Kinds,             \* group-kinds
  GVKs,              \* group-version-kinds
  KindOf,            \* group-kind of a GVK
  KindOfObject,      \* group-kind of an object
  PodGVK,            \* podGVK
  RequiredKinds,     \* config.RequiredKinds
  IgnoredOwnerKinds, \* config.IgnoredOwnerKinds
  WatchErrors,       \* reasons a watch may fail for
  Scenarios,         \* the scenarios to check
  Malformed,         \* a malformed or ambiguous controller reference
  None               \* nothing

VARIABLES
  scenario,        \* the scenario of this execution
  unmapped,        \* external: GVKs without REST mapping
  inventory,       \* external: what Inventory.List returns
  inventoryLeft,   \* remaining inventory changes
  failuresLeft,    \* remaining watch failures
  watches,         \* watches[gvk] and, equal to it, sources[gvk]
  replacements,    \* replacements[gvk]
  pos,             \* objects[gvk, object], as a position in the life
  watchFailures,   \* watchFailures, and their discovery failures in Store
  health,          \* Store's source health
  roots,           \* roots
  podRoots,        \* podRoots
  selectedRoots,   \* selectedObjectRoots
  ancestorPods,    \* ancestorPods
  defs,            \* selectedDefinitions
  defErr,          \* definitionInventoryErr
  defVersion,      \* definitionVersion
  dirty,           \* keys waiting in podQueue and workloadQueue
  job,             \* what the worker processing a key has learned
  syncWorker,      \* the sources worker and watchSyncQueue
  pods,            \* Store's Pod results
  workloads,       \* Store's workload results
  failures         \* Store's discovery failures of objects

-------------------------------------------------------------------------------
(* Values *)

States == (UNION {Range(s.life[o]) : s \in Scenarios, o \in Objects}) \ {None}
Incarnations == {s.inc : s \in States}
UIDs == Objects \X Incarnations
PodUIDs == {u \in UIDs : KindOfObject[u[1]] = KindOf[PodGVK]}
Keys == {k \in GVKs \X Objects : KindOf[k[1]] = KindOfObject[k[2]]}
SelectedKeys == {k \in GVKs \X UIDs : KindOf[k[1]] = KindOfObject[k[2][1]]}

\* Work queue keys.  Pod and rescan keys are in podQueue, the others in workloadQueue.
PodJob(u) == <<"pod", u>>
RootJob(u) == <<"root", u>>
SelectedJob(g, u) == <<"selected", g, u>>
Rescan == <<"rescan">>
PodJobs == {PodJob(u) : u \in PodUIDs}
RootJobs == {RootJob(u) : u \in UIDs}
SelectedJobs == {SelectedJob(k[1], k[2]) : k \in SelectedKeys}
WorkloadJobs == RootJobs \cup SelectedJobs

Ref(g, u, rv) == [gvk |-> g, uid |-> u, rv |-> rv]

\* Zero outcome, exclusion and membership of a tracked selected object.
NoOutcome == [root |-> None, exclusion |-> None]

-------------------------------------------------------------------------------
(* The object cache: lookupObject *)

life == scenario.life
Life(o, i) == IF i = 0 THEN None ELSE life[o][i]
Object(g, o) == Life(o, pos[<<g, o>>])
Has(g, u) == Object(g, u[1]) # None /\ Object(g, u[1]).inc = u[2]
Cached(g) == {o \in Objects : KindOfObject[o] = KindOf[g] /\ Object(g, o) # None}

Healthy(g) == watches[g] # None /\ watches[g].ready /\ watches[g].err = "none"

\* lookupObject's error: "none", "pending", "stale", "notfound" or the watch's.
Lookup(ref, full) ==
  LET w == watches[ref.gvk]
  IN  CASE w = None -> "pending"
        [] w # None /\ w.err # "none" -> w.err
        [] w # None /\ w.err = "none" /\ (~w.ready \/ (full /\ ~w.full)) -> "pending"
        [] OTHER -> IF ~Has(ref.gvk, ref.uid) THEN "notfound"
                    ELSE IF ref.rv \notin {0, pos[<<ref.gvk, ref.uid[1]>>]} THEN "stale"
                    ELSE "none"

Current(ref) == Lookup(ref, FALSE) = "none"

\* Fault: only the object the job is about is validated.
PathCurrentHead(path) == Current(path[1])

PathCurrent(path) == \A ref \in Range(path) : Current(ref)

\* Fault: failureReason passes cache states on to Store.
FailureReasonRaw(err) == err

\* failureReason of the errors above.
FailureReason(err) ==
  CASE err \in {"pending", "stale"} -> "unavailable"
    [] err = "notfound" -> "unresolved"
    [] OTHER -> err

-------------------------------------------------------------------------------
(* Ownership and selection *)

\* ControllerOwner names no owner that discovery would go on to.
EndsChain(s) ==
  /\ s.owner # Malformed
  /\ s.owner # None => s.owner.gvk \in IgnoredOwnerKinds

\* hasRootOwnership: the selected representation decides while its full source
\* is healthy, otherwise no healthy representation may name an owner.
HasRootOwnership(g, u) ==
  LET def == defs[KindOf[g]]
  IN  IF /\ def # None /\ ~def.invalid
         /\ Has(def.gvk, u) /\ Healthy(def.gvk) /\ watches[def.gvk].full
        THEN EndsChain(Object(def.gvk, u[1]))
        ELSE \A h \in GVKs :
               KindOf[h] = KindOf[g] /\ Healthy(h) /\ Has(h, u) => EndsChain(Object(h, u[1]))

PodSelected(s) == "pod" \in s.matches
ObjectSelected(s) == "object" \in s.matches

\* restMapping fails.
Unmapped(g) == g \in unmapped

\* isResourceSelected: with filters it needs the REST mapping.
ResourceErr(g) == scenario.filters /\ Unmapped(g)
ResourceSelected(g) == scenario.filters => g \in scenario.selected

\* lookupDefinition.
DefinitionErr(kind) ==
  IF defErr # "none" THEN defErr
  ELSE IF defs[kind] # None /\ defs[kind].invalid THEN "invalid" ELSE "none"

\* Fault: the definition is not validated before a write.
DefinitionAssumedCurrent(version) == version \in Nat

\* isDefinitionCurrent: every change of selectedDefinitions takes a new version,
\* so the comparison of GVK and origin adds nothing to that of the version.
DefinitionCurrent(version) == version = defVersion

\* The representation a workload is read in.
SelectedGVK(g, def) == IF def # None THEN def.gvk ELSE g

\* hasSelectedDefinition and shouldDiscoverObject under the definitions d; no
\* GVK here is Namespace or Karta.
ShouldDiscover(d, g) == g # PodGVK \/ (d[KindOf[g]] # None /\ d[KindOf[g]].gvk = g)

-------------------------------------------------------------------------------
(* Queuing work *)

EnqueuePod(g, o, s) ==
  IF s = None \/ g # PodGVK THEN {}
  ELSE LET u == <<o, s.inc>>
       IN  IF PodSelected(s) \/ podRoots[u] # None \/ pods[u] # None THEN {PodJob(u)} ELSE {}

\* Fault: the selected objects of a root are forgotten.
EnqueueMemberPods(u) == {PodJob(p) : p \in roots[u].pods}

EnqueueMembers(u) ==
  {PodJob(p) : p \in roots[u].pods}
    \cup {SelectedJob(k[1], k[2]) : k \in roots[u].selected}

\* Fault: the root itself is not queued.
EnqueueMembersOnly(u) == IF roots[u] = None THEN {} ELSE EnqueueMembers(u)

EnqueueRootAndMembers(u) ==
  IF roots[u] = None THEN {} ELSE {RootJob(u)} \cup EnqueueMembers(u)

\* enqueueObject.
EnqueueObject(d, g, o) ==
  EnqueuePod(g, o, Object(g, o))
    \cup IF ShouldDiscover(d, g) THEN {SelectedJob(g, <<o, Object(g, o).inc>>)} ELSE {}

RootUIDs == {u \in UIDs : roots[u] # None}
Tracked(g, u) == selectedRoots[<<g, u>>] # None

-------------------------------------------------------------------------------
(* Workers: runWorker and the work queue (external) *)

\* What the handler of a key that is being processed has learned: pc, ownership
\* path, selected definition with its error and version, and the object it read last.
Local(pc) == [pc |-> pc, path |-> <<>>, def |-> None, err |-> "none", version |-> 0, ref |-> None]

Busy(k) == k \in DOMAIN job
At(k, pc) == Busy(k) /\ job[k].pc = pc

\* Get: a worker of the pool takes a key nobody is processing.
Take(k, pool, workers) ==
  /\ k \in dirty /\ ~Busy(k)
  /\ Cardinality(DOMAIN job \cap pool) < workers

TakePod(k) == Take(k, PodJobs, scenario.leafWorkers)
TakeWorkload(k) == Take(k, WorkloadJobs, scenario.rootWorkers)

\* The handler goes on, having taken key k when taken is {k}.
Continue(k, taken, local) ==
  /\ job' = [x \in DOMAIN job \cup {k} |-> IF x = k THEN local ELSE job[x]]
  /\ dirty' = dirty \ taken

\* The handler queues work and returns; an error queues the key again.
Return(k, taken, work, retry) ==
  /\ job' = Restrict(job, DOMAIN job \ {k})
  /\ dirty' = (dirty \ taken) \cup work \cup IF retry THEN {k} ELSE {}

environmentVars == <<scenario, unmapped, inventory, inventoryLeft, failuresLeft>>
watchVars == <<watches, replacements, watchFailures, health>>
definitionVars == <<defs, defErr, defVersion, syncWorker>>
membershipVars == <<roots, podRoots, selectedRoots, ancestorPods>>
storeVars == <<pods, workloads, failures>>
vars == <<environmentVars, watchVars, pos, definitionVars, membershipVars, dirty, job, storeVars>>
===============================================================================
