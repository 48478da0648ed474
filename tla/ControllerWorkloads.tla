------------------------- MODULE ControllerWorkloads -------------------------
(***************************************************************************)
(* Root-UID jobs and selected-object jobs                                  *)
(* (dsx-workload-exporter/pkg/controller/root.go).                         *)
(*   workload result [hasValue, ref, karta, error, statusError]            *)
(***************************************************************************)
EXTENDS ControllerPods

-------------------------------------------------------------------------------
(* reconcileWorkload *)

\* failWorkload: only the job of a root removes that root.
FailWorkload(u, ref, reason) ==
  /\ workloads' = [workloads EXCEPT ![u] =
       IF workloads[u] = None
         THEN [hasValue |-> FALSE, ref |-> ref, karta |-> None, error |-> reason, statusError |-> "none"]
         ELSE [workloads[u] EXCEPT !.error = reason]]
  /\ Return(RootJob(u), {RootJob(u)}, {}, TRUE)

\* snapshotRoot, lookupDefinition, ensure the full watch, read the root, isRoot
\* and isRootSelected.
ReadWorkload(u) ==
  LET k == RootJob(u)
      kind == KindOfObject[u[1]]
      ref == Ref(SelectedGVK(roots[u].gvk, defs[kind]), u, 0)
      err == Lookup(ref, TRUE)
      object == Object(ref.gvk, u[1])
      read == [ref EXCEPT !.rv = pos[<<ref.gvk, u[1]>>]]
      go(local) == Continue(k, {k}, local) /\ UNCHANGED workloads
  IN  /\ TakeWorkload(k)
      /\ IF roots[u] = None
           THEN Return(k, {k}, {}, FALSE) /\ UNCHANGED <<watchVars, workloads>>
           ELSE /\ EnsureWatch(ref.gvk, TRUE, "job")
                /\ IF Unmapped(ref.gvk) THEN FailWorkload(u, ref, "unavailable")
                   ELSE IF err = "notfound" THEN go(Local("withdraw"))
                   ELSE IF err # "none" THEN FailWorkload(u, ref, FailureReason(err))
                   ELSE IF object.owner = Malformed THEN FailWorkload(u, read, "unresolved")
                   ELSE IF ~EndsChain(object) THEN go(Local("withdraw"))
                   ELSE IF ~HasRootOwnership(ref.gvk, u) THEN FailWorkload(u, read, "unresolved")
                   ELSE IF ObjectSelected(object) /\ ResourceErr(ref.gvk)
                     THEN FailWorkload(u, read, "unavailable")
                   ELSE IF ~(ObjectSelected(object) /\ ResourceSelected(ref.gvk)) THEN
                     go(Local("remove"))
                   ELSE go([pc |-> "publish", path |-> <<>>, def |-> defs[kind], ref |-> read,
                            err |-> DefinitionErr(kind), version |-> defVersion])
      /\ UNCHANGED <<environmentVars, pos, definitionVars, membershipVars, pods, failures>>

\* Fault: RemoveWorkload misses the result.
KeptWorkload(u) == workloads

\* Store.RemoveWorkload.
RemovedWorkload(u) == [workloads EXCEPT ![u] = None]

\* withdrawWorkload: removeRoot.
WithdrawWorkload(u) ==
  LET k == RootJob(u)
  IN  /\ At(k, "withdraw")
      /\ roots' = [roots EXCEPT ![u] = None]
      /\ podRoots' = [p \in PodUIDs |-> IF roots[u] # None /\ p \in roots[u].pods
                                          THEN None ELSE podRoots[p]]
      /\ selectedRoots' = [x \in SelectedKeys |-> IF roots[u] # None /\ x \in roots[u].selected
                                                    THEN NoOutcome ELSE selectedRoots[x]]
      /\ workloads' = RemovedWorkload(u)
      /\ Return(k, {}, IF roots[u] = None THEN {} ELSE EnqueueMembers(u), FALSE)
      /\ UNCHANGED <<environmentVars, watchVars, pos, definitionVars, ancestorPods, pods, failures>>

\* A root the selectors leave out: its result goes, its membership stays.
RemoveWorkload(u) ==
  LET k == RootJob(u)
  IN  /\ At(k, "remove")
      /\ workloads' = RemovedWorkload(u)
      /\ Return(k, {}, {}, FALSE)
      /\ UNCHANGED <<environmentVars, watchVars, pos, definitionVars, membershipVars, pods, failures>>

\* evaluateWorkloadStatus and its labels.
StatusErr(u) ==
  LET local == job[RootJob(u)]
  IN  IF local.err # "none" THEN local.err
      ELSE IF \/ local.def # None /\ ~local.def.evaluates
              \/ ~Life(u[1], local.ref.rv).renders THEN "evaluation"
      ELSE "none"

\* publishWorkload; a status error keeps the previous record, unless that record
\* names a definition that is gone.
PublishWorkload(u) ==
  LET k == RootJob(u)
      ref == job[k].ref
      fresh == [hasValue |-> TRUE, ref |-> ref, error |-> "none", statusError |-> StatusErr(u),
                karta |-> IF job[k].def = None \/ job[k].err # "none" THEN None ELSE job[k].def.origin]
      keep == /\ StatusErr(u) # "none"
              /\ workloads[u] # None /\ workloads[u].hasValue
              /\ ~(job[k].def = None /\ job[k].err = "none" /\ workloads[u].karta # None)
  IN  /\ At(k, "publish")
      /\ IF /\ roots[u] # None /\ Current(ref) /\ HasRootOwnership(ref.gvk, u)
            /\ DefinitionCurrent(job[k].version)
           THEN /\ roots' = [roots EXCEPT ![u].gvk = ref.gvk]
                /\ workloads' = [workloads EXCEPT ![u] =
                     IF keep THEN [fresh EXCEPT !.ref = workloads[u].ref, !.karta = workloads[u].karta]
                             ELSE fresh]
                /\ Return(k, {}, {}, FALSE)
           ELSE Return(k, {}, {}, TRUE) /\ UNCHANGED <<roots, workloads>>
      /\ UNCHANGED <<environmentVars, watchVars, pos, definitionVars, podRoots, selectedRoots,
                     ancestorPods, pods, failures>>

RootStep(u) ==
  \/ ReadWorkload(u)
  \/ Busy(RootJob(u)) /\ (WithdrawWorkload(u) \/ RemoveWorkload(u) \/ PublishWorkload(u))

-------------------------------------------------------------------------------
(* resolveSelectedObjectRoot.  A selected key is x = <<gvk, uid>>. *)

JobOf(x) == SelectedJob(x[1], x[2])

\* removeSelectedObjectMembership: the roots and the queued root after it.
RootsWithoutSelected(x) ==
  IF selectedRoots[x] # None /\ selectedRoots[x].root # None /\ roots[selectedRoots[x].root] # None
    THEN [roots EXCEPT ![selectedRoots[x].root].selected = @ \ {x}] ELSE roots
LeftSelectedRoot(x) ==
  IF selectedRoots[x] # None /\ selectedRoots[x].root # None /\ roots[selectedRoots[x].root] # None
    THEN {RootJob(selectedRoots[x].root)} ELSE {}

\* Fault: a failed discovery is not retried.
FailSelectedOnce(x) ==
  /\ failures' = failures \cup {x[2]}
  /\ Return(JobOf(x), {JobOf(x)}, {}, FALSE)

\* failSelectedObjectDiscovery, and the error return.
FailSelected(x) ==
  /\ failures' = failures \cup {x[2]}
  /\ Return(JobOf(x), {JobOf(x)}, {}, TRUE)

\* trackSelectedObject and lookupDefinition.  If the definition selects another
\* version, read the object in that version; otherwise discover the root, look
\* up its definition and apply the resource rules.
ResolveSelectedObject(x) ==
  LET k == JobOf(x)
      def == defs[KindOf[x[1]]]
      outcome == IF selectedRoots[x] = None THEN NoOutcome ELSE selectedRoots[x]
      swapped == Ref(def.gvk, x[2], 0)
      swapErr == Lookup(swapped, TRUE)
      err == Lookup(Ref(x[1], x[2], 0), FALSE)
      go(local) == Continue(k, {k}, local) /\ UNCHANGED failures
  IN  /\ TakeWorkload(k)
      /\ selectedRoots' = [selectedRoots EXCEPT ![x] = [outcome EXCEPT !.exclusion = None]]
      /\ IF def = None /\ defErr # "none"
           THEN FailSelected(x) /\ UNCHANGED watchVars
         ELSE IF def # None /\ def.gvk # x[1]
           THEN /\ EnsureWatch(swapped.gvk, TRUE, "job")
                /\ IF Unmapped(swapped.gvk) \/ swapErr \notin {"none", "notfound"}
                     THEN Return(k, {k}, {}, TRUE) /\ UNCHANGED failures
                     ELSE go([Local("replace") EXCEPT !.version = defVersion, !.def = def,
                                     !.ref = IF swapErr = "none" THEN swapped ELSE None])
         ELSE IF err = "notfound"
           THEN go(Local("unregister")) /\ UNCHANGED watchVars
         ELSE IF err # "none"
           THEN FailSelected(x) /\ UNCHANGED watchVars
         ELSE \E path \in Walks(CachedRef(<<x[1], x[2][1]>>)) :
              LET kind == KindOf[Last(path).gvk]
                  g == SelectedGVK(Last(path).gvk, defs[kind])
                  lookupErr == DefinitionErr(KindOf[x[1]]) # "none" \/ DefinitionErr(kind) # "none"
              IN  IF WalkErr(path) # "none"
                    THEN FailSelected(x) /\ WalkEnsures(path)
                  ELSE IF ResourceErr(g) \/ (~ResourceSelected(g) /\ lookupErr)
                    THEN FailSelected(x) /\ UNCHANGED watchVars
                  ELSE /\ go([Local(IF ResourceSelected(g) THEN "register" ELSE "exclude") EXCEPT
                                !.path = path, !.version = defVersion])
                       /\ UNCHANGED watchVars
      /\ UNCHANGED <<environmentVars, pos, definitionVars, roots, podRoots, ancestorPods,
                     pods, workloads>>

\* replaceSelectedObjectTracking: this key goes once the other one has an outcome.
ReplaceSelectedObjectTracking(x) ==
  LET k == JobOf(x)
      y == <<job[k].def.gvk, x[2]>>
      queued == IF job[k].ref = None THEN {} ELSE {JobOf(y)}
      outcome == IF selectedRoots[y] = None THEN NoOutcome ELSE selectedRoots[y]
      settled == \/ job[k].ref = None
                 \/ outcome.root # None
                 \/ /\ outcome.exclusion # None
                    /\ PathCurrent(outcome.exclusion.path)
                    /\ DefinitionCurrent(outcome.exclusion.version)
  IN  /\ At(k, "replace")
      /\ IF ~DefinitionCurrent(job[k].version)
           THEN Return(k, {}, {}, TRUE) /\ UNCHANGED <<roots, selectedRoots, failures>>
         ELSE IF ~settled
           THEN Return(k, {}, queued, TRUE) /\ UNCHANGED <<roots, selectedRoots, failures>>
         ELSE /\ roots' = RootsWithoutSelected(x)
              /\ selectedRoots' = [selectedRoots EXCEPT ![x] = None]
              /\ failures' = failures \ {x[2]}
              /\ Return(k, {}, queued \cup LeftSelectedRoot(x), FALSE)
      /\ UNCHANGED <<environmentVars, watchVars, pos, definitionVars, podRoots, ancestorPods, pods, workloads>>

InputsCurrent(k) ==
  PathCurrent(job[k].path) /\ DefinitionCurrent(job[k].version)

\* registerSelectedObjectRoot.
RegisterSelectedObjectRoot(x) ==
  LET k == JobOf(x)
      root == RootOf(k)
      ensured == EnsuredRoot(root)
      previous == IF selectedRoots[x] = None THEN None ELSE selectedRoots[x].root
      left == IF previous = root.uid THEN roots ELSE RootsWithoutSelected(x)
  IN  /\ At(k, "register")
      /\ IF ~InputsCurrent(k)
           THEN Return(k, {}, {}, TRUE) /\ UNCHANGED <<membershipVars, failures>>
           ELSE /\ ancestorPods' = ancestorPods \cup PathPods(job[k].path)
                /\ roots' = [left EXCEPT ![root.uid] = [ensured EXCEPT !.selected = @ \cup {x}]]
                /\ selectedRoots' = [selectedRoots EXCEPT ![x] = [root |-> root.uid, exclusion |-> None]]
                /\ failures' = failures \ {x[2]}
                /\ Return(k, {}, {RootJob(root.uid)}
                     \cup IF previous = root.uid THEN {} ELSE LeftSelectedRoot(x), FALSE)
                /\ UNCHANGED podRoots
      /\ UNCHANGED <<environmentVars, watchVars, pos, definitionVars, pods, workloads>>

\* excludeSelectedObject.
ExcludeSelectedObject(x) ==
  LET k == JobOf(x)
      exclusion == [path |-> job[k].path, version |-> job[k].version]
  IN  /\ At(k, "exclude")
      /\ IF ~InputsCurrent(k)
           THEN Return(k, {}, {}, TRUE) /\ UNCHANGED <<roots, selectedRoots, failures>>
           ELSE /\ roots' = RootsWithoutSelected(x)
                /\ selectedRoots' = [selectedRoots EXCEPT ![x] = [root |-> None, exclusion |-> exclusion]]
                /\ failures' = failures \ {x[2]}
                /\ Return(k, {}, LeftSelectedRoot(x), FALSE)
      /\ UNCHANGED <<environmentVars, watchVars, pos, definitionVars, podRoots, ancestorPods, pods, workloads>>

\* unregisterSelectedObject.
UnregisterSelectedObject(x) ==
  LET k == JobOf(x)
  IN  /\ At(k, "unregister")
      /\ roots' = RootsWithoutSelected(x)
      /\ selectedRoots' = [selectedRoots EXCEPT ![x] = None]
      /\ failures' = failures \ {x[2]}
      /\ Return(k, {}, LeftSelectedRoot(x), FALSE)
      /\ UNCHANGED <<environmentVars, watchVars, pos, definitionVars, podRoots, ancestorPods, pods, workloads>>

SelectedStep(x) ==
  \/ ResolveSelectedObject(x)
  \/ /\ Busy(JobOf(x))
     /\ \/ ReplaceSelectedObjectTracking(x) \/ RegisterSelectedObjectRoot(x)
        \/ ExcludeSelectedObject(x) \/ UnregisterSelectedObject(x)
===============================================================================
