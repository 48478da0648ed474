---------------------------- MODULE ControllerPods ----------------------------
(***************************************************************************)
(* Pod jobs and rescans (dsx-workload-exporter/pkg/controller/leaf.go) and *)
(* the owner traversal they share with selected-object jobs                *)
(* (pkg/discovery/resolve.go).                                             *)
(*                                                                         *)
(* A handler is cut where it writes shared state or validates what it read *)
(* earlier.  Reads that follow one another are one step: they look at      *)
(* different objects or at the definitions, which change independently of  *)
(* each other, so what they return could have been read at one moment.  An *)
(* object that changes between two reads of it makes the code return an    *)
(* error and retry; here the step runs before or after the change.  An     *)
(* error return writes its failure in the step that met the error: only    *)
(* the job of a key writes that key's result.                              *)
(*   Pod result [hasValue, ref, karta, error], ref being the workload root *)
(***************************************************************************)
EXTENDS ControllerSources

-------------------------------------------------------------------------------
(* Discovery (discovery.Get).  The limit of 1024 objects is longer than any  *)
(* chain of an instance.                                                     *)

CachedRef(k) == Ref(k[1], <<k[2], Object(k[1], k[2]).inc>>, pos[k])
ObjectAt(ref) == Object(ref.gvk, ref.uid[1])
Seen(path) == {path[i].uid : i \in DOMAIN path}
Last(path) == path[Len(path)]

\* The next object Get asks for after the last one of the path.
OwnerRef(path) == Ref(ObjectAt(Last(path)).owner.gvk, ObjectAt(Last(path)).owner.uid, 0)
NamesOwner(object) == ~EndsChain(object) /\ object.owner # Malformed

\* Why Get cannot go on from the last object of the path, or "none".
WalkErr(path) ==
  IF ~NamesOwner(ObjectAt(Last(path)))
    THEN IF ObjectAt(Last(path)).owner = Malformed THEN "unresolved" ELSE "none"
  ELSE IF OwnerRef(path).uid \in Seen(path) THEN "unresolved"
  ELSE IF Unmapped(OwnerRef(path).gvk) THEN "unavailable"
  ELSE FailureReason(Lookup(OwnerRef(path), FALSE))

\* Get stops at the root, or with an error.
Finished(path) == EndsChain(ObjectAt(Last(path))) \/ WalkErr(path) # "none"

\* The objects Get verified when it stops, the input first, as a set of the one
\* path.  No UID is on it twice, so Get stops after at most one round per UID.
Extended(path) ==
  IF Finished(path) THEN path
  ELSE Append(path, CachedRef(<<OwnerRef(path).gvk, OwnerRef(path).uid[1]>>))
Walks(ref) ==
  LET round[n \in 1..Cardinality(UIDs)] ==
        IF n = 1 THEN {<<ref>>} ELSE {Extended(path) : path \in round[n - 1]}
  IN  round[Cardinality(UIDs)]

\* GetMetadata after a cache miss requests metadata coverage.
WalkEnsures(path) ==
  IF NamesOwner(ObjectAt(Last(path))) /\ OwnerRef(path).uid \notin Seen(path)
    THEN EnsureWatch(OwnerRef(path).gvk, FALSE, "job")
    ELSE UNCHANGED watchVars

RootOf(k) == Last(job[k].path)

-------------------------------------------------------------------------------
(* Outcomes *)

\* publishPodFailure.
FailedPod(u, reason, root) ==
  IF pods[u] # None /\ (pods[u].hasValue \/ root = None)
    THEN [pods[u] EXCEPT !.error = reason]
    ELSE [hasValue |-> FALSE, ref |-> root, karta |-> None, error |-> reason]

\* Fault: a failed Pod job is not retried.
FailPodOnce(u, taken, reason, root) ==
  /\ pods' = [pods EXCEPT ![u] = FailedPod(u, reason, root)]
  /\ Return(PodJob(u), taken, {}, FALSE)

\* failPod; evaluation and definition errors are not retried.
FailPod(u, taken, reason, root) ==
  /\ pods' = [pods EXCEPT ![u] = FailedPod(u, reason, root)]
  /\ Return(PodJob(u), taken, {}, reason \notin {"evaluation", "invalid"})

\* Fault: the Pod stays a member of the root it leaves.
RootsKeepingPod(u) == roots

\* Leave the root the Pod is registered under.
RootsWithoutPod(u) ==
  IF podRoots[u] # None /\ roots[podRoots[u]] # None
    THEN [roots EXCEPT ![podRoots[u]].pods = @ \ {u}] ELSE roots
LeftRoot(u) ==
  IF podRoots[u] # None /\ roots[podRoots[u]] # None THEN {RootJob(podRoots[u])} ELSE {}

-------------------------------------------------------------------------------
(* reconcilePod *)

\* Read the Pod, discover its root, look up the root's definition and apply the
\* resource rules to the representation it selects.
ResolvePod(u) ==
  LET k == PodJob(u)
      err == Lookup(Ref(PodGVK, u, 0), TRUE)
      stop == Continue(k, {k}, Local("unregister")) /\ UNCHANGED <<watchVars, pods>>
  IN  /\ TakePod(k)
      /\ IF err = "notfound" \/ (err = "none" /\ ~PodSelected(Object(PodGVK, u[1])))
           THEN stop
         ELSE IF err # "none"
           THEN FailPod(u, {k}, FailureReason(err), None) /\ UNCHANGED watchVars
         ELSE \E path \in Walks(CachedRef(<<PodGVK, u[1]>>)) :
              LET root == Last(path)
                  def == defs[KindOf[root.gvk]]
                  g == SelectedGVK(root.gvk, def)
              IN  IF WalkErr(path) # "none"
                    THEN FailPod(u, {k}, WalkErr(path), None) /\ WalkEnsures(path)
                  ELSE IF ResourceErr(g)
                    THEN FailPod(u, {k}, "unavailable", [root EXCEPT !.gvk = g]) /\ UNCHANGED watchVars
                  ELSE IF ~ResourceSelected(g)
                    THEN stop
                  ELSE /\ Continue(k, {k}, [pc |-> "register", path |-> path, def |-> def, ref |-> None,
                            err |-> DefinitionErr(KindOf[root.gvk]), version |-> defVersion])
                       /\ UNCHANGED <<watchVars, pods>>
      /\ UNCHANGED <<environmentVars, pos, definitionVars, membershipVars, workloads, failures>>

\* ensureRoot: the root's state after it, and whether it queues the root.
EnsuredRoot(root) ==
  LET def == defs[KindOf[root.gvk]]
      known == IF roots[root.uid] = None
                 THEN [gvk |-> root.gvk, pods |-> {}, selected |-> {}] ELSE roots[root.uid]
  IN  IF def # None THEN [known EXCEPT !.gvk = def.gvk]
      ELSE IF ~Current(Ref(known.gvk, root.uid, 0)) THEN [known EXCEPT !.gvk = root.gvk]
      ELSE known

\* Fault: Pods on an owner chain are not remembered.
PathWithoutPods(path) == {}

PathPods(path) == {path[i].uid : i \in {j \in 2..Len(path) : path[j].gvk = PodGVK}}

\* registerPodRoot.
RegisterPodRoot(u) ==
  LET k == PodJob(u)
      root == RootOf(k)
      ensured == EnsuredRoot(root)
      rekeyed == IF roots[root.uid] # None /\ defs[KindOf[root.gvk]] = None
                      /\ ensured.gvk # roots[root.uid].gvk THEN {RootJob(root.uid)} ELSE {}
  IN  /\ At(k, "register")
      /\ CASE ~PathCurrent(job[k].path) ->
                Return(k, {}, {}, TRUE) /\ UNCHANGED <<membershipVars, pods>>
           [] PathCurrent(job[k].path) /\ ~HasRootOwnership(root.gvk, root.uid) ->
                FailPod(u, {}, "unresolved", root) /\ UNCHANGED membershipVars
           [] OTHER ->
                /\ ancestorPods' = ancestorPods \cup PathPods(job[k].path)
                /\ podRoots' = [podRoots EXCEPT ![u] = root.uid]
                /\ roots' = IF podRoots[u] = root.uid
                              THEN [roots EXCEPT ![root.uid] = ensured]
                              ELSE [RootsWithoutPod(u) EXCEPT
                                      ![root.uid] = [ensured EXCEPT !.pods = @ \cup {u}]]
                /\ job' = [job EXCEPT ![k].pc = "readRoot"]
                /\ dirty' = dirty \cup rekeyed
                     \cup IF podRoots[u] = root.uid THEN {} ELSE LeftRoot(u) \cup {RootJob(root.uid)}
                /\ UNCHANGED <<selectedRoots, pods>>
      /\ UNCHANGED <<environmentVars, watchVars, pos, definitionVars, workloads, failures>>

\* evaluatePodRecord and evaluatePodComponent: the definition's expressions.
PodEvaluates(def) == def # None => def.evaluates

\* Read the full root, starting or upgrading its watch when that fails, and
\* evaluate the Pod outside the lock.
ReadPodRoot(u) ==
  LET k == PodJob(u)
      g == SelectedGVK(RootOf(k).gvk, job[k].def)
      ref == Ref(g, RootOf(k).uid, 0)
      err == Lookup(ref, TRUE)
      object == Object(g, ref.uid[1])
      read == [job[k] EXCEPT !.ref = [ref EXCEPT !.rv = pos[<<g, ref.uid[1]>>]]]
      refresh == err # "none" \/ <<g, "job">> \in watchFailures
  IN  /\ At(k, "readRoot")
      /\ IF refresh THEN EnsureWatch(g, TRUE, "job") ELSE UNCHANGED watchVars
      /\ CASE refresh /\ Unmapped(g) -> FailPod(u, {}, "unavailable", RootOf(k))
           [] err # "none" /\ ~Unmapped(g) -> FailPod(u, {}, FailureReason(err), RootOf(k))
           [] err = "none" /\ ResourceErr(g) -> FailPod(u, {}, "unavailable", RootOf(k))
           [] OTHER ->
                /\ UNCHANGED pods
                /\ Continue(k, {},
                     IF ~(ObjectSelected(object) /\ ResourceSelected(g))
                       THEN Local("unregister")
                     ELSE IF job[k].err # "none"
                       THEN [read EXCEPT !.pc = "failEvaluation"]
                     ELSE IF ~PodEvaluates(job[k].def)
                       THEN [read EXCEPT !.pc = "failEvaluation", !.err = "evaluation"]
                     ELSE [read EXCEPT !.pc = "publish"])
      /\ UNCHANGED <<environmentVars, pos, definitionVars, membershipVars, workloads, failures>>

\* failPodEvaluation.
FailPodEvaluation(u) ==
  LET k == PodJob(u)
      ref == job[k].ref
  IN  /\ At(k, "failEvaluation")
      /\ IF /\ DefinitionCurrent(job[k].version) /\ PathCurrent(job[k].path)
            /\ Current(ref) /\ HasRootOwnership(ref.gvk, ref.uid)
           THEN FailPod(u, {}, job[k].err, ref)
           ELSE Return(k, {}, {}, TRUE) /\ UNCHANGED pods
      /\ UNCHANGED <<environmentVars, watchVars, pos, definitionVars, membershipVars, workloads, failures>>

\* publishPod; a failing label expression keeps the previous record, unless
\* that record names a definition that is gone.
PublishPod(u) ==
  LET k == PodJob(u)
      ref == job[k].ref
      karta == IF job[k].def = None THEN None ELSE job[k].def.origin
      fresh == [hasValue |-> TRUE, ref |-> ref, karta |-> karta, error |-> "none"]
      keep == /\ pods[u] # None /\ pods[u].hasValue
              /\ ~(job[k].def = None /\ pods[u].karta # None)
      renders == Life(ref.uid[1], ref.rv).renders /\ Life(u[1], job[k].path[1].rv).renders
  IN  /\ At(k, "publish")
      /\ IF /\ PathCurrent(job[k].path) /\ HasRootOwnership(ref.gvk, ref.uid)
            /\ DefinitionCurrent(job[k].version) /\ Current(ref)
           THEN /\ pods' = [pods EXCEPT ![u] =
                     IF renders THEN fresh
                     ELSE [(IF keep THEN pods[u] ELSE fresh) EXCEPT !.error = "evaluation"]]
                /\ Return(k, {}, {}, FALSE)
           ELSE Return(k, {}, {}, TRUE) /\ UNCHANGED pods
      /\ UNCHANGED <<environmentVars, watchVars, pos, definitionVars, membershipVars, workloads, failures>>

\* unregisterPod.
UnregisterPod(u) ==
  LET k == PodJob(u)
  IN  /\ At(k, "unregister")
      /\ roots' = RootsWithoutPod(u)
      /\ podRoots' = [podRoots EXCEPT ![u] = None]
      /\ pods' = [pods EXCEPT ![u] = None]
      /\ Return(k, {}, LeftRoot(u), FALSE)
      /\ UNCHANGED <<environmentVars, watchVars, pos, definitionVars, selectedRoots, ancestorPods,
                     workloads, failures>>

\* requeueScope, all of it under one lock.
RequeueScope ==
  /\ Rescan \in dirty
  /\ Cardinality(DOMAIN job \cap PodJobs) < scenario.leafWorkers
  /\ dirty' = (dirty \ {Rescan})
       \cup (UNION {EnqueueObject(defs, x[1], x[2]) : x \in {y \in Keys : Object(y[1], y[2]) # None}})
       \cup {SelectedJob(x[1], x[2]) : x \in {y \in SelectedKeys : Tracked(y[1], y[2])}}
  /\ UNCHANGED <<environmentVars, watchVars, pos, definitionVars, membershipVars, job, storeVars>>

PodStep(u) ==
  \/ ResolvePod(u)
  \/ /\ Busy(PodJob(u))
     /\ \/ RegisterPodRoot(u) \/ ReadPodRoot(u) \/ FailPodEvaluation(u)
        \/ PublishPod(u) \/ UnregisterPod(u)
===============================================================================
