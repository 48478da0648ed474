------------------------- MODULE ControllerFreshness -------------------------
(***************************************************************************)
(* What Store holds is right, for every set of objects, kinds and          *)
(* scenarios.  A job reads its inputs earlier: the owner chain, the        *)
(* definition and the root.  The first invariant says what it read then;   *)
(* that the inputs are still current when it writes makes this true now.   *)
(* The second one says that a workload result stays right until its root   *)
(* is queued again.                                                        *)
(***************************************************************************)
EXTENDS ControllerProofs

-------------------------------------------------------------------------------
(* Discovery finds every walk that ends *)

\* Walks has a path.
LEMMA WalksExist ==
  ASSUME EnvOK, WatchOK, PosOK, NEW ref \in KeyRefs, Current(ref)
  PROVE  Walks(ref) # {}
<1> DEFINE N == Cardinality(UIDs)
<1>1. PICK round : /\ N \in Nat \ {0} /\ Walks(ref) = round[N]
                   /\ round[1] = {<<ref>>}
                   /\ \A n \in 2..N : round[n] = {Extended(p) : p \in round[n - 1]}
  BY WalkRounds
<1> DEFINE Failing == {n \in 1..N : round[n] = {}}
<1> HIDE DEF N
<1>2. SUFFICES ASSUME Failing # {} PROVE FALSE
  BY <1>1
<1>3. PICK n \in Failing : \A m \in Failing : n <= m
  <2>1. Failing \in SUBSET Nat
    BY <1>1
  <2>2. \A T \in SUBSET Nat : T # {} => \E n \in T : \A m \in T : n <= m
    BY LeastNat, Zenon
  <2> HIDE DEF Failing
  <2> QED
    BY <1>2, <2>1, <2>2
<1>4. n \in 1..N /\ round[n] = {}
  BY <1>3
<1>5. n # 1
  BY <1>1, <1>4
<1>6. n \in 2..N /\ n - 1 \in 1..N
  BY <1>1, <1>4, <1>5
<1>7. round[n - 1] = {}
  BY <1>1, <1>4, <1>6
<1>8. n - 1 \in Failing
  BY <1>6, <1>7
<1> HIDE DEF Failing
<1> QED
  BY <1>1, <1>3, <1>4, <1>6, <1>8

\* Two walks from the same object agree as far as both go.
LEMMA WalksAgree ==
  ASSUME NEW ref, NEW v, NEW w, WalkOK(ref, v), WalkOK(ref, w),
         NEW i \in 1..Len(v), i \in 1..Len(w)
  PROVE  v[i] = w[i]
<1> DEFINE Failing == {n \in 1..Len(v) : n \in 1..Len(w) /\ v[n] # w[n]}
<1>1. Len(v) \in Nat /\ Len(w) \in Nat /\ v \in Seq(KeyRefs) /\ w \in Seq(KeyRefs)
  BY DEF WalkOK
<1>2. SUFFICES ASSUME Failing # {} PROVE FALSE
  OBVIOUS
<1>3. PICK n \in Failing : \A m \in Failing : n <= m
  <2>1. Failing \in SUBSET Nat
    BY <1>1
  <2>2. \A T \in SUBSET Nat : T # {} => \E n \in T : \A m \in T : n <= m
    BY LeastNat, Zenon
  <2> HIDE DEF Failing
  <2> QED
    BY <1>2, <2>1, <2>2
<1>4. n \in 1..Len(v) /\ n \in 1..Len(w) /\ v[n] # w[n]
  BY <1>3
<1>5. n # 1
  BY <1>4 DEF WalkOK
<1>6. n \in 2..Len(v) /\ n \in 2..Len(w) /\ n - 1 \in 1..Len(v) /\ n - 1 \in 1..Len(w)
  BY <1>1, <1>4, <1>5
<1>7. v[n - 1] = w[n - 1]
  <2>1. n - 1 \notin Failing
    <3> HIDE DEF Failing
    <3> QED
      BY <1>3, <1>4, <1>6
  <2> QED
    BY <1>6, <2>1
<1>8. Linked(v[n - 1], v[n]) /\ Linked(w[n - 1], w[n]) /\ v[n] \in Refs /\ w[n] \in Refs
  BY <1>1, <1>4, <1>6 DEF WalkOK, KeyRefs
<1>9. v[n].gvk = w[n].gvk /\ v[n].uid = w[n].uid /\ v[n].rv = w[n].rv
  BY <1>7, <1>8 DEF Linked
<1>10. v[n] = w[n]
  BY <1>8, <1>9 DEF Refs
<1> QED
  BY <1>4, <1>10

\* A walk that goes further than a path that stops does not exist.
LEMMA LinkedGoesOn ==
  ASSUME NEW ref, NEW w, WalkOK(ref, w), NEW path, WalkOK(ref, path), Len(path) < Len(w)
  PROVE  ~Finished(path)
<1> DEFINE n == Len(path)
           owner == w[n + 1]
<1>1. Len(path) \in Nat /\ Len(w) \in Nat /\ n \in 1..Len(path) /\ n \in 1..Len(w)
        /\ n + 1 \in 2..Len(w) /\ n + 1 \in 1..Len(w) /\ (n + 1) - 1 = n
        /\ w \in Seq(KeyRefs) /\ path \in Seq(KeyRefs)
  BY DEF WalkOK
<1>2. Last(path) = w[n]
  BY <1>1, WalksAgree DEF Last
<1>3. Linked(Last(path), owner)
  BY <1>1, <1>2 DEF WalkOK
<1>4. owner.uid \notin Seen(path)
  <2>1. ASSUME NEW m \in DOMAIN path PROVE path[m].uid # owner.uid
    <3>1. m \in 1..Len(path) /\ m \in 1..Len(w) /\ m # n + 1
      BY <1>1, <2>1
    <3>2. path[m] = w[m]
      BY <3>1, WalksAgree
    <3> QED
      BY <1>1, <3>1, <3>2 DEF WalkOK
  <2> QED
    BY <2>1 DEF Seen
<1>5. OwnerRef(path).gvk = owner.gvk /\ OwnerRef(path).uid = owner.uid /\ OwnerRef(path).rv = 0
  BY <1>3 DEF Linked, OwnerRef, Ref
<1> HIDE DEF owner, n
<1>6. Lookup(OwnerRef(path), FALSE) = "none"
  BY <1>3, <1>5 DEF Linked, Current, Lookup
<1>7. WalkErr(path) = "none"
  BY <1>3, <1>4, <1>5, <1>6 DEF WalkErr, Linked, FailureReason
<1> QED
  BY <1>3, <1>7 DEF Finished, Linked, NamesOwner

\* Get returns every walk that ends in an object without an owner.
LEMMA WalkIsFound ==
  ASSUME EnvOK, WatchOK, PosOK, NEW ref \in KeyRefs, Current(ref),
         NEW path, WalkOK(ref, path), EndsChain(ObjectAt(Last(path)))
  PROVE  path \in Walks(ref) /\ WalkErr(path) = "none"
<1>1. PICK w \in Walks(ref) : WalkOK(ref, w) /\ Finished(w)
  BY WalksExist, WalksAreWalks
<1>2. Len(w) \in Nat /\ Len(path) \in Nat /\ w \in Seq(KeyRefs) /\ path \in Seq(KeyRefs)
  BY <1>1 DEF WalkOK
<1>3. ~(Len(w) < Len(path))
  BY <1>1, LinkedGoesOn
<1>4. Finished(path)
  BY DEF Finished
<1>5. ~(Len(path) < Len(w))
  BY <1>1, <1>4, LinkedGoesOn
<1>6. Len(w) = Len(path)
  BY <1>2, <1>3, <1>5
<1>7. \A i \in 1..Len(path) : w[i] = path[i]
  BY <1>1, <1>6, WalksAgree
<1>8. w = path
  BY <1>2, <1>6, <1>7
<1>9. WalkErr(path) = "none"
  BY DEF WalkErr, NamesOwner, EndsChain
<1> QED
  BY <1>1, <1>8, <1>9

-------------------------------------------------------------------------------
(* What a job has read *)

\* The state of the object at the version a reference names.
StateOf(ref) == Life(ref.uid[1], ref.rv)

\* An owner chain as Get read it, object by object.
ChainRead(path) ==
  /\ path \in Seq(KeyRefs) /\ Len(path) >= 1
  /\ \A i \in 1..Len(path) : path[i].rv # 0
  /\ \A i \in 2..Len(path) :
       /\ NamesOwner(StateOf(path[i - 1]))
       /\ path[i].gvk = StateOf(path[i - 1]).owner.gvk /\ path[i].uid = StateOf(path[i - 1]).owner.uid
       /\ ~Unmapped(path[i].gvk)
  /\ \A i, j \in 1..Len(path) : path[i].uid = path[j].uid => i = j
  /\ EndsChain(StateOf(Last(path)))

\* A definition of the kind, read when the definitions had this version.
DefinitionRead(def, version, kind) ==
  version <= defVersion /\ (version = defVersion => def = defs[kind])

\* What a Pod job learned from its definition, given the definition's error.
VerdictRead(local, err) ==
  /\ local.pc \in {"register", "readRoot"} => local.err = err
  /\ local.pc = "publish" => err = "none" /\ PodEvaluates(local.def)
  /\ local.pc = "failEvaluation" =>
       IF err # "none" THEN local.err = err ELSE local.err = "evaluation" /\ ~PodEvaluates(local.def)

PodRead(u, local) ==
  /\ local.pc \in {"register", "readRoot", "publish", "failEvaluation"} =>
       /\ ChainRead(local.path)
       /\ local.path[1].gvk = PodGVK /\ local.path[1].uid = u
       /\ DefinitionRead(local.def, local.version, KindOf[Last(local.path).gvk])
       /\ local.version = defVersion => VerdictRead(local, DefinitionErr(KindOf[Last(local.path).gvk]))
  /\ local.pc \in {"publish", "failEvaluation"} =>
       /\ local.ref.rv # 0 /\ local.ref.uid = Last(local.path).uid
       /\ local.ref.gvk = SelectedGVK(Last(local.path).gvk, local.def)
       /\ ObjectSelected(StateOf(local.ref)) /\ ResourceSelected(local.ref.gvk)
  /\ local.pc = "failEvaluation" => local.err # "none"

WorkloadRead(u, local) ==
  local.pc = "publish" =>
    /\ local.ref.rv # 0 /\ EndsChain(StateOf(local.ref))
    /\ DefinitionRead(local.def, local.version, KindOfObject[u[1]])

ReadInv ==
  /\ \A u \in PodUIDs : Busy(PodJob(u)) => PodRead(u, job[PodJob(u)])
  /\ \A u \in UIDs : Busy(RootJob(u)) => WorkloadRead(u, job[RootJob(u)])

\* What was read stays what was read: lives do not change, kinds stay served, and
\* new definitions take a new version.
LEMMA ReadsStay ==
  ASSUME TypeInv, [Next]_vars
  PROVE  /\ \A u, local : PodRead(u, local) /\ local.version \in Nat => PodRead(u, local)'
         /\ \A u, local : WorkloadRead(u, local) /\ local.version \in Nat => WorkloadRead(u, local)'
         /\ \A path : ChainRead(path) => ChainRead(path)'
<1>0. defVersion \in Nat /\ DefOK /\ EnvOK
  BY DEF TypeInv, DefOK
<1>1. scenario' = scenario /\ unmapped' \subseteq unmapped
        /\ \/ defs' = defs /\ defErr' = defErr /\ defVersion' = defVersion
           \/ defVersion' = defVersion + 1
  <2>1. CASE UNCHANGED <<environmentVars, definitionVars>>
    BY <2>1 DEF environmentVars, definitionVars
  <2>2. CASE RefreshDefinitions
    <3> DEFINE next == IF inventory.err # "none" THEN defs ELSE inventory.defs
               changed == {kind \in Kinds : ~SameDefinition(defs[kind], next[kind])}
    <3>1. /\ UNCHANGED environmentVars /\ defs' = next
          /\ (changed = {} /\ defErr' = defErr /\ defVersion' = defVersion) \/ defVersion' = defVersion + 1
      BY <2>2 DEF RefreshDefinitions
    <3>2. next \in [Kinds -> Definition \cup {None}] /\ defs \in [Kinds -> Definition \cup {None}]
      BY <1>0, SnapshotsAssumption DEF EnvOK, DefOK
    <3>3. changed = {} => next = defs
      <4> HIDE DEF next
      <4> QED
        BY <3>2 DEF SameDefinition
    <3> QED
      BY <3>1, <3>3 DEF environmentVars
  <2>3. CASE Watching
    <3>1. PICK g \in GVKs :
            \/ \E o \in Objects : WatchEvent(g, o)
            \/ Listing(g)
            \/ \E slot \in Slots :
                 \/ \E listing \in BOOLEAN : WatchStarts(g, slot, listing)
                 \/ \E err \in WatchErrors : WatchFails(g, slot, err)
      BY <2>3 DEF Watching
    <3> QED
      BY <3>1 DEF WatchEvent, Listing, Replace, WatchStarts, WatchFails, environmentVars, definitionVars
  <2>4. CASE External
    BY <2>4 DEF External, InventoryChanges, Install, definitionVars
  <2>5. CASE (\E g \in GVKs : SyncWatch(g)) \/ SyncReturns
    BY <2>5 DEF SyncWatch, SyncReturns, environmentVars
  <2>6. CASE RequeueScope \/ \E u \in PodUIDs : PodStep(u)
    BY <2>1, <2>6 DEF RequeueScope, PodStep, ResolvePod, RegisterPodRoot, ReadPodRoot, FailPodEvaluation,
                      PublishPod, UnregisterPod
  <2>7. CASE \E u \in UIDs : RootStep(u)
    BY <2>1, <2>7 DEF RootStep, ReadWorkload, WithdrawWorkload, RemoveWorkload, PublishWorkload
  <2>8. CASE \E x \in SelectedKeys : SelectedStep(x)
    BY <2>1, <2>8 DEF SelectedStep, ResolveSelectedObject, ReplaceSelectedObjectTracking,
                      RegisterSelectedObjectRoot, ExcludeSelectedObject, UnregisterSelectedObject
  <2> QED
    BY <2>1, <2>2, <2>3, <2>4, <2>5, <2>6, <2>7, <2>8 DEF Next, Syncing, vars
<1>2. \A ref : StateOf(ref)' = StateOf(ref)
  BY <1>1 DEF StateOf, Life, life
<1>3. \A path : ChainRead(path) => ChainRead(path)'
  <2> SUFFICES ASSUME NEW path, ChainRead(path) PROVE ChainRead(path)'
    OBVIOUS
  <2>1. \A i \in 2..Len(path) : ~(path[i].gvk \in unmapped')
    BY <1>1 DEF ChainRead, Unmapped
  <2>2. \A ref : Life(ref.uid[1], ref.rv)' = Life(ref.uid[1], ref.rv)
    BY <1>2 DEF StateOf
  <2> QED
    BY <2>1, <2>2 DEF ChainRead, Unmapped, StateOf, Last
<1>4. \A def, kind : \A version \in Nat :
        DefinitionRead(def, version, kind) => DefinitionRead(def, version, kind)'
  BY <1>0, <1>1 DEF DefinitionRead
<1>5. ASSUME NEW u, NEW local, PodRead(u, local), local.version \in Nat
      PROVE  PodRead(u, local)'
  <2> DEFINE kind == KindOf[Last(local.path).gvk]
  <2>1. ASSUME DefinitionRead(local.def, local.version, kind),
               local.version = defVersion => VerdictRead(local, DefinitionErr(kind)),
               local.version = defVersion'
        PROVE  VerdictRead(local, DefinitionErr(kind)')
    <3>1. local.version = defVersion /\ defs' = defs /\ defErr' = defErr
      BY <1>0, <1>1, <1>5, <2>1 DEF DefinitionRead
    <3> QED
      BY <2>1, <3>1 DEF DefinitionErr
  <2>2. ObjectSelected(StateOf(local.ref)) => ObjectSelected(StateOf(local.ref)')
    BY <1>2
  <2>3. ResourceSelected(local.ref.gvk) => ResourceSelected(local.ref.gvk)'
    BY <1>1 DEF ResourceSelected
  <2> HIDE DEF kind
  <2> QED
    BY <1>3, <1>4, <1>5, <2>1, <2>2, <2>3 DEF PodRead, Last, VerdictRead, ObjectSelected, kind
<1>6. ASSUME NEW u, NEW local, WorkloadRead(u, local), local.version \in Nat
      PROVE  WorkloadRead(u, local)'
  BY <1>2, <1>4, <1>6 DEF WorkloadRead
<1> QED
  BY <1>3, <1>5, <1>6

-------------------------------------------------------------------------------
(* Every step keeps the invariant *)

\* A step of key k leaves what the other handlers have learned.
JobsOnly(k) ==
  DOMAIN job' \subseteq DOMAIN job \cup {k} /\ \A x \in DOMAIN job' \ {k} : job'[x] = job[x]

\* A handler goes on with what it learned, or returns and forgets it.
LEMMA HandlerJobs ==
  /\ \A k, taken, local : Continue(k, taken, local) => JobsOnly(k) /\ k \in DOMAIN job' /\ job'[k] = local
  /\ \A k, taken, work, retry : Return(k, taken, work, retry) => JobsOnly(k) /\ k \notin DOMAIN job'
BY DEF Continue, Return, Restrict, JobsOnly

\* An object that was found has a version.
LEMMA FoundVersion ==
  ASSUME EnvOK, PosOK, WatchOK, NEW ref \in KeyRefs, NEW full \in BOOLEAN, Lookup(ref, full) = "none"
  PROVE  /\ Has(ref.gvk, ref.uid) /\ pos[<<ref.gvk, ref.uid[1]>>] \in Nat \ {0}
         /\ Object(ref.gvk, ref.uid[1]) = Life(ref.uid[1], pos[<<ref.gvk, ref.uid[1]>>])
<1>1. Has(ref.gvk, ref.uid)
  BY DEF Lookup
<1>2. ref.gvk \in GVKs /\ ref.uid[1] \in Objects /\ KindOf[ref.gvk] = KindOfObject[ref.uid[1]]
  BY DEF KeyRefs, Refs, UIDs
<1>3. pos[<<ref.gvk, ref.uid[1]>>] \in Nat
  BY <1>2, ObjectType
<1> QED
  BY <1>1, <1>3 DEF Has, Object, Life

\* A walk that ends at a root is an owner chain as read.
LEMMA WalkIsRead ==
  ASSUME EnvOK, PosOK, WatchOK, NEW ref \in KeyRefs, Current(ref), ref.rv = pos[<<ref.gvk, ref.uid[1]>>],
         NEW path, WalkOK(ref, path), EndsChain(ObjectAt(Last(path)))
  PROVE  ChainRead(path)
<1>1. path \in Seq(KeyRefs) /\ Len(path) \in Nat /\ Len(path) >= 1
  BY DEF WalkOK
<1>2. ASSUME NEW i \in 1..Len(path)
      PROVE  path[i].rv # 0 /\ StateOf(path[i]) = ObjectAt(path[i])
  <2>1. path[i] \in KeyRefs /\ Current(path[i])
    BY WalkCurrent
  <2>2. path[i].rv = pos[<<path[i].gvk, path[i].uid[1]>>]
    <3>1. CASE i = 1
      BY <3>1 DEF WalkOK
    <3>2. CASE i # 1
      <4>1. i \in 2..Len(path)
        BY <1>1, <3>2
      <4> QED
        BY <4>1 DEF WalkOK, Linked
    <3> QED
      BY <3>1, <3>2
  <2>3. /\ pos[<<path[i].gvk, path[i].uid[1]>>] \in Nat \ {0}
        /\ ObjectAt(path[i]) = Life(path[i].uid[1], pos[<<path[i].gvk, path[i].uid[1]>>])
    BY <2>1, FoundVersion DEF Current, ObjectAt
  <2> QED
    BY <2>2, <2>3 DEF StateOf
<1>3. ASSUME NEW i \in 2..Len(path)
      PROVE  /\ NamesOwner(StateOf(path[i - 1]))
             /\ path[i].gvk = StateOf(path[i - 1]).owner.gvk /\ path[i].uid = StateOf(path[i - 1]).owner.uid
             /\ ~Unmapped(path[i].gvk)
  <2>1. Linked(path[i - 1], path[i]) /\ i - 1 \in 1..Len(path)
    BY <1>1 DEF WalkOK
  <2> QED
    BY <1>2, <2>1 DEF Linked
<1>4. EndsChain(StateOf(Last(path)))
  <2>1. Len(path) \in 1..Len(path)
    BY <1>1
  <2> QED
    BY <1>2, <2>1 DEF Last
<1> QED
  BY <1>1, <1>2, <1>3, <1>4 DEF ChainRead, WalkOK

\* What the steps of a Pod job read.
LEMMA PodStepReads ==
  ASSUME TypeInv, ReadInv, NEW u \in PodUIDs, PodStep(u)
  PROVE  /\ JobsOnly(PodJob(u))
         /\ PodJob(u) \in DOMAIN job' => PodRead(u, job'[PodJob(u)])
<1> DEFINE k == PodJob(u)
           Goal == JobsOnly(k) /\ (k \in DOMAIN job' => PodRead(u, job'[k]))
<1>0. EnvOK /\ WatchOK /\ PosOK /\ DefOK /\ JobOK /\ defVersion \in Nat
  BY DEF TypeInv, DefOK
<1>1. ASSUME NEW taken, NEW local, Continue(k, taken, local), PodRead(u, local) PROVE Goal
  BY <1>1, HandlerJobs
<1>2. ASSUME NEW taken, NEW work, NEW retry, Return(k, taken, work, retry) PROVE Goal
  BY <1>2, HandlerJobs
<1>3. ASSUME NEW taken, NEW reason, NEW root, FailPod(u, taken, reason, root) PROVE Goal
  <2>1. \E retry : Return(k, taken, {}, retry)
    BY <1>3 DEF FailPod
  <2> QED
    BY <1>2, <2>1
<1>4. PodRead(u, Local("unregister"))
  BY DEF Local, PodRead
<1>5. Busy(k) => PodRead(u, job[k])
  BY DEF ReadInv
<1> SUFFICES Goal
  OBVIOUS
<1> HIDE DEF Goal
<1>6. CASE ResolvePod(u)
  <2>0. <<PodGVK, u>> \in SelectedKeys /\ <<PodGVK, u>>[1] = PodGVK /\ <<PodGVK, u>>[2] = u
          /\ u[1] \in Objects /\ u \in UIDs
    BY PodKeyType DEF UIDs
  <2> DEFINE start == CachedRef(<<PodGVK, u[1]>>)
             read(path) == [pc |-> "register", path |-> path, def |-> defs[KindOf[Last(path).gvk]], ref |-> None,
                            err |-> DefinitionErr(KindOf[Last(path).gvk]), version |-> defVersion]
  <2>1. \/ Continue(k, {k}, Local("unregister"))
        \/ \E reason, root : FailPod(u, {k}, reason, root)
        \/ /\ Lookup(Ref(PodGVK, u, 0), TRUE) = "none"
           /\ \E path \in Walks(start) : WalkErr(path) = "none" /\ Continue(k, {k}, read(path))
    BY <1>6 DEF ResolvePod
  <2>2. ASSUME Lookup(Ref(PodGVK, u, 0), TRUE) = "none", NEW path \in Walks(start), WalkErr(path) = "none"
        PROVE  PodRead(u, read(path))
    <3>1. /\ start = Ref(PodGVK, u, pos[<<PodGVK, u[1]>>]) /\ start \in KeyRefs /\ Current(start)
      BY <1>0, <2>0, <2>2, ReadIsCurrent
    <3>2. WalkOK(start, path) /\ EndsChain(ObjectAt(Last(path)))
      BY <1>0, <2>2, <3>1, WalksAreWalks
    <3>3. start.rv = pos[<<start.gvk, start.uid[1]>>] /\ start.gvk = PodGVK /\ start.uid = u
      BY <3>1 DEF Ref
    <3>4. ChainRead(path) /\ path[1] = start
      BY <1>0, <3>1, <3>2, <3>3, WalkIsRead DEF WalkOK
    <3> HIDE DEF start
    <3> QED
      BY <1>0, <3>3, <3>4 DEF PodRead, DefinitionRead, VerdictRead
  <2> HIDE DEF k, read, start
  <2> QED
    BY <1>1, <1>3, <1>4, <2>1, <2>2
<1>7. CASE RegisterPodRoot(u)
  <2>1. \/ Return(k, {}, {}, TRUE)
        \/ FailPod(u, {}, "unresolved", RootOf(k))
        \/ job' = [job EXCEPT ![k].pc = "readRoot"]
    BY <1>7 DEF RegisterPodRoot
  <2>2. CASE job' = [job EXCEPT ![k].pc = "readRoot"]
    <3>1. k \in DOMAIN job /\ job[k] \in JobRecord /\ job[k].pc = "register" /\ PodRead(u, job[k])
      BY <1>0, <1>5, <1>7 DEF RegisterPodRoot, At, Busy, JobOK, LocalOK
    <3>2. job'[k] = [job[k] EXCEPT !.pc = "readRoot"] /\ JobsOnly(k)
      BY <2>2, <3>1 DEF JobsOnly
    <3>3. /\ job'[k].pc = "readRoot" /\ job'[k].path = job[k].path /\ job'[k].def = job[k].def
          /\ job'[k].version = job[k].version /\ job'[k].err = job[k].err
      BY <3>1, <3>2 DEF JobRecord
    <3> HIDE DEF k
    <3> QED
      BY <3>1, <3>2, <3>3 DEF PodRead, VerdictRead, Goal
  <2> QED
    BY <1>2, <1>3, <2>1, <2>2
<1>8. CASE ReadPodRoot(u)
  <2> DEFINE g == SelectedGVK(RootOf(k).gvk, job[k].def)
             ref == Ref(g, RootOf(k).uid, 0)
             found == [ref EXCEPT !.rv = pos[<<g, ref.uid[1]>>]]
             read == [job[k] EXCEPT !.ref = found]
  <2>1. k \in DOMAIN job /\ job[k] \in JobRecord /\ job[k].pc = "readRoot" /\ PodRead(u, job[k])
          /\ LocalOK(k, job[k])
    BY <1>0, <1>5, <1>8 DEF ReadPodRoot, At, Busy, JobOK, LocalOK
  <2> DEFINE goes(local) == /\ local.path = job[k].path /\ local.def = job[k].def
                            /\ local.version = job[k].version /\ local.ref = found
  <2>2. \/ \E reason, root : FailPod(u, {}, reason, root)
        \/ Continue(k, {}, Local("unregister"))
        \/ /\ Lookup(ref, TRUE) = "none"
           /\ ObjectSelected(Object(g, ref.uid[1])) /\ ResourceSelected(g)
           /\ \/ job[k].err # "none" /\ Continue(k, {}, [read EXCEPT !.pc = "failEvaluation"])
              \/ /\ job[k].err = "none" /\ ~PodEvaluates(job[k].def)
                 /\ Continue(k, {}, [read EXCEPT !.pc = "failEvaluation", !.err = "evaluation"])
              \/ /\ job[k].err = "none" /\ PodEvaluates(job[k].def)
                 /\ Continue(k, {}, [read EXCEPT !.pc = "publish"])
    BY <1>8 DEF ReadPodRoot
  <2>3. /\ goes([read EXCEPT !.pc = "failEvaluation"])
        /\ [read EXCEPT !.pc = "failEvaluation"].pc = "failEvaluation"
        /\ [read EXCEPT !.pc = "failEvaluation"].err = job[k].err
        /\ goes([read EXCEPT !.pc = "failEvaluation", !.err = "evaluation"])
        /\ [read EXCEPT !.pc = "failEvaluation", !.err = "evaluation"].pc = "failEvaluation"
        /\ [read EXCEPT !.pc = "failEvaluation", !.err = "evaluation"].err = "evaluation"
        /\ goes([read EXCEPT !.pc = "publish"])
        /\ [read EXCEPT !.pc = "publish"].pc = "publish"
    <3> HIDE DEF found, k
    <3> QED
      BY <2>1 DEF JobRecord
  <2>4. ASSUME Lookup(ref, TRUE) = "none", ObjectSelected(Object(g, ref.uid[1])), ResourceSelected(g)
        PROVE  /\ found.rv # 0 /\ found.uid = Last(job[k].path).uid
               /\ found.gvk = SelectedGVK(Last(job[k].path).gvk, job[k].def)
               /\ ObjectSelected(StateOf(found)) /\ ResourceSelected(found.gvk)
    <3>1. RootOf(k) \in KeyRefs /\ RootOf(k).gvk \in GVKs
            /\ (job[k].def # None => KindOf[job[k].def.gvk] = KindOf[RootOf(k).gvk])
            /\ job[k].def \in Definition \cup {None}
      BY <2>1, WalkEnd DEF LocalOK, RootOf, JobRecord
    <3>2. g \in GVKs /\ KindOf[g] = KindOf[RootOf(k).gvk]
      BY <3>1, SelectedVersion
    <3>3. ref \in KeyRefs /\ ref.gvk = g /\ ref.uid = RootOf(k).uid
      BY <3>1, <3>2 DEF KeyRefs, Refs, Ref
    <3>4. /\ pos[<<g, ref.uid[1]>>] # 0
          /\ Object(g, ref.uid[1]) = Life(ref.uid[1], pos[<<g, ref.uid[1]>>])
      BY <1>0, <2>4, <3>3, FoundVersion
    <3>5. found.rv = pos[<<g, ref.uid[1]>>] /\ found.uid = RootOf(k).uid /\ found.gvk = g
      BY <3>3 DEF Ref
    <3>6. StateOf(found) = Object(g, ref.uid[1])
      BY <3>3, <3>4, <3>5 DEF StateOf
    <3> HIDE DEF ref, found
    <3> QED
      BY <2>4, <3>4, <3>5, <3>6 DEF RootOf
  <2>5. ASSUME NEW local, goes(local), Lookup(ref, TRUE) = "none",
               ObjectSelected(Object(g, ref.uid[1])), ResourceSelected(g),
               \/ local.pc = "failEvaluation" /\ local.err # "none"
               \/ local.pc = "publish",
               \A err : VerdictRead(job[k], err) => VerdictRead(local, err)
        PROVE  PodRead(u, local)
    <3>1. /\ local.path = job[k].path /\ local.def = job[k].def
          /\ local.version = job[k].version /\ local.ref = found
      BY <2>5
    <3>2. /\ ChainRead(local.path)
          /\ local.path[1].gvk = PodGVK /\ local.path[1].uid = u
          /\ DefinitionRead(local.def, local.version, KindOf[Last(local.path).gvk])
          /\ local.version = defVersion => VerdictRead(job[k], DefinitionErr(KindOf[Last(local.path).gvk]))
      <4> HIDE DEF k
      <4> QED
        BY <2>1, <3>1 DEF PodRead
    <3> HIDE DEF k, found, ref, g
    <3> QED
      BY <2>4, <2>5, <3>1, <3>2 DEF PodRead
  <2> DEFINE fail == [read EXCEPT !.pc = "failEvaluation"]
             reject == [read EXCEPT !.pc = "failEvaluation", !.err = "evaluation"]
             publish == [read EXCEPT !.pc = "publish"]
  <2>6. job[k].err # "none" => \A err : VerdictRead(job[k], err) => VerdictRead(fail, err)
    <3> HIDE DEF read, k
    <3> QED
      BY <2>1, <2>3 DEF VerdictRead
  <2>7. job[k].err = "none" /\ ~PodEvaluates(job[k].def) =>
          \A err : VerdictRead(job[k], err) => VerdictRead(reject, err)
    <3> HIDE DEF read, k
    <3> QED
      BY <2>1, <2>3 DEF VerdictRead
  <2>8. job[k].err = "none" /\ PodEvaluates(job[k].def) =>
          \A err : VerdictRead(job[k], err) => VerdictRead(publish, err)
    <3> HIDE DEF read, k
    <3> QED
      BY <2>1, <2>3 DEF VerdictRead
  <2>9. /\ goes(fail) /\ fail.pc = "failEvaluation" /\ fail.err = job[k].err
        /\ goes(reject) /\ reject.pc = "failEvaluation" /\ reject.err = "evaluation"
        /\ goes(publish) /\ publish.pc = "publish"
    BY <2>3
  <2> HIDE DEF k, read, ref, g, goes, fail, reject, publish
  <2>10. \/ \E reason, root : FailPod(u, {}, reason, root)
         \/ Continue(k, {}, Local("unregister"))
         \/ \E local \in {fail, reject, publish} : PodRead(u, local) /\ Continue(k, {}, local)
    BY <2>2, <2>5, <2>6, <2>7, <2>8, <2>9 DEF fail, reject, publish
  <2> QED
    BY <1>1, <1>3, <1>4, <2>10
<1>9. CASE FailPodEvaluation(u)
  BY <1>2, <1>3, <1>9 DEF FailPodEvaluation
<1>10. CASE PublishPod(u) \/ UnregisterPod(u)
  BY <1>2, <1>10 DEF PublishPod, UnregisterPod
<1> QED
  BY <1>6, <1>7, <1>8, <1>9, <1>10 DEF PodStep

\* What the steps of a workload job read.
LEMMA RootStepReads ==
  ASSUME TypeInv, ReadInv, NEW u \in UIDs, RootStep(u)
  PROVE  /\ JobsOnly(RootJob(u))
         /\ RootJob(u) \in DOMAIN job' => WorkloadRead(u, job'[RootJob(u)])
<1> DEFINE k == RootJob(u)
           kind == KindOfObject[u[1]]
           ref == Ref(SelectedGVK(roots[u].gvk, defs[kind]), u, 0)
           found == [ref EXCEPT !.rv = pos[<<ref.gvk, u[1]>>]]
           read == [pc |-> "publish", path |-> <<>>, def |-> defs[kind], ref |-> found,
                    err |-> DefinitionErr(kind), version |-> defVersion]
           Goal == JobsOnly(k) /\ (k \in DOMAIN job' => WorkloadRead(u, job'[k]))
<1>0. EnvOK /\ WatchOK /\ PosOK /\ DefOK /\ MemberOK /\ defVersion \in Nat
  BY DEF TypeInv, DefOK
<1>1. ASSUME NEW taken, NEW local, Continue(k, taken, local), WorkloadRead(u, local) PROVE Goal
  BY <1>1, HandlerJobs
<1>2. ASSUME NEW taken, NEW work, NEW retry, Return(k, taken, work, retry) PROVE Goal
  BY <1>2, HandlerJobs
<1>3. ASSUME NEW named, NEW reason, FailWorkload(u, named, reason) PROVE Goal
  BY <1>2, <1>3 DEF FailWorkload
<1>4. WorkloadRead(u, Local("withdraw")) /\ WorkloadRead(u, Local("remove"))
  BY DEF Local, WorkloadRead
<1> SUFFICES Goal
  OBVIOUS
<1> HIDE DEF Goal
<1>5. CASE ReadWorkload(u)
  <2>1. \/ Return(k, {k}, {}, FALSE)
        \/ \E named, reason : FailWorkload(u, named, reason)
        \/ Continue(k, {k}, Local("withdraw"))
        \/ Continue(k, {k}, Local("remove"))
        \/ /\ roots[u] # None /\ Lookup(ref, TRUE) = "none" /\ EndsChain(Object(ref.gvk, u[1]))
           /\ Continue(k, {k}, read)
    BY <1>5 DEF ReadWorkload
  <2>2. ASSUME roots[u] # None, Lookup(ref, TRUE) = "none", EndsChain(Object(ref.gvk, u[1]))
        PROVE  WorkloadRead(u, read)
    <3>1. kind \in Kinds /\ defs[kind] \in Definition \cup {None} /\ roots[u].gvk \in GVKs
            /\ KindOf[roots[u].gvk] = kind /\ (defs[kind] # None => KindOf[defs[kind].gvk] = kind)
      BY <1>0, <2>2, ControllerAssumption DEF MemberOK, DefOK, Root, UIDs
    <3>2. ref.gvk \in GVKs /\ KindOf[ref.gvk] = kind /\ ref.uid = u
      BY <3>1, SelectedVersion DEF Ref
    <3>3. ref \in KeyRefs
      BY <3>1, <3>2 DEF KeyRefs, Refs, Ref
    <3>4. /\ pos[<<ref.gvk, u[1]>>] \in Nat \ {0}
          /\ Object(ref.gvk, u[1]) = Life(u[1], pos[<<ref.gvk, u[1]>>])
      BY <1>0, <2>2, <3>2, <3>3, FoundVersion
    <3>5. found.rv = pos[<<ref.gvk, u[1]>>] /\ found.uid = u
      BY DEF Ref
    <3>6. read.ref = found /\ read.def = defs[kind] /\ read.version = defVersion
      OBVIOUS
    <3> HIDE DEF read, found, ref
    <3> QED
      BY <1>0, <2>2, <3>4, <3>5, <3>6 DEF WorkloadRead, DefinitionRead, StateOf
  <2> HIDE DEF k, read, ref
  <2> QED
    BY <1>1, <1>2, <1>3, <1>4, <2>1, <2>2
<1>6. CASE WithdrawWorkload(u) \/ RemoveWorkload(u) \/ PublishWorkload(u)
  BY <1>2, <1>6 DEF WithdrawWorkload, RemoveWorkload, PublishWorkload
<1> QED
  BY <1>5, <1>6 DEF RootStep

\* The keys of Pods, of roots and of selected objects differ.
LEMMA KeysDiffer ==
  /\ \A u, v : PodJob(u) = PodJob(v) => u = v
  /\ \A u, v : RootJob(u) = RootJob(v) => u = v
  /\ \A u, v : PodJob(u) # RootJob(v)
  /\ \A u, x : PodJob(u) # JobOf(x) /\ RootJob(u) # JobOf(x)
BY DEF PodJob, RootJob, JobOf, SelectedJob

\* Every step keeps what the jobs have read.
LEMMA NextReads ==
  ASSUME TypeInv, ReadInv, [Next]_vars
  PROVE  ReadInv'
<1>0. JobOK'
  BY NextType DEF TypeInv
<1>1. \A k \in DOMAIN job' : job'[k].version \in Nat
  BY <1>0 DEF JobOK, LocalOK, JobRecord
<1>2. SUFFICES /\ \A u \in PodUIDs : PodJob(u) \in DOMAIN job' => PodRead(u, job'[PodJob(u)])
               /\ \A u \in UIDs : RootJob(u) \in DOMAIN job' => WorkloadRead(u, job'[RootJob(u)])
  <2>1. ASSUME NEW u \in PodUIDs, PodJob(u) \in DOMAIN job' PROVE PodRead(u, job[PodJob(u)])'
    <3> DEFINE local == job'[PodJob(u)]
    <3>1. PodRead(u, local) /\ local.version \in Nat
      BY <1>1, <1>2, <2>1
    <3>2. PodRead(u, local) /\ local.version \in Nat => PodRead(u, job[PodJob(u)])'
      BY ReadsStay, Zenon DEF PodJob
    <3> QED
      BY <3>1, <3>2
  <2>2. ASSUME NEW u \in UIDs, RootJob(u) \in DOMAIN job' PROVE WorkloadRead(u, job[RootJob(u)])'
    <3> DEFINE local == job'[RootJob(u)]
    <3>1. WorkloadRead(u, local) /\ local.version \in Nat
      BY <1>1, <1>2, <2>2
    <3>2. WorkloadRead(u, local) /\ local.version \in Nat => WorkloadRead(u, job[RootJob(u)])'
      BY ReadsStay, Zenon DEF RootJob
    <3> QED
      BY <3>1, <3>2
  <2> QED
    BY <2>1, <2>2 DEF ReadInv, Busy
<1>3. CASE UNCHANGED job
  BY <1>3 DEF ReadInv, Busy
<1>4. ASSUME NEW u \in PodUIDs, PodStep(u)
      PROVE  /\ \A v \in PodUIDs : PodJob(v) \in DOMAIN job' => PodRead(v, job'[PodJob(v)])
             /\ \A v \in UIDs : RootJob(v) \in DOMAIN job' => WorkloadRead(v, job'[RootJob(v)])
  <2>1. JobsOnly(PodJob(u)) /\ (PodJob(u) \in DOMAIN job' => PodRead(u, job'[PodJob(u)]))
    BY <1>4, PodStepReads
  <2>2. ASSUME NEW v \in PodUIDs, PodJob(v) \in DOMAIN job' PROVE PodRead(v, job'[PodJob(v)])
    <3>1. CASE v = u
      BY <2>1, <2>2, <3>1
    <3>2. CASE v # u
      BY <2>1, <2>2, <3>2, KeysDiffer DEF JobsOnly, ReadInv, Busy
    <3> QED
      BY <3>1, <3>2
  <2>3. ASSUME NEW v \in UIDs, RootJob(v) \in DOMAIN job' PROVE WorkloadRead(v, job'[RootJob(v)])
    BY <2>1, <2>3, KeysDiffer DEF JobsOnly, ReadInv, Busy
  <2> QED
    BY <2>2, <2>3
<1>5. ASSUME NEW u \in UIDs, RootStep(u)
      PROVE  /\ \A v \in PodUIDs : PodJob(v) \in DOMAIN job' => PodRead(v, job'[PodJob(v)])
             /\ \A v \in UIDs : RootJob(v) \in DOMAIN job' => WorkloadRead(v, job'[RootJob(v)])
  <2>1. JobsOnly(RootJob(u)) /\ (RootJob(u) \in DOMAIN job' => WorkloadRead(u, job'[RootJob(u)]))
    BY <1>5, RootStepReads
  <2>2. ASSUME NEW v \in UIDs, RootJob(v) \in DOMAIN job' PROVE WorkloadRead(v, job'[RootJob(v)])
    <3>1. CASE v = u
      BY <2>1, <2>2, <3>1
    <3>2. CASE v # u
      BY <2>1, <2>2, <3>2, KeysDiffer DEF JobsOnly, ReadInv, Busy
    <3> QED
      BY <3>1, <3>2
  <2>3. ASSUME NEW v \in PodUIDs, PodJob(v) \in DOMAIN job' PROVE PodRead(v, job'[PodJob(v)])
    BY <2>1, <2>3, KeysDiffer DEF JobsOnly, ReadInv, Busy
  <2> QED
    BY <2>2, <2>3
<1>6. ASSUME NEW x \in SelectedKeys, SelectedStep(x)
      PROVE  /\ \A v \in PodUIDs : PodJob(v) \in DOMAIN job' => PodRead(v, job'[PodJob(v)])
             /\ \A v \in UIDs : RootJob(v) \in DOMAIN job' => WorkloadRead(v, job'[RootJob(v)])
  <2>1. \/ \E taken, work, retry : Return(JobOf(x), taken, work, retry)
        \/ \E taken, local : Continue(JobOf(x), taken, local)
    BY <1>6 DEF SelectedStep, ResolveSelectedObject, FailSelected, ReplaceSelectedObjectTracking,
                RegisterSelectedObjectRoot, ExcludeSelectedObject, UnregisterSelectedObject
  <2>2. JobsOnly(JobOf(x))
    BY <2>1, HandlerJobs
  <2> QED
    BY <2>2, KeysDiffer DEF JobsOnly, ReadInv, Busy
<1>7. CASE Watching
  <2>1. PICK g \in GVKs :
          \/ \E o \in Objects : WatchEvent(g, o)
          \/ Listing(g)
          \/ \E slot \in Slots :
               \/ \E listing \in BOOLEAN : WatchStarts(g, slot, listing)
               \/ \E err \in WatchErrors : WatchFails(g, slot, err)
    BY <1>7 DEF Watching
  <2>2. UNCHANGED job
    BY <2>1 DEF WatchEvent, Listing, Replace, WatchStarts, WatchFails
  <2> QED
    BY <1>3, <2>2
<1>8. CASE Syncing \/ External \/ RequeueScope \/ UNCHANGED vars
  <2>1. UNCHANGED job
    BY <1>8 DEF Syncing, External, RefreshDefinitions, SyncWatch, SyncReturns, InventoryChanges, Install,
                RequeueScope, vars
  <2> QED
    BY <1>3, <2>1
<1> QED
  BY <1>4, <1>5, <1>6, <1>7, <1>8 DEF Next

-------------------------------------------------------------------------------
(* What was read is still true when it is written *)

\* A reference to a version that is current is the current reference.
LEMMA CurrentVersion ==
  ASSUME EnvOK, PosOK, WatchOK, NEW ref \in KeyRefs, Current(ref), ref.rv # 0
  PROVE  ref = CurrentRef(ref.gvk, ref.uid) /\ StateOf(ref) = ObjectAt(ref)
<1>1. ref.rv = pos[<<ref.gvk, ref.uid[1]>>]
  BY CurrentObject
<1>2. ref = Ref(ref.gvk, ref.uid, ref.rv)
  BY DEF KeyRefs, Refs, Ref
<1>3. ObjectAt(ref) = Life(ref.uid[1], pos[<<ref.gvk, ref.uid[1]>>])
  BY DEF ObjectAt, Object
<1> QED
  BY <1>1, <1>2, <1>3 DEF CurrentRef, StateOf

\* An owner chain that was read and is current is what Get returns now.
LEMMA ChainIsCurrent ==
  ASSUME EnvOK, PosOK, WatchOK, NEW path, ChainRead(path), PathCurrent(path)
  PROVE  /\ path[1] = CachedRef(<<path[1].gvk, path[1].uid[1]>>)
         /\ Last(path) \in RootsFrom(path[1])
<1>1. path \in Seq(KeyRefs) /\ Len(path) \in Nat /\ Len(path) >= 1
  BY DEF ChainRead
<1>2. ASSUME NEW i \in 1..Len(path)
      PROVE  /\ path[i] \in KeyRefs /\ Current(path[i])
             /\ path[i] = CurrentRef(path[i].gvk, path[i].uid) /\ StateOf(path[i]) = ObjectAt(path[i])
  <2>1. path[i] \in KeyRefs /\ path[i] \in Range(path) /\ path[i].rv # 0
    BY <1>1 DEF Range, ChainRead
  <2>2. Current(path[i])
    BY <2>1 DEF PathCurrent
  <2> QED
    BY <2>1, <2>2, CurrentVersion
<1>3. 1 \in 1..Len(path) /\ Len(path) \in 1..Len(path)
  BY <1>1
<1>4. ASSUME NEW i \in 2..Len(path) PROVE Linked(path[i - 1], path[i])
  <2>1. i - 1 \in 1..Len(path) /\ i \in 1..Len(path)
    BY <1>1
  <2>2. path[i].rv = pos[<<path[i].gvk, path[i].uid[1]>>]
    <3>1. path[i] = [gvk |-> path[i].gvk, uid |-> path[i].uid, rv |-> pos[<<path[i].gvk, path[i].uid[1]>>]]
      BY <1>2, <2>1 DEF CurrentRef, Ref
    <3> QED
      BY <3>1
  <2> QED
    BY <1>2, <2>1, <2>2 DEF ChainRead, Linked
<1>5. WalkOK(path[1], path)
  BY <1>1, <1>4 DEF WalkOK, ChainRead
<1>6. EndsChain(ObjectAt(Last(path)))
  BY <1>2, <1>3 DEF ChainRead, Last
<1>7. path \in Walks(path[1]) /\ WalkErr(path) = "none" /\ Current(path[1])
  BY <1>2, <1>3, <1>5, <1>6, WalkIsFound
<1>8. path[1].uid = <<path[1].uid[1], ObjectAt(path[1]).inc>>
  BY <1>2, <1>3, CurrentObject
<1>9. path[1] = CachedRef(<<path[1].gvk, path[1].uid[1]>>)
  BY <1>2, <1>3, <1>8 DEF CachedRef, CurrentRef, ObjectAt
<1> QED
  BY <1>7, <1>9 DEF RootsFrom

\* A reason to fail is an error.
LEMMA ReasonIsError ==
  ASSUME EnvOK, WatchOK, NEW ref, ref.gvk \in GVKs, NEW full \in BOOLEAN, Lookup(ref, full) # "none"
  PROVE  FailureReason(Lookup(ref, full)) # "none"
BY ReasonType, ControllerAssumption DEF FailureReason

\* failPod writes an error for the Pod and nothing else.
LEMMA FailPodWrites ==
  ASSUME StoreOK, NEW u \in PodUIDs, NEW taken, NEW reason \in Errors \ {"none"},
         NEW root \in Refs \cup {None}, FailPod(u, taken, reason, root), NEW v \in PodUIDs
  PROVE  pods'[v] = pods[v] \/ pods'[v].error # "none"
<1>1. FailedPod(u, reason, root).error = reason
  <2>1. pods[u] # None => [pods[u] EXCEPT !.error = reason].error = reason
    BY DEF StoreOK, PodResult
  <2> QED
    BY <2>1 DEF FailedPod
<1> QED
  BY <1>1 DEF FailPod, StoreOK

\* The Pod result without error that a step of a Pod job writes is right.
LEMMA PodStepFresh ==
  ASSUME TypeInv, ReadInv, NEW u \in PodUIDs, PodStep(u), NEW v \in PodUIDs,
         pods'[v] # pods[v], pods'[v] # None, pods'[v].error = "none"
  PROVE  /\ pods'[v].ref = CurrentRef(pods'[v].ref.gvk, pods'[v].ref.uid)
         /\ pods'[v].karta = Origin(defs[KindOf[pods'[v].ref.gvk]])
         /\ \E root \in RootsFrom(CachedRef(<<PodGVK, v[1]>>)) : root.uid = pods'[v].ref.uid
<1> DEFINE k == PodJob(u)
<1>0. EnvOK /\ WatchOK /\ PosOK /\ DefOK /\ JobOK /\ StoreOK
  BY DEF TypeInv
<1>1. ~ \E taken : \E reason \in Errors \ {"none"} : \E root \in Refs \cup {None} : FailPod(u, taken, reason, root)
  BY <1>0, FailPodWrites
<1>2. CASE ResolvePod(u)
  <2>1. PodGVK \in GVKs /\ Ref(PodGVK, u, 0).gvk = PodGVK /\ <<PodGVK, u>> \in SelectedKeys
    BY PodKeyType DEF Ref
  <2> DEFINE err == Lookup(Ref(PodGVK, u, 0), TRUE)
             start == CachedRef(<<PodGVK, u[1]>>)
  <2>2. err # "none" => FailureReason(err) \in Errors \ {"none"}
    BY <1>0, <2>1, ReasonType, ReasonIsError
  <2>3. ASSUME err = "none", NEW path \in Walks(start)
        PROVE  /\ WalkErr(path) \in Errors
               /\ \A g \in GVKs : [Last(path) EXCEPT !.gvk = g] \in Refs
               /\ Last(path).gvk \in GVKs /\ SelectedGVK(Last(path).gvk, defs[KindOf[Last(path).gvk]]) \in GVKs
    <3>1. start \in KeyRefs /\ Current(start)
      BY <1>0, <2>1, <2>3, ReadIsCurrent
    <3>2. WalkOK(start, path)
      BY <1>0, <2>3, <3>1, WalksAreWalks
    <3>3. WalkErr(path) \in Errors
      BY <1>0, <3>1, <3>2, WalkErrType
    <3>4. path \in Seq(KeyRefs) /\ path # <<>>
      BY <3>2 DEF WalkOK
    <3>5. Last(path) \in Refs /\ Last(path).gvk \in GVKs /\ KindOf[Last(path).gvk] \in Kinds
      BY <3>4, WalkEnd
    <3>6. SelectedGVK(Last(path).gvk, defs[KindOf[Last(path).gvk]]) \in GVKs
      BY <1>0, <3>5, SelectedVersion DEF DefOK
    <3> QED
      BY <3>3, <3>5, <3>6 DEF Refs
  <2>4. "unavailable" \in Errors \ {"none"}
    BY DEF Errors
  <2>5. \/ UNCHANGED pods
        \/ err # "none" /\ FailPod(u, {k}, FailureReason(err), None)
        \/ err = "none" /\ \E path \in Walks(start) :
             \/ WalkErr(path) # "none" /\ FailPod(u, {k}, WalkErr(path), None)
             \/ FailPod(u, {k}, "unavailable",
                        [Last(path) EXCEPT !.gvk = SelectedGVK(Last(path).gvk, defs[KindOf[Last(path).gvk]])])
    BY <1>2 DEF ResolvePod
  <2> HIDE DEF err, start, k
  <2>6. CASE UNCHANGED pods
    BY <2>6
  <2>7. CASE err # "none" /\ FailPod(u, {k}, FailureReason(err), None)
    BY <1>1, <2>2, <2>7
  <2>8. ASSUME err = "none", NEW path \in Walks(start), WalkErr(path) # "none",
               FailPod(u, {k}, WalkErr(path), None)
        PROVE  FALSE
    BY <1>1, <2>3, <2>8
  <2>9. ASSUME err = "none", NEW path \in Walks(start),
               FailPod(u, {k}, "unavailable",
                       [Last(path) EXCEPT !.gvk = SelectedGVK(Last(path).gvk, defs[KindOf[Last(path).gvk]])])
        PROVE  FALSE
    BY <1>1, <2>3, <2>4, <2>9
  <2> QED
    BY <2>5, <2>6, <2>7, <2>8, <2>9
<1>3. CASE RegisterPodRoot(u)
  <2>1. RootOf(k) \in Refs
    <3>1. job[k].path \in Seq(KeyRefs) /\ job[k].path # <<>>
      BY <1>0, <1>3 DEF RegisterPodRoot, At, Busy, JobOK, LocalOK
    <3> QED
      BY <3>1, WalkEnd DEF RootOf
  <2>2. "unresolved" \in Errors \ {"none"}
    BY DEF Errors
  <2>3. UNCHANGED pods \/ FailPod(u, {}, "unresolved", RootOf(k))
    BY <1>3 DEF RegisterPodRoot
  <2> HIDE DEF k
  <2> QED
    BY <1>1, <2>1, <2>2, <2>3
<1>4. CASE ReadPodRoot(u)
  <2> DEFINE g == SelectedGVK(RootOf(k).gvk, job[k].def)
             ref == Ref(g, RootOf(k).uid, 0)
             err == Lookup(ref, TRUE)
  <2>1. k \in DOMAIN job /\ LocalOK(k, job[k]) /\ job[k].pc = "readRoot"
    BY <1>0, <1>4 DEF ReadPodRoot, At, Busy, JobOK
  <2>2. RootOf(k) \in Refs /\ RootOf(k).gvk \in GVKs
          /\ (job[k].def # None => KindOf[job[k].def.gvk] = KindOf[RootOf(k).gvk])
          /\ job[k].def \in Definition \cup {None}
    BY <2>1, WalkEnd DEF LocalOK, RootOf, JobRecord
  <2>3. g \in GVKs
    BY <2>2, SelectedVersion
  <2>4. ref.gvk \in GVKs
    BY <2>3 DEF Ref
  <2>5. err # "none" => FailureReason(err) \in Errors \ {"none"}
    BY <1>0, <2>4, ReasonType, ReasonIsError
  <2>6. "unavailable" \in Errors \ {"none"}
    BY DEF Errors
  <2>7. \/ UNCHANGED pods
        \/ FailPod(u, {}, "unavailable", RootOf(k))
        \/ err # "none" /\ FailPod(u, {}, FailureReason(err), RootOf(k))
    BY <1>4 DEF ReadPodRoot
  <2> HIDE DEF k, err
  <2> QED
    BY <1>1, <2>2, <2>5, <2>6, <2>7
<1>5. CASE FailPodEvaluation(u)
  <2>1. k \in DOMAIN job /\ LocalOK(k, job[k]) /\ job[k].pc = "failEvaluation" /\ PodRead(u, job[k])
    BY <1>0, <1>5 DEF FailPodEvaluation, At, Busy, JobOK, ReadInv
  <2>2. job[k].err \in Errors \ {"none"} /\ job[k].ref \in Refs
    BY <2>1 DEF LocalOK, JobRecord, PodRead, KeyRefs
  <2>3. UNCHANGED pods \/ FailPod(u, {}, job[k].err, job[k].ref)
    BY <1>5 DEF FailPodEvaluation
  <2> HIDE DEF k
  <2> QED
    BY <1>1, <2>2, <2>3
<1>6. CASE UnregisterPod(u)
  BY <1>0, <1>6 DEF UnregisterPod, StoreOK
<1>7. CASE PublishPod(u)
  <2> DEFINE ref == job[k].ref
             path == job[k].path
             karta == IF job[k].def = None THEN None ELSE job[k].def.origin
             fresh == [hasValue |-> TRUE, ref |-> ref, karta |-> karta, error |-> "none"]
  <2>1. k \in DOMAIN job /\ LocalOK(k, job[k]) /\ job[k].pc = "publish" /\ PodRead(u, job[k])
    BY <1>0, <1>7 DEF PublishPod, At, Busy, JobOK, ReadInv
  <2>2. ref \in KeyRefs /\ fresh \in PodResult
    <3>1. ref \in KeyRefs /\ ref \in Refs
      BY <2>1 DEF LocalOK, KeyRefs
    <3>2. karta \in STRING \cup {None}
      BY <2>1 DEF LocalOK, JobRecord, Definition
    <3> HIDE DEF ref, karta
    <3> QED
      BY <3>1, <3>2 DEF PodResult, Errors
  <2>3. \/ UNCHANGED pods
        \/ /\ PathCurrent(path) /\ DefinitionCurrent(job[k].version) /\ Current(ref)
           /\ \/ pods' = [pods EXCEPT ![u] = fresh]
              \/ \E kept : /\ kept = fresh \/ (kept = pods[u] /\ pods[u] # None)
                           /\ pods' = [pods EXCEPT ![u] = [kept EXCEPT !.error = "evaluation"]]
    BY <1>7 DEF PublishPod
  <2>4. ASSUME NEW kept, kept = fresh \/ (kept = pods[u] /\ pods[u] # None)
        PROVE  [kept EXCEPT !.error = "evaluation"].error = "evaluation"
    <3>1. kept \in PodResult
      BY <1>0, <2>2, <2>4 DEF StoreOK
    <3> QED
      BY <3>1 DEF PodResult
  <2>5. /\ v = u /\ pods'[u] = fresh
        /\ PathCurrent(path) /\ DefinitionCurrent(job[k].version) /\ Current(ref)
    <3> HIDE DEF fresh, path, ref, k
    <3> QED
      BY <1>0, <2>3, <2>4 DEF StoreOK
  <2>6. /\ ChainRead(path) /\ path[1].gvk = PodGVK /\ path[1].uid = u
        /\ job[k].def = defs[KindOf[Last(path).gvk]] /\ ref.rv # 0 /\ ref.uid = Last(path).uid
    BY <2>1, <2>5 DEF PodRead, DefinitionRead, DefinitionCurrent
  <2>7. ref = CurrentRef(ref.gvk, ref.uid)
    BY <1>0, <2>2, <2>5, <2>6, CurrentVersion
  <2>8. KindOf[ref.gvk] = KindOf[Last(path).gvk]
    <3>1. path \in Seq(KeyRefs) /\ path # <<>>
      BY <2>6 DEF ChainRead
    <3> QED
      BY <2>2, <2>6, <3>1, WalkEnd DEF KeyRefs
  <2>9. Last(path) \in RootsFrom(CachedRef(<<PodGVK, u[1]>>))
    <3>1. path[1] = CachedRef(<<PodGVK, u[1]>>) /\ Last(path) \in RootsFrom(path[1])
      BY <1>0, <2>5, <2>6, ChainIsCurrent
    <3> QED
      BY <3>1
  <2>10. karta = Origin(defs[KindOf[ref.gvk]])
    BY <2>6, <2>8 DEF Origin
  <2>11. pods'[v].ref = ref /\ pods'[v].karta = karta
    BY <2>5
  <2> HIDE DEF ref, karta, path, fresh, k
  <2>12. Last(path).uid = pods'[v].ref.uid
    BY <2>6, <2>11
  <2>13. \E root \in RootsFrom(CachedRef(<<PodGVK, v[1]>>)) : root.uid = pods'[v].ref.uid
    BY <2>5, <2>9, <2>12
  <2> QED
    BY <2>7, <2>10, <2>11, <2>13
<1> QED
  BY <1>2, <1>3, <1>4, <1>5, <1>6, <1>7 DEF PodStep

\* The workload result without error that a step of a workload job writes is right.
LEMMA RootStepFresh ==
  ASSUME TypeInv, ReadInv, NEW u \in UIDs, RootStep(u), NEW v \in UIDs,
         workloads'[v] # workloads[v], workloads'[v] # None,
         workloads'[v].error = "none", workloads'[v].statusError = "none"
  PROVE  /\ workloads'[v].ref = CurrentRef(workloads'[v].ref.gvk, v)
         /\ EndsChain(Object(workloads'[v].ref.gvk, v[1]))
         /\ workloads'[v].karta = Origin(defs[KindOf[workloads'[v].ref.gvk]])
<1> DEFINE k == RootJob(u)
<1>0. EnvOK /\ WatchOK /\ PosOK /\ DefOK /\ JobOK /\ StoreOK /\ MemberOK
  BY DEF TypeInv
<1>1. ~ \E ref, reason : reason # "none" /\ FailWorkload(u, ref, reason)
  <2> SUFFICES ASSUME NEW ref, NEW reason, reason # "none", FailWorkload(u, ref, reason) PROVE FALSE
    OBVIOUS
  <2> DEFINE result == IF workloads[u] = None
                         THEN [hasValue |-> FALSE, ref |-> ref, karta |-> None, error |-> reason,
                               statusError |-> "none"]
                         ELSE [workloads[u] EXCEPT !.error = reason]
  <2>1. workloads[u] # None => [workloads[u] EXCEPT !.error = reason].error = reason
    BY <1>0 DEF StoreOK, WorkloadResult
  <2>2. result.error = reason
    BY <2>1
  <2>3. workloads' = [workloads EXCEPT ![u] = result]
    BY DEF FailWorkload
  <2> HIDE DEF result
  <2> QED
    BY <1>0, <2>2, <2>3 DEF StoreOK
<1>2. CASE ReadWorkload(u)
  <2> DEFINE kind == KindOfObject[u[1]]
             ref == Ref(SelectedGVK(roots[u].gvk, defs[kind]), u, 0)
             err == Lookup(ref, TRUE)
  <2>1. \/ UNCHANGED workloads
        \/ /\ roots[u] # None
           /\ \/ \E named : FailWorkload(u, named, "unavailable")
              \/ err # "none" /\ \E named : FailWorkload(u, named, FailureReason(err))
              \/ \E named : FailWorkload(u, named, "unresolved")
    BY <1>2 DEF ReadWorkload
  <2>2. ASSUME roots[u] # None, err # "none" PROVE FailureReason(err) # "none"
    <3>1. kind \in Kinds /\ defs[kind] \in Definition \cup {None} /\ roots[u].gvk \in GVKs
            /\ KindOf[roots[u].gvk] = kind /\ (defs[kind] # None => KindOf[defs[kind].gvk] = kind)
      BY <1>0, <2>2, ControllerAssumption DEF MemberOK, DefOK, Root, UIDs
    <3>2. ref.gvk \in GVKs
      BY <3>1, SelectedVersion DEF Ref
    <3> QED
      BY <1>0, <2>2, <3>2, ReasonIsError
  <2> HIDE DEF err
  <2> QED
    BY <1>1, <2>1, <2>2
<1>3. CASE WithdrawWorkload(u) \/ RemoveWorkload(u)
  BY <1>0, <1>3 DEF WithdrawWorkload, RemoveWorkload, RemovedWorkload, StoreOK
<1>4. CASE PublishWorkload(u)
  <2> DEFINE ref == job[k].ref
             karta == IF job[k].def = None \/ job[k].err # "none" THEN None ELSE job[k].def.origin
             fresh == [hasValue |-> TRUE, ref |-> ref, error |-> "none", statusError |-> StatusErr(u),
                       karta |-> karta]
  <2>1. k \in DOMAIN job /\ LocalOK(k, job[k]) /\ job[k].pc = "publish" /\ WorkloadRead(u, job[k])
    BY <1>0, <1>4 DEF PublishWorkload, At, Busy, JobOK, ReadInv
  <2>2. ref \in KeyRefs /\ ref.uid = u
    BY <2>1 DEF LocalOK, RootJob
  <2>3. \/ UNCHANGED workloads
        \/ /\ Current(ref) /\ DefinitionCurrent(job[k].version)
           /\ \/ workloads' = [workloads EXCEPT ![u] = fresh]
              \/ /\ StatusErr(u) # "none"
                 /\ \E oldRef, oldKarta :
                      workloads' = [workloads EXCEPT ![u] = [fresh EXCEPT !.ref = oldRef, !.karta = oldKarta]]
    BY <1>4 DEF PublishWorkload
  <2>4. \A oldRef, oldKarta : [fresh EXCEPT !.ref = oldRef, !.karta = oldKarta].statusError = StatusErr(u)
    OBVIOUS
  <2>5. v = u /\ workloads'[u] = fresh /\ Current(ref) /\ DefinitionCurrent(job[k].version)
    <3> HIDE DEF fresh, ref, k
    <3>1. ASSUME NEW kept, workloads' = [workloads EXCEPT ![u] = kept] PROVE v = u /\ workloads'[u] = kept
      BY <1>0, <3>1 DEF StoreOK
    <3>2. ASSUME NEW oldRef, NEW oldKarta, StatusErr(u) # "none",
                 workloads' = [workloads EXCEPT ![u] = [fresh EXCEPT !.ref = oldRef, !.karta = oldKarta]]
          PROVE  FALSE
      <4>1. v = u /\ workloads'[u] = [fresh EXCEPT !.ref = oldRef, !.karta = oldKarta]
        BY <3>1, <3>2, Zenon
      <4> QED
        BY <2>4, <3>2, <4>1
    <3> QED
      BY <2>3, <3>1, <3>2
  <2>6. StatusErr(u) = "none"
    BY <2>5
  <2>7. job[k].err = "none"
    BY <2>6 DEF StatusErr
  <2>8. ref.rv # 0 /\ EndsChain(StateOf(ref)) /\ job[k].def = defs[KindOfObject[u[1]]]
    BY <2>1, <2>5 DEF WorkloadRead, DefinitionRead, DefinitionCurrent
  <2>9. ref = CurrentRef(ref.gvk, u) /\ EndsChain(Object(ref.gvk, u[1]))
    BY <1>0, <2>2, <2>5, <2>8, CurrentVersion DEF ObjectAt
  <2>10. KindOf[ref.gvk] = KindOfObject[u[1]]
    BY <2>2 DEF KeyRefs
  <2>11. karta = Origin(defs[KindOf[ref.gvk]])
    BY <2>7, <2>8, <2>10 DEF Origin
  <2>12. workloads'[v].ref = ref /\ workloads'[v].karta = karta
    BY <2>5
  <2> HIDE DEF ref, karta, fresh, k
  <2> QED
    BY <2>5, <2>9, <2>11, <2>12
<1> QED
  BY <1>2, <1>3, <1>4 DEF RootStep

\* Every step writes only fresh results.
LEMMA NextFresh ==
  ASSUME TypeInv, ReadInv, [Next]_vars
  PROVE  [PublishesFresh]_vars
<1>1. CASE UNCHANGED <<pods, workloads>>
  BY <1>1 DEF PublishesFresh
<1>2. ASSUME NEW u \in PodUIDs, PodStep(u) PROVE PublishesFresh
  <2>1. UNCHANGED workloads
    BY <1>2 DEF PodStep, ResolvePod, RegisterPodRoot, ReadPodRoot, FailPodEvaluation, PublishPod,
                UnregisterPod
  <2> QED
    BY <1>2, <2>1, PodStepFresh DEF PublishesFresh
<1>3. ASSUME NEW u \in UIDs, RootStep(u) PROVE PublishesFresh
  <2>1. UNCHANGED pods
    BY <1>3 DEF RootStep, ReadWorkload, WithdrawWorkload, RemoveWorkload, PublishWorkload
  <2> QED
    BY <1>3, <2>1, RootStepFresh DEF PublishesFresh
<1>4. CASE \E x \in SelectedKeys : SelectedStep(x)
  <2>1. UNCHANGED <<pods, workloads>>
    BY <1>4 DEF SelectedStep, ResolveSelectedObject, ReplaceSelectedObjectTracking,
                RegisterSelectedObjectRoot, ExcludeSelectedObject, UnregisterSelectedObject
  <2> QED
    BY <1>1, <2>1
<1>5. CASE Watching
  <2>1. PICK g \in GVKs :
          \/ \E o \in Objects : WatchEvent(g, o)
          \/ Listing(g)
          \/ \E slot \in Slots :
               \/ \E listing \in BOOLEAN : WatchStarts(g, slot, listing)
               \/ \E err \in WatchErrors : WatchFails(g, slot, err)
    BY <1>5 DEF Watching
  <2>2. UNCHANGED <<pods, workloads>>
    BY <2>1 DEF WatchEvent, Listing, Replace, WatchStarts, WatchFails, storeVars
  <2> QED
    BY <1>1, <2>2
<1>6. CASE Syncing \/ External \/ RequeueScope
  <2>1. UNCHANGED <<pods, workloads>>
    BY <1>6 DEF Syncing, External, RefreshDefinitions, SyncWatch, SyncReturns, InventoryChanges, Install,
                RequeueScope, storeVars
  <2> QED
    BY <1>1, <2>1
<1> QED
  BY <1>2, <1>3, <1>4, <1>5, <1>6 DEF Next

\* A Pod or workload result without error is right at the moment a job writes
\* it: the owner chain, the root's version and the definition are the current
\* ones, however old the job's reads are (publishPod, publishWorkload).
THEOREM ControllerNoStalePublish == Spec => NoStalePublish
<1>1. Init => ReadInv
  BY DEF Init, ReadInv, Busy
<1>2. TypeInv /\ ReadInv /\ [Next]_vars => ReadInv'
  BY NextReads
<1>3. TypeInv /\ ReadInv /\ [Next]_vars => [PublishesFresh]_vars
  BY NextFresh
<1> QED
  BY <1>1, <1>2, <1>3, ControllerTypeInv, PTL DEF Spec, NoStalePublish

-------------------------------------------------------------------------------
(* A published root stays right.  Once no job is queued for a tracked root,   *)
(* its job has read what is still true, or its result is right: whatever      *)
(* changes the root's object, version or definition queues it again.          *)

\* The version a tracked root is read in, and its object there.
Version(u) == SelectedGVK(roots[u].gvk, defs[KindOfObject[u[1]]])
RootObject(u) == Object(Version(u), u[1])

IsRoot(u) == Has(Version(u), u) /\ EndsChain(RootObject(u))
InScope(u) == ObjectSelected(RootObject(u)) /\ ResourceSelected(Version(u))

\* The status a job finds for a root that is in scope.
StatusOf(u) ==
  LET kind == KindOfObject[u[1]]
  IN  IF DefinitionErr(kind) # "none" THEN DefinitionErr(kind)
      ELSE IF (defs[kind] # None => defs[kind].evaluates) /\ RootObject(u).renders THEN "none"
      ELSE "evaluation"

RightResult(u) ==
  /\ IsRoot(u)
  /\ ~InScope(u) => workloads[u] = None
  /\ InScope(u) =>
       /\ workloads[u] # None
       /\ workloads[u].error = "none" /\ workloads[u].statusError = StatusOf(u)
       /\ StatusOf(u) = "none" => /\ workloads[u].ref = CurrentRef(Version(u), u)
                                  /\ workloads[u].karta = Origin(defs[KindOfObject[u[1]]])

\* What the job of a root that is not queued again has learned still holds.
StillTrue(u) ==
  LET local == job[RootJob(u)]
      kind == KindOfObject[u[1]]
  IN  /\ local.pc = "remove" => IsRoot(u) /\ ~InScope(u)
      /\ local.pc = "publish" =>
           /\ IsRoot(u) /\ InScope(u) /\ local.ref = CurrentRef(Version(u), u)
           /\ local.def = defs[kind] /\ local.err = DefinitionErr(kind)

SettledRoot(u) ==
  roots[u] # None /\ RootJob(u) \notin dirty =>
    IF Busy(RootJob(u)) THEN StillTrue(u) ELSE RightResult(u)

SettledInv == \A u \in UIDs : SettledRoot(u)

\* A step leaves a root that is not queued after it as it was, with everything
\* its result depends on.
Undisturbed(u) ==
  roots'[u] # None /\ RootJob(u) \notin dirty' =>
    /\ roots[u] # None /\ RootJob(u) \notin dirty
    /\ SelectedGVK(roots'[u].gvk, defs'[KindOfObject[u[1]]]) = Version(u)
    /\ defs'[KindOfObject[u[1]]] = defs[KindOfObject[u[1]]] /\ UNCHANGED <<defErr, scenario>>
    /\ workloads'[u] = workloads[u]
    /\ RootJob(u) \in DOMAIN job' <=> RootJob(u) \in DOMAIN job
    /\ RootJob(u) \in DOMAIN job => job'[RootJob(u)] = job[RootJob(u)]
    /\ Has(Version(u), u) => pos'[<<Version(u), u[1]>>] = pos[<<Version(u), u[1]>>]

\* A settled root that is not disturbed stays settled.
LEMMA UndisturbedStays ==
  ASSUME NEW u \in UIDs, SettledRoot(u), Undisturbed(u)
  PROVE  SettledRoot(u)'
<1>1. SUFFICES ASSUME roots'[u] # None, RootJob(u) \notin dirty'
               PROVE  IF Busy(RootJob(u))' THEN StillTrue(u)' ELSE RightResult(u)'
  BY DEF SettledRoot, RootJob
<1>2. /\ roots[u] # None /\ RootJob(u) \notin dirty
      /\ Version(u)' = Version(u)
      /\ defs'[KindOfObject[u[1]]] = defs[KindOfObject[u[1]]] /\ UNCHANGED <<defErr, scenario>>
      /\ workloads'[u] = workloads[u]
      /\ Busy(RootJob(u))' <=> Busy(RootJob(u))
      /\ Busy(RootJob(u)) => job'[RootJob(u)] = job[RootJob(u)]
      /\ Has(Version(u), u) => pos'[<<Version(u), u[1]>>] = pos[<<Version(u), u[1]>>]
  BY <1>1 DEF Undisturbed, Version, Busy, RootJob
<1>3. IF Busy(RootJob(u)) THEN StillTrue(u) ELSE RightResult(u)
  BY <1>2 DEF SettledRoot
<1>4. DefinitionErr(KindOfObject[u[1]])' = DefinitionErr(KindOfObject[u[1]])
  BY <1>2 DEF DefinitionErr
<1>5. ASSUME IsRoot(u)
      PROVE  /\ RootObject(u)' = RootObject(u) /\ IsRoot(u)' /\ InScope(u)' = InScope(u)
             /\ StatusOf(u)' = StatusOf(u) /\ CurrentRef(Version(u), u)' = CurrentRef(Version(u), u)
  <2>1. pos'[<<Version(u), u[1]>>] = pos[<<Version(u), u[1]>>]
    BY <1>2, <1>5 DEF IsRoot
  <2>2. Object(Version(u), u[1])' = Object(Version(u), u[1])
    BY <1>2, <2>1 DEF Object, Life, life
  <2>3. RootObject(u)' = RootObject(u)
    BY <2>2 DEF RootObject
  <2>4. IsRoot(u)'
    BY <1>2, <1>5, <2>2, <2>3 DEF IsRoot, Has, EndsChain
  <2>5. InScope(u)' = InScope(u)
    BY <1>2, <2>3 DEF InScope, ObjectSelected, ResourceSelected
  <2>6. StatusOf(u)' = StatusOf(u)
    BY <1>2, <1>4, <2>3 DEF StatusOf
  <2>7. CurrentRef(Version(u), u)' = CurrentRef(Version(u), u)
    BY <1>2, <2>1 DEF CurrentRef, Ref
  <2> QED
    BY <2>3, <2>4, <2>5, <2>6, <2>7
<1>6. CASE Busy(RootJob(u))
  BY <1>2, <1>3, <1>4, <1>5, <1>6 DEF StillTrue, RootJob
<1>7. CASE ~Busy(RootJob(u))
  BY <1>2, <1>3, <1>4, <1>5, <1>7 DEF RightResult, Origin
<1> QED
  BY <1>2, <1>6, <1>7

-------------------------------------------------------------------------------
(* Events and definitions queue the roots they concern *)

\* queueObjectChange queues the root whose object changes or goes.
LEMMA AffectedRoot ==
  ASSUME NEW u \in UIDs, roots[u] # None, NEW g, NEW old, NEW new, old # None, old.inc = u[2]
  PROVE  RootJob(u) \in Affected(g, u[1], old, new)
<1>1. u = <<u[1], old.inc>>
  BY DEF UIDs
<1>2. CASE Replaced(old, new)
  BY <1>1, <1>2 DEF Affected, EnqueueRootAndMembers
<1>3. CASE ~Replaced(old, new)
  <2>1. new # None /\ u = <<u[1], new.inc>>
    BY <1>1, <1>3 DEF Replaced
  <2> QED
    BY <2>1 DEF Affected
<1> QED
  BY <1>2, <1>3

\* Events, lists and watch failures.
LEMMA WatchingUndisturbed ==
  ASSUME TypeInv, Watching, NEW u \in UIDs
  PROVE  Undisturbed(u)
<1> DEFINE g == Version(u)
           k == <<g, u[1]>>
<1>0. EnvOK /\ PosOK /\ MemberOK /\ DefOK
  BY DEF TypeInv
<1>1. UNCHANGED <<roots, defs, defErr, scenario, workloads, job>> /\ dirty \subseteq dirty'
  <2>1. PICK h \in GVKs :
          \/ \E o \in Objects : WatchEvent(h, o)
          \/ Listing(h)
          \/ \E slot \in Slots :
               \/ \E listing \in BOOLEAN : WatchStarts(h, slot, listing)
               \/ \E err \in WatchErrors : WatchFails(h, slot, err)
    BY DEF Watching
  <2> QED
    BY <2>1 DEF WatchEvent, Listing, Replace, WatchStarts, WatchFails, membershipVars, storeVars,
                definitionVars, environmentVars
<1>2. SUFFICES ASSUME roots[u] # None, RootJob(u) \notin dirty', Has(g, u)
               PROVE  pos'[k] = pos[k]
  BY <1>1 DEF Undisturbed, Version
<1>3. g \in GVKs /\ KindOf[g] = KindOfObject[u[1]] /\ u[1] \in Objects
  <2>1. /\ u[1] \in Objects /\ roots[u].gvk \in GVKs /\ KindOf[roots[u].gvk] = KindOfObject[u[1]]
        /\ KindOfObject[u[1]] \in Kinds
    BY <1>0, <1>2, ControllerAssumption DEF UIDs, MemberOK, Root
  <2> QED
    BY <1>0, <2>1, SelectedVersion DEF Version, DefOK
<1>4. k \in Keys /\ Object(g, u[1]) # None /\ Object(g, u[1]).inc = u[2]
  BY <1>2, <1>3 DEF Keys, Has
<1>5. PICK h \in GVKs :
        \/ \E o \in Objects : WatchEvent(h, o)
        \/ Listing(h)
        \/ UNCHANGED pos
  BY DEF Watching, WatchStarts, WatchFails
<1> HIDE DEF g, k
<1>6. ASSUME NEW o \in Objects, WatchEvent(h, o) PROVE pos'[k] = pos[k]
  <2>1. CASE <<h, o>> = k
    <3>1. dirty' = dirty \cup Affected(g, u[1], Object(g, u[1]), life[u[1]][pos[k] + 1])
      BY <1>6, <2>1 DEF WatchEvent, k
    <3>2. RootJob(u) \in dirty'
      BY <1>2, <1>4, <3>1, AffectedRoot
    <3> QED
      BY <1>2, <3>2
  <2>2. CASE <<h, o>> # k
    BY <1>0, <1>4, <1>6, <2>2 DEF WatchEvent, PosOK
  <2> QED
    BY <2>1, <2>2
<1>7. CASE Listing(h)
  <2>1. PICK slot \in Slots, at \in Positions(h) : Replace(h, slot, at)
    BY <1>7 DEF Listing
  <2>2. CASE h = g
    <3> DEFINE same == {o \in Objects : KindOfObject[o] = KindOf[g]}
               seen == {p \in same : Object(g, p) # None \/ life[p][at[p]] # None}
               affected == UNION {Affected(g, o, Object(g, o), life[o][at[o]]) : o \in seen}
    <3>1. affected \subseteq dirty'
      BY <2>1, <2>2, Zenon DEF Replace
    <3>2. u[1] \in seen
      BY <1>3, <1>4
    <3>3. RootJob(u) \in Affected(g, u[1], Object(g, u[1]), life[u[1]][at[u[1]]])
      BY <1>2, <1>4, AffectedRoot
    <3>4. RootJob(u) \in affected
      <4> HIDE DEF seen
      <4> QED
        BY <3>2, <3>3, Zenon
    <3> HIDE DEF affected
    <3> QED
      BY <1>2, <3>1, <3>4
  <2>3. CASE h # g
    <3>1. pos' = [x \in Keys |-> IF x[1] = h THEN at[x[2]] ELSE pos[x]]
      BY <2>1 DEF Replace
    <3> QED
      BY <1>4, <2>3, <3>1 DEF k
  <2> QED
    BY <2>2, <2>3
<1> QED
  BY <1>5, <1>6, <1>7

\* Refreshes of the definitions, and what happens outside.
LEMMA SyncingUndisturbed ==
  ASSUME TypeInv, Syncing \/ External, NEW u \in UIDs
  PROVE  Undisturbed(u)
<1> DEFINE kind == KindOfObject[u[1]]
<1>0. kind \in Kinds
  BY ControllerAssumption DEF UIDs
<1>1. UNCHANGED <<roots, pos, scenario, workloads, job>> /\ dirty \subseteq dirty'
  BY DEF Syncing, External, RefreshDefinitions, SyncWatch, SyncReturns, InventoryChanges, Install,
         membershipVars, storeVars, environmentVars
<1>2. ASSUME RefreshDefinitions, roots[u] # None, RootJob(u) \notin dirty'
      PROVE  defs'[kind] = defs[kind] /\ defErr' = defErr
  <2> DEFINE next == IF inventory.err # "none" THEN defs ELSE inventory.defs
             healthChanged == defErr # inventory.err
             changed == {x \in Kinds : ~SameDefinition(defs[x], next[x])}
             queued == {v \in RootUIDs : healthChanged \/ KindOfObject[v[1]] \in changed}
             work == UNION {EnqueueRootAndMembers(v) : v \in queued}
  <2>1. defs' = next /\ defErr' = inventory.err
    BY <1>2 DEF RefreshDefinitions
  <2>2. healthChanged \/ changed # {} => work \subseteq dirty'
    BY <1>2, Zenon DEF RefreshDefinitions
  <2>3. ASSUME healthChanged \/ kind \in changed PROVE FALSE
    <3>1. u \in queued
      BY <1>2, <2>3 DEF RootUIDs
    <3>2. RootJob(u) \in EnqueueRootAndMembers(u)
      BY <1>2 DEF EnqueueRootAndMembers
    <3>3. RootJob(u) \in work
      <4> HIDE DEF queued
      <4> QED
        BY <3>1, <3>2, Zenon
    <3>4. work \subseteq dirty'
      BY <2>2, <2>3
    <3> HIDE DEF work
    <3> QED
      BY <1>2, <3>3, <3>4
  <2> QED
    BY <1>0, <2>1, <2>3 DEF SameDefinition
<1>3. CASE RefreshDefinitions
  BY <1>1, <1>2, <1>3 DEF Undisturbed, Version
<1>4. CASE ~RefreshDefinitions
  <2>1. UNCHANGED <<defs, defErr>>
    BY <1>4 DEF Syncing, External, SyncWatch, SyncReturns, InventoryChanges, Install, definitionVars
  <2> QED
    BY <1>1, <2>1 DEF Undisturbed, Version
<1> QED
  BY <1>3, <1>4

-------------------------------------------------------------------------------
(* The steps of other keys *)

\* A step of another key that keeps the root's version, or queues the root,
\* leaves it undisturbed.
LEMMA OthersUndisturbed ==
  ASSUME NEW u \in UIDs, NEW k, k # RootJob(u), JobsOnly(k), KeepsOthers(k),
         UNCHANGED <<scenario, pos, defs, defErr>>, workloads'[u] = workloads[u],
         roots'[u] # None /\ RootJob(u) \notin dirty' =>
           roots[u] # None /\ SelectedGVK(roots'[u].gvk, defs[KindOfObject[u[1]]]) = Version(u)
  PROVE  Undisturbed(u)
<1>1. RootJob(u) \in DOMAIN job' <=> RootJob(u) \in DOMAIN job
  BY DEF JobsOnly, KeepsOthers
<1>2. RootJob(u) \in DOMAIN job => job'[RootJob(u)] = job[RootJob(u)]
  BY <1>1 DEF JobsOnly
<1>3. RootJob(u) \notin dirty' => RootJob(u) \notin dirty
  BY DEF KeepsOthers
<1> QED
  BY <1>1, <1>2, <1>3 DEF Undisturbed

\* ensureRoot does not change the version of a root whose kind has a definition.
LEMMA EnsuredVersion ==
  ASSUME MemberOK, DefOK, NEW root \in KeyRefs, roots[root.uid] # None,
         defs[KindOf[root.gvk]] # None \/ EnsuredRoot(root).gvk = roots[root.uid].gvk
  PROVE  SelectedGVK(EnsuredRoot(root).gvk, defs[KindOfObject[root.uid[1]]]) = Version(root.uid)
BY DEF SelectedGVK, Version, KeyRefs

\* registerPodRoot queues the root it registers first, and a root it moves to
\* another version.
LEMMA RegisterPodRootVersions ==
  ASSUME TypeInv, MembershipMirror, NEW p \in PodUIDs, RegisterPodRoot(p), NEW u \in UIDs,
         roots'[u] # None, RootJob(u) \notin dirty'
  PROVE  roots[u] # None /\ SelectedGVK(roots'[u].gvk, defs[KindOfObject[u[1]]]) = Version(u)
<1> DEFINE k == PodJob(p)
           root == RootOf(k)
           ensured == EnsuredRoot(root)
<1>0. MemberOK /\ DefOK /\ JobOK
  BY DEF TypeInv
<1>1. CASE UNCHANGED roots
  BY <1>1 DEF Version
<1>2. CASE ~UNCHANGED roots
  <2>1. /\ roots' = IF podRoots[p] = root.uid
                      THEN [roots EXCEPT ![root.uid] = ensured]
                      ELSE [RootsWithoutPod(p) EXCEPT ![root.uid] = [ensured EXCEPT !.pods = @ \cup {p}]]
        /\ podRoots[p] # root.uid => RootJob(root.uid) \in dirty'
        /\ roots[root.uid] # None /\ defs[KindOf[root.gvk]] = None /\ ensured.gvk # roots[root.uid].gvk =>
             RootJob(root.uid) \in dirty'
    BY <1>2 DEF RegisterPodRoot, membershipVars
  <2>2. root \in KeyRefs /\ root.uid \in UIDs
    <3>1. job[k].path \in Seq(KeyRefs) /\ job[k].path # <<>>
      BY <1>0 DEF RegisterPodRoot, At, Busy, JobOK, LocalOK
    <3> QED
      BY <3>1, WalkEnd DEF RootOf
  <2> HIDE DEF root, ensured
  <2>3. CASE u = root.uid
    <3>1. podRoots[p] = u
      BY <2>1, <2>3
    <3>2. roots[u] # None
      BY <3>1 DEF MembershipMirror
    <3>3. roots'[u] = ensured
      BY <1>0, <2>1, <2>2, <2>3, <3>1 DEF MemberOK
    <3>4. defs[KindOf[root.gvk]] # None \/ ensured.gvk = roots[u].gvk
      BY <2>1, <2>3, <3>2
    <3> QED
      BY <1>0, <2>2, <2>3, <3>2, <3>3, <3>4, EnsuredVersion DEF ensured
  <2>4. CASE u # root.uid
    <3>1. roots'[u] = roots[u] \/ roots'[u] = RootsWithoutPod(p)[u]
      BY <1>0, <2>1, <2>2, <2>4, RootsWithoutPodType DEF MemberOK
    <3>2. roots[u] # None /\ roots'[u].gvk = roots[u].gvk
      BY <1>0, <3>1, RootsWithoutPodType
    <3> QED
      BY <3>2 DEF Version
  <2> QED
    BY <2>3, <2>4
<1> QED
  BY <1>1, <1>2

\* The steps of a Pod job.
LEMMA PodStepUndisturbed ==
  ASSUME TypeInv, ReadInv, MembershipMirror, NEW p \in PodUIDs, PodStep(p), NEW u \in UIDs
  PROVE  Undisturbed(u)
<1>1. JobsOnly(PodJob(p)) /\ KeepsOthers(PodJob(p)) /\ PodJob(p) # RootJob(u)
  BY PodStepReads, PodStepKeeps, KeysDiffer
<1>2. UNCHANGED <<scenario, pos, defs, defErr, workloads>>
  BY DEF PodStep, ResolvePod, RegisterPodRoot, ReadPodRoot, FailPodEvaluation, PublishPod,
         UnregisterPod, environmentVars, definitionVars
<1>3. UNCHANGED roots \/ RegisterPodRoot(p) \/ roots' = RootsWithoutPod(p)
  BY DEF PodStep, ResolvePod, ReadPodRoot, FailPodEvaluation, PublishPod, UnregisterPod, membershipVars
<1>4. ASSUME roots'[u] # None, RootJob(u) \notin dirty'
      PROVE  roots[u] # None /\ SelectedGVK(roots'[u].gvk, defs[KindOfObject[u[1]]]) = Version(u)
  <2>1. CASE UNCHANGED roots
    BY <1>4, <2>1 DEF Version
  <2>2. CASE RegisterPodRoot(p)
    BY <1>4, <2>2, RegisterPodRootVersions
  <2>3. CASE roots' = RootsWithoutPod(p)
    BY <1>4, <2>3, RootsWithoutPodType DEF Version, TypeInv
  <2> QED
    BY <1>3, <2>1, <2>2, <2>3
<1> QED
  BY <1>1, <1>2, <1>4, OthersUndisturbed

\* The steps of a selected-object job: the root it registers is queued.
LEMMA SelectedStepUndisturbed ==
  ASSUME TypeInv, NEW x \in SelectedKeys, SelectedStep(x), NEW u \in UIDs
  PROVE  Undisturbed(u)
<1>0. MemberOK /\ JobOK
  BY DEF TypeInv
<1>1. JobsOnly(JobOf(x))
  <2>1. \/ \E taken, work, retry : Return(JobOf(x), taken, work, retry)
        \/ \E taken, local : Continue(JobOf(x), taken, local)
    BY DEF SelectedStep, ResolveSelectedObject, FailSelected, ReplaceSelectedObjectTracking,
           RegisterSelectedObjectRoot, ExcludeSelectedObject, UnregisterSelectedObject
  <2> QED
    BY <2>1, HandlerJobs
<1>2. KeepsOthers(JobOf(x)) /\ JobOf(x) # RootJob(u)
  BY SelectedStepKeeps, KeysDiffer
<1>3. UNCHANGED <<scenario, pos, defs, defErr, workloads>>
  BY DEF SelectedStep, ResolveSelectedObject, ReplaceSelectedObjectTracking, RegisterSelectedObjectRoot,
         ExcludeSelectedObject, UnregisterSelectedObject, environmentVars, definitionVars
<1>4. UNCHANGED roots \/ RegisterSelectedObjectRoot(x) \/ roots' = RootsWithoutSelected(x)
  BY DEF SelectedStep, ResolveSelectedObject, ReplaceSelectedObjectTracking, ExcludeSelectedObject,
         UnregisterSelectedObject
<1>5. ASSUME roots'[u] # None, RootJob(u) \notin dirty'
      PROVE  roots[u] # None /\ SelectedGVK(roots'[u].gvk, defs[KindOfObject[u[1]]]) = Version(u)
  <2>1. CASE UNCHANGED roots
    BY <1>5, <2>1 DEF Version
  <2>2. CASE RegisterSelectedObjectRoot(x) /\ ~UNCHANGED roots
    <3> DEFINE root == RootOf(JobOf(x))
    <3>1. /\ \E R \in {roots, RootsWithoutSelected(x)} : \E ensured : roots' = [R EXCEPT ![root.uid] = ensured]
          /\ RootJob(root.uid) \in dirty'
      BY <2>2 DEF RegisterSelectedObjectRoot, Return, membershipVars
    <3>2. root.uid # u
      BY <1>5, <3>1
    <3> HIDE DEF root
    <3>3. roots'[u] = roots[u] \/ roots'[u] = RootsWithoutSelected(x)[u]
      BY <1>0, <3>1, <3>2, RootsWithoutSelectedType DEF MemberOK
    <3> QED
      BY <1>0, <1>5, <3>3, RootsWithoutSelectedType DEF Version
  <2>3. CASE roots' = RootsWithoutSelected(x)
    BY <1>0, <1>5, <2>3, RootsWithoutSelectedType DEF Version
  <2> QED
    BY <1>4, <2>1, <2>2, <2>3
<1> QED
  BY <1>1, <1>2, <1>3, <1>5, OthersUndisturbed

-------------------------------------------------------------------------------
(* The steps of the root's own job *)

\* reconcileWorkload reads the root in its selected version: what it goes on
\* with is true, and otherwise the key is queued again.
LEMMA ReadWorkloadSettles ==
  ASSUME TypeInv, NEW u \in UIDs, ReadWorkload(u)
  PROVE  SettledRoot(u)'
<1> DEFINE k == RootJob(u)
           kind == KindOfObject[u[1]]
           ref == Ref(Version(u), u, 0)
           err == Lookup(ref, TRUE)
           object == RootObject(u)
           read == [ref EXCEPT !.rv = pos[<<ref.gvk, u[1]>>]]
           found == [pc |-> "publish", path |-> <<>>, def |-> defs[kind], ref |-> read,
                     err |-> DefinitionErr(kind), version |-> defVersion]
<1>1. UNCHANGED <<roots, pos, defs, defErr, scenario>>
  BY DEF ReadWorkload, environmentVars, definitionVars, membershipVars
<1>2. SUFFICES ASSUME roots[u] # None, k \notin dirty'
               PROVE  k \in DOMAIN job' /\ StillTrue(u)'
  BY <1>1 DEF SettledRoot, Busy, RootJob
<1>3. ref.gvk = Version(u) /\ ref.uid = u /\ read = CurrentRef(Version(u), u)
  BY DEF Ref, CurrentRef
<1>4. \/ \E r, reason : FailWorkload(u, r, reason)
      \/ /\ Continue(k, {k}, Local("withdraw"))
      \/ /\ err = "none" /\ EndsChain(object) /\ ~InScope(u)
         /\ Continue(k, {k}, Local("remove"))
      \/ /\ err = "none" /\ EndsChain(object) /\ InScope(u)
         /\ Continue(k, {k}, found)
  BY <1>2 DEF ReadWorkload, Version, RootObject, InScope, Ref
<1>5. err = "none" => Has(Version(u), u)
  BY <1>3 DEF Lookup
<1>6. CASE \E r, reason : FailWorkload(u, r, reason)
  BY <1>2, <1>6 DEF FailWorkload, Return
<1>7. ASSUME NEW local, Continue(k, {k}, local),
             local.pc = "remove" => IsRoot(u) /\ ~InScope(u),
             local.pc = "publish" => /\ IsRoot(u) /\ InScope(u) /\ local.ref = CurrentRef(Version(u), u)
                                     /\ local.def = defs[kind] /\ local.err = DefinitionErr(kind)
      PROVE  k \in DOMAIN job' /\ StillTrue(u)'
  <2>1. k \in DOMAIN job' /\ job'[k] = local
    BY <1>7 DEF Continue
  <2>2. /\ Version(u)' = Version(u) /\ RootObject(u)' = RootObject(u)
        /\ DefinitionErr(kind)' = DefinitionErr(kind) /\ CurrentRef(Version(u), u)' = CurrentRef(Version(u), u)
    BY <1>1 DEF Version, RootObject, Object, Life, life, DefinitionErr, CurrentRef, Ref
  <2>3. IsRoot(u)' = IsRoot(u) /\ InScope(u)' = InScope(u)
    BY <1>1, <2>2 DEF IsRoot, InScope, Has, Object, Life, life, EndsChain, ObjectSelected, ResourceSelected
  <2> HIDE DEF kind, k
  <2>4. job'[RootJob(u)] = local
    BY <2>1 DEF k
  <2> QED
    BY <1>1, <1>7, <2>1, <2>2, <2>3, <2>4 DEF StillTrue, kind
<1>8. Local("withdraw").pc = "withdraw" /\ Local("remove").pc = "remove"
  BY DEF Local
<1>9. /\ found.pc = "publish" /\ found.ref = read /\ found.def = defs[kind]
      /\ found.err = DefinitionErr(kind)
  OBVIOUS
<1> HIDE DEF found, object, read, err, ref, k
<1>10. CASE Continue(k, {k}, Local("withdraw"))
  BY <1>7, <1>8, <1>10
<1>11. CASE err = "none" /\ EndsChain(object) /\ ~InScope(u) /\ Continue(k, {k}, Local("remove"))
  <2>1. IsRoot(u)
    BY <1>5, <1>11 DEF IsRoot, object
  <2> QED
    BY <1>7, <1>8, <1>11, <2>1
<1>12. CASE err = "none" /\ EndsChain(object) /\ InScope(u) /\ Continue(k, {k}, found)
  <2>1. IsRoot(u)
    BY <1>5, <1>12 DEF IsRoot, object
  <2> QED
    BY <1>3, <1>7, <1>9, <1>12, <2>1
<1> QED
  BY <1>4, <1>6, <1>10, <1>11, <1>12

\* RemoveWorkload: the root was and is out of scope.
LEMMA RemoveWorkloadSettles ==
  ASSUME TypeInv, NEW u \in UIDs, RemoveWorkload(u), SettledRoot(u)
  PROVE  SettledRoot(u)'
<1>1. UNCHANGED <<roots, pos, defs, defErr, scenario>>
  BY DEF RemoveWorkload, environmentVars, definitionVars, membershipVars
<1>2. /\ dirty' = dirty /\ RootJob(u) \notin DOMAIN job'
      /\ Busy(RootJob(u)) /\ job[RootJob(u)].pc = "remove"
  BY DEF RemoveWorkload, Return, Restrict, At
<1>3. workloads'[u] = None
  BY DEF RemoveWorkload, RemovedWorkload, TypeInv, StoreOK
<1>4. SUFFICES ASSUME roots[u] # None, RootJob(u) \notin dirty
               PROVE  RightResult(u)'
  BY <1>1, <1>2 DEF SettledRoot, Busy, RootJob
<1>5. IsRoot(u) /\ ~InScope(u)
  BY <1>2, <1>4 DEF SettledRoot, StillTrue
<1>6. IsRoot(u)' /\ ~InScope(u)'
  <2>1. Version(u)' = Version(u) /\ RootObject(u)' = RootObject(u)
    BY <1>1 DEF Version, RootObject, Object, Life, life
  <2> QED
    BY <1>1, <1>5, <2>1 DEF IsRoot, InScope, Has, Object, Life, life, EndsChain, ObjectSelected, ResourceSelected
<1> QED
  BY <1>3, <1>6 DEF RightResult

\* publishWorkload: what the job has read is still true, so its result is right.
LEMMA PublishWorkloadSettles ==
  ASSUME TypeInv, NEW u \in UIDs, PublishWorkload(u), SettledRoot(u)
  PROVE  SettledRoot(u)'
<1> DEFINE k == RootJob(u)
           kind == KindOfObject[u[1]]
           local == job[k]
           ref == local.ref
           fresh == [hasValue |-> TRUE, ref |-> ref, error |-> "none", statusError |-> StatusErr(u),
                     karta |-> IF local.def = None \/ local.err # "none" THEN None ELSE local.def.origin]
           kept == [fresh EXCEPT !.ref = workloads[u].ref, !.karta = workloads[u].karta]
<1>0. roots \in [UIDs -> Root \cup {None}] /\ workloads \in [UIDs -> WorkloadResult \cup {None}]
  BY DEF TypeInv, MemberOK, StoreOK
<1>1. UNCHANGED <<pos, defs, defErr, scenario>>
  BY DEF PublishWorkload, environmentVars, definitionVars
<1>2. Busy(k) /\ local.pc = "publish" /\ k \notin DOMAIN job'
  BY DEF PublishWorkload, Return, Restrict, At
<1>3. SUFFICES ASSUME roots'[u] # None, k \notin dirty'
               PROVE  RightResult(u)'
  BY <1>2 DEF SettledRoot, Busy, RootJob
<1>4. /\ roots[u] # None /\ k \notin dirty
      /\ roots' = [roots EXCEPT ![u].gvk = ref.gvk]
      /\ \/ workloads' = [workloads EXCEPT ![u] = fresh]
         \/ workloads' = [workloads EXCEPT ![u] = kept] /\ StatusErr(u) # "none" /\ workloads[u] # None
  BY <1>3 DEF PublishWorkload, Return
<1>5. /\ IsRoot(u) /\ InScope(u) /\ ref = CurrentRef(Version(u), u)
      /\ local.def = defs[kind] /\ local.err = DefinitionErr(kind)
  BY <1>2, <1>4 DEF SettledRoot, StillTrue
<1>6. ref.gvk = Version(u) /\ ref.rv = pos[<<Version(u), u[1]>>]
  BY <1>5 DEF CurrentRef, Ref
<1>7. roots'[u].gvk = Version(u)
  BY <1>0, <1>4, <1>6 DEF Root
<1>8. Version(u)' = Version(u)
  BY <1>1, <1>7 DEF Version, SelectedGVK
<1>9. /\ RootObject(u)' = RootObject(u) /\ IsRoot(u)' /\ InScope(u)'
      /\ StatusOf(u)' = StatusOf(u) /\ CurrentRef(Version(u), u)' = CurrentRef(Version(u), u)
  <2>1. Object(Version(u), u[1])' = Object(Version(u), u[1])
    BY <1>1, <1>8 DEF Object, Life, life
  <2>2. RootObject(u)' = RootObject(u)
    BY <2>1 DEF RootObject
  <2>3. IsRoot(u)' /\ InScope(u)'
    BY <1>1, <1>5, <1>8, <2>1, <2>2 DEF IsRoot, InScope, Has, EndsChain, ObjectSelected, ResourceSelected
  <2>4. StatusOf(u)' = StatusOf(u) /\ CurrentRef(Version(u), u)' = CurrentRef(Version(u), u)
    BY <1>1, <1>8, <2>2 DEF StatusOf, DefinitionErr, CurrentRef, Ref
  <2> QED
    BY <2>2, <2>3, <2>4
<1>10. StatusErr(u) = StatusOf(u)
  <2>1. Life(u[1], ref.rv) = RootObject(u)
    BY <1>6 DEF RootObject, Object
  <2> QED
    BY <1>5, <2>1 DEF StatusErr, StatusOf
<1>11. StatusErr(u) = "none" => fresh.karta = Origin(defs[kind])
  BY <1>5 DEF StatusErr, Origin
<1>12. /\ fresh.error = "none" /\ kept.error = "none" /\ fresh.ref = ref
       /\ fresh.statusError = StatusErr(u) /\ kept.statusError = StatusErr(u)
  OBVIOUS
<1>13. fresh # None /\ (workloads[u] # None => kept # None)
  <2>1. k \in DOMAIN job /\ k \in AllJobs /\ JobOK /\ DefOK /\ kind \in Kinds
    BY <1>2, JobTypes, ControllerAssumption DEF TypeInv, Busy, UIDs
  <2>2. ref \in Refs /\ local.err \in Errors /\ local.def \in Definition \cup {None}
    BY <1>2, <2>1 DEF JobOK, LocalOK, JobRecord, KeyRefs
  <2>3. StatusErr(u) \in Errors
    BY <2>2 DEF StatusErr, Errors
  <2>4. fresh.karta \in STRING \cup {None}
    BY <2>2 DEF Definition
  <2>5. fresh \in WorkloadResult
    BY <2>2, <2>3, <2>4 DEF WorkloadResult, Errors
  <2>6. ASSUME workloads[u] # None PROVE kept \in WorkloadResult
    <3>1. workloads[u].ref \in Refs /\ workloads[u].karta \in STRING \cup {None}
      BY <1>0, <2>6 DEF WorkloadResult
    <3> QED
      BY <2>5, <3>1 DEF WorkloadResult
  <2> QED
    BY <2>5, <2>6, NoneAssumption
<1> HIDE DEF fresh, kept
<1>14. /\ workloads'[u] = fresh \/ (workloads'[u] = kept /\ workloads[u] # None)
       /\ StatusErr(u) = "none" => workloads'[u] = fresh
  BY <1>0, <1>4
<1> HIDE DEF ref
<1> QED
  BY <1>1, <1>5, <1>9, <1>10, <1>11, <1>12, <1>13, <1>14 DEF RightResult, Origin

-------------------------------------------------------------------------------
(* The invariant is inductive *)

\* The steps of a workload job.
LEMMA RootStepSettles ==
  ASSUME TypeInv, ReadInv, NEW v \in UIDs, RootStep(v), NEW u \in UIDs, SettledRoot(u)
  PROVE  SettledRoot(u)'
<1>0. roots \in [UIDs -> Root \cup {None}] /\ workloads \in [UIDs -> WorkloadResult \cup {None}]
  BY DEF TypeInv, MemberOK, StoreOK
<1>1. CASE u # v
  <2>1. JobsOnly(RootJob(v)) /\ KeepsOthers(RootJob(v)) /\ RootJob(v) # RootJob(u)
    BY <1>1, RootStepReads, RootStepKeeps, KeysDiffer
  <2>2. UNCHANGED <<scenario, pos, defs, defErr>>
    BY DEF RootStep, ReadWorkload, WithdrawWorkload, RemoveWorkload, PublishWorkload,
           environmentVars, definitionVars
  <2>3. roots'[u] = roots[u]
    BY <1>0, <1>1 DEF RootStep, ReadWorkload, WithdrawWorkload, RemoveWorkload, PublishWorkload, membershipVars
  <2>4. workloads'[u] = workloads[u]
    BY <1>0, <1>1 DEF RootStep, ReadWorkload, FailWorkload, WithdrawWorkload, RemoveWorkload, RemovedWorkload,
                      PublishWorkload
  <2> QED
    BY <2>1, <2>2, <2>3, <2>4, OthersUndisturbed, UndisturbedStays DEF Version
<1>2. CASE u = v
  <2>1. CASE WithdrawWorkload(u)
    <3>1. roots'[u] = None
      BY <1>0, <2>1 DEF WithdrawWorkload
    <3> QED
      BY <3>1 DEF SettledRoot
  <2> QED
    BY <1>2, <2>1, ReadWorkloadSettles, RemoveWorkloadSettles, PublishWorkloadSettles DEF RootStep
<1> QED
  BY <1>1, <1>2

\* Every step keeps what is settled.
LEMMA NextSettled ==
  ASSUME TypeInv, ReadInv, MembershipMirror, SettledInv, [Next]_vars
  PROVE  SettledInv'
<1> SUFFICES ASSUME NEW u \in UIDs PROVE SettledRoot(u)'
  BY DEF SettledInv
<1>1. SettledRoot(u)
  BY DEF SettledInv
<1>2. CASE Undisturbed(u)
  BY <1>1, <1>2, UndisturbedStays
<1>3. CASE \E v \in UIDs : RootStep(v)
  BY <1>1, <1>3, RootStepSettles
<1>4. CASE RequeueScope \/ UNCHANGED vars
  <2>1. /\ UNCHANGED <<roots, defs, defErr, scenario, workloads, job, pos>>
        /\ dirty \ {Rescan} \subseteq dirty'
    BY <1>4 DEF RequeueScope, vars, membershipVars, storeVars, definitionVars, environmentVars
  <2>2. RootJob(u) # Rescan
    BY DEF RootJob, Rescan
  <2> QED
    BY <1>2, <2>1, <2>2 DEF Undisturbed, Version
<1> QED
  BY <1>2, <1>3, <1>4, WatchingUndisturbed, SyncingUndisturbed, PodStepUndisturbed,
     SelectedStepUndisturbed DEF Next

\* Store's result of a settled root is what its current object and definition give.
LEMMA SettledIsRight ==
  ASSUME TypeInv, SettledInv
  PROVE  WorkloadSettled
<1> SUFFICES ASSUME NEW u \in RootUIDs, Quiet(RootJob(u))
             PROVE  LET g == Version(u)
                    IN  /\ Has(g, u) /\ EndsChain(RootObject(u))
                        /\ IF ~InScope(u) THEN workloads[u] = None
                           ELSE /\ workloads[u] # None /\ workloads[u].error = "none"
                                /\ KindOf[g] = KindOfObject[u[1]]
                                /\ workloads[u].statusError = StatusOf(u)
                                /\ StatusOf(u) = "none" =>
                                     /\ workloads[u].ref = CurrentRef(g, u)
                                     /\ workloads[u].karta = Origin(defs[KindOfObject[u[1]]])
  BY DEF WorkloadSettled, Version, RootObject, InScope, StatusOf
<1>1. u \in UIDs /\ roots[u] # None
  BY DEF RootUIDs
<1>2. RightResult(u)
  BY <1>1 DEF SettledInv, SettledRoot, Quiet
<1>3. KindOf[Version(u)] = KindOfObject[u[1]]
  <2>1. /\ roots[u].gvk \in GVKs /\ KindOf[roots[u].gvk] = KindOfObject[u[1]]
        /\ KindOfObject[u[1]] \in Kinds
    BY <1>1, ControllerAssumption DEF TypeInv, UIDs, MemberOK, Root
  <2> QED
    BY <2>1, SelectedVersion DEF Version, TypeInv, DefOK
<1> QED
  BY <1>2, <1>3 DEF RightResult, IsRoot

\* When no job is left for a tracked root, the root exists without an owner, and
\* Store holds its result at its current version and under the current definition,
\* or none when it is out of scope: no event and no refresh that could change the
\* result is lost while a job runs (queueObjectChange, refreshDefinitions, publishWorkload).
THEOREM ControllerWorkloadSettled == Spec => []WorkloadSettled
<1>1. Init => ReadInv /\ SettledInv
  BY DEF Init, ReadInv, Busy, SettledInv, SettledRoot
<1>2. TypeInv /\ ReadInv /\ [Next]_vars => ReadInv'
  BY NextReads
<1>3. TypeInv /\ ReadInv /\ MembershipMirror /\ SettledInv /\ [Next]_vars => SettledInv'
  BY NextSettled
<1>4. TypeInv /\ SettledInv => WorkloadSettled
  BY SettledIsRight
<1> QED
  BY <1>1, <1>2, <1>3, <1>4, ControllerTypeInv, ControllerMembershipMirror, PTL DEF Spec
===============================================================================
