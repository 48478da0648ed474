-------------------------- MODULE ControllerSettled --------------------------
(***************************************************************************)
(* What Store says of a Pod, and which root a cached object is registered  *)
(* with, once nothing more is queued for it, for every set of objects,     *)
(* kinds and scenarios.  The invariants say of every Pod and of every      *)
(* selected key that is not queued what its job has learned, or what the   *)
(* controller holds, as far as the rescan that is queued will not find     *)
(* out.  Every step of another actor leaves it true or queues the key or a *)
(* rescan; the steps of the key's own job make it true.                    *)
(***************************************************************************)
EXTENDS ControllerFreshness

-------------------------------------------------------------------------------
(* The scenarios the theorems are about *)

\* The definitions never move a kind to another version: whichever of the
\* scenario's inventories is committed, an object is read in the same one.  Only
\* the objects that have a root are queued when the version moves.
SteadyVersions(s) ==
  \A a, b \in s.snapshots, g \in GVKs :
    a.err = "none" /\ b.err = "none" =>
      SelectedGVK(g, a.defs[KindOf[g]]) = SelectedGVK(g, b.defs[KindOf[g]])

\* No object has a Pod for an owner.  The Pods on the chain of a Pod that the
\* resource rules leave out are not remembered as ancestors.
NoPodOwns(s) ==
  \A t \in (UNION {Range(s.life[o]) : o \in Objects}) \ {None} :
    NamesOwner(t) => t.owner.gvk # PodGVK

SteadyScope(s) == SteadyVersions(s) /\ (s.filters => NoPodOwns(s))

\* core/v1 is the only version of Pods.
PodsHaveOneVersion == \A g \in GVKs : KindOf[g] = KindOf[PodGVK] => g = PodGVK

-------------------------------------------------------------------------------
(* The invariant of Pods *)

\* The cached owner chain of an object in version g, whatever the health of the
\* sources.
OwnerChain(g, u, path) ==
  /\ path \in Seq(KeyRefs) /\ Len(path) >= 1
  /\ path[1].gvk = g /\ path[1].uid = u
  /\ \A i \in 1..Len(path) : Has(path[i].gvk, path[i].uid)
  /\ \A i \in 2..Len(path) :
       /\ NamesOwner(ObjectAt(path[i - 1]))
       /\ path[i].gvk = ObjectAt(path[i - 1]).owner.gvk /\ path[i].uid = ObjectAt(path[i - 1]).owner.uid
  /\ EndsChain(ObjectAt(Last(path)))

\* The version the root of a chain is read in, and the root there.
RootVersion(path) == SelectedGVK(Last(path).gvk, defs[KindOf[Last(path).gvk]])
HasRoot(path) == Has(RootVersion(path), Last(path).uid)
RootState(path) == Object(RootVersion(path), Last(path).uid[1])

\* The controller follows the chain: Pods on it are known to own something.
Followed(g, u, path) == OwnerChain(g, u, path) /\ PathPods(path) \subseteq ancestorPods

\* Steps of a Pod job that knows the Pod's root.
ReadingPod == {"register", "readRoot", "publish", "failEvaluation"}

PodWanted(u) == Has(PodGVK, u) /\ PodSelected(Object(PodGVK, u[1]))

\* The Pod is gone or not selected, or its root is left out.
OutOfScope(u) ==
  PodWanted(u) =>
    \E path \in Seq(KeyRefs) :
      /\ Followed(PodGVK, u, path)
      /\ ResourceSelected(RootVersion(path)) => HasRoot(path) /\ ~ObjectSelected(RootState(path))

NoPodResult(u) == pods[u] = None /\ podRoots[u] = None

\* What Store holds for the Pod is what its current chain and definition give.
RightPod(u) ==
  \/ OutOfScope(u) /\ NoPodResult(u)
  \/ /\ PodWanted(u)
     /\ \E path \in Seq(KeyRefs) :
          /\ Followed(PodGVK, u, path) /\ podRoots[u] = Last(path).uid /\ HasRoot(path)
          /\ PodOutcomeIsCurrent(u, RootVersion(path), Last(path).uid)

\* What the job of a Pod that is not queued again has learned still holds, except
\* what the rescan that is queued will find out.
PodLearned(u, local) ==
  /\ local.pc \in ReadingPod =>
       PodWanted(u) /\ local.path[1].rv = pos[<<PodGVK, u[1]>>]
  /\ Rescan \notin dirty =>
       /\ local.pc = "unregister" => OutOfScope(u)
       /\ local.pc \in ReadingPod =>
            SelectedGVK(Last(local.path).gvk, local.def) = RootVersion(local.path)
       /\ local.pc \in {"readRoot", "publish", "failEvaluation"} =>
            Followed(PodGVK, u, local.path) /\ podRoots[u] = Last(local.path).uid

SettledPod(u) ==
  PodJob(u) \notin dirty =>
    IF Busy(PodJob(u)) THEN PodLearned(u, job[PodJob(u)])
    ELSE /\ ~Has(PodGVK, u) => NoPodResult(u)
         /\ Rescan \notin dirty => RightPod(u)

SettledPods == \A u \in PodUIDs : SettledPod(u)

\* While definitions are available they are those of one of the inventories.
DefsCommitted ==
  defErr = "none" => \E a \in scenario.snapshots : a.err = "none" /\ defs = a.defs

-------------------------------------------------------------------------------
(* Owner chains *)

\* Two chains of an object agree as far as both go.
LEMMA ChainsAgree ==
  ASSUME NEW g, NEW u, NEW p, NEW q, OwnerChain(g, u, p), OwnerChain(g, u, q),
         NEW i \in 1..Len(p), i \in 1..Len(q)
  PROVE  p[i].gvk = q[i].gvk /\ p[i].uid = q[i].uid
<1> DEFINE Same(n) == p[n].gvk = q[n].gvk /\ p[n].uid = q[n].uid
           Failing == {n \in 1..Len(p) : n \in 1..Len(q) /\ ~Same(n)}
<1>1. Len(p) \in Nat /\ Len(q) \in Nat
  BY DEF OwnerChain
<1>2. SUFFICES ASSUME Failing # {} PROVE FALSE
  OBVIOUS
<1>3. PICK n \in Failing : \A m \in Failing : n <= m
  <2>1. Failing \in SUBSET Nat
    BY <1>1
  <2>2. \A T \in SUBSET Nat : T # {} => \E n \in T : \A m \in T : n <= m
    BY LeastNat, Zenon
  <2> HIDE DEF Failing
  <2> QED
    BY <1>2, <2>1, <2>2
<1>4. n \in 1..Len(p) /\ n \in 1..Len(q) /\ ~Same(n)
  BY <1>3
<1>5. n # 1
  BY <1>4 DEF OwnerChain
<1>6. n \in 2..Len(p) /\ n \in 2..Len(q) /\ n - 1 \in 1..Len(p) /\ n - 1 \in 1..Len(q)
  BY <1>1, <1>4, <1>5
<1>7. Same(n - 1)
  <2>1. n - 1 \notin Failing
    <3> HIDE DEF Failing
    <3> QED
      BY <1>3, <1>4, <1>6
  <2> QED
    BY <1>6, <2>1
<1>8. ObjectAt(p[n - 1]) = ObjectAt(q[n - 1])
  BY <1>7 DEF ObjectAt
<1>9. Same(n)
  BY <1>6, <1>8 DEF OwnerChain
<1> QED
  BY <1>4, <1>9

\* A chain does not go on where another one ends.
LEMMA ChainEnds ==
  ASSUME NEW g, NEW u, NEW p, NEW q, OwnerChain(g, u, p), OwnerChain(g, u, q)
  PROVE  ~(Len(p) < Len(q))
<1> SUFFICES ASSUME Len(p) < Len(q) PROVE FALSE
  OBVIOUS
<1> DEFINE n == Len(p)
<1>1. /\ n \in 1..Len(p) /\ n \in 1..Len(q) /\ n + 1 \in 2..Len(q) /\ (n + 1) - 1 = n
  BY DEF OwnerChain
<1>2. ObjectAt(p[n]) = ObjectAt(q[n])
  BY <1>1, ChainsAgree DEF ObjectAt
<1>3. EndsChain(ObjectAt(p[n]))
  BY DEF OwnerChain, Last
<1> HIDE DEF n
<1>4. NamesOwner(ObjectAt(q[n]))
  BY <1>1 DEF OwnerChain
<1> QED
  BY <1>2, <1>3, <1>4 DEF NamesOwner

\* An object has one root.
LEMMA OneRoot ==
  ASSUME NEW g, NEW u, NEW p, NEW q, OwnerChain(g, u, p), OwnerChain(g, u, q)
  PROVE  /\ Last(p).gvk = Last(q).gvk /\ Last(p).uid = Last(q).uid
         /\ RootVersion(p) = RootVersion(q) /\ RootState(p) = RootState(q)
<1>1. Len(p) \in Nat /\ Len(q) \in Nat /\ Len(p) >= 1
  BY DEF OwnerChain
<1>2. Len(p) = Len(q)
  BY <1>1, ChainEnds
<1>3. Last(p).gvk = Last(q).gvk /\ Last(p).uid = Last(q).uid
  BY <1>1, <1>2, ChainsAgree DEF Last
<1> QED
  BY <1>3 DEF RootVersion, RootState

\* A walk of Get that ends at a root is the chain of the object it started from.
LEMMA WalkIsChain ==
  ASSUME EnvOK, WatchOK, PosOK, NEW ref \in KeyRefs, Current(ref),
         NEW path, WalkOK(ref, path), EndsChain(ObjectAt(Last(path)))
  PROVE  OwnerChain(ref.gvk, ref.uid, path)
<1>1. path \in Seq(KeyRefs) /\ Len(path) >= 1 /\ path[1] = ref
  BY DEF WalkOK
<1>2. ASSUME NEW i \in 1..Len(path) PROVE Has(path[i].gvk, path[i].uid)
  BY WalkCurrent DEF Current, Lookup
<1>3. ASSUME NEW i \in 2..Len(path)
      PROVE  /\ NamesOwner(ObjectAt(path[i - 1]))
             /\ path[i].gvk = ObjectAt(path[i - 1]).owner.gvk /\ path[i].uid = ObjectAt(path[i - 1]).owner.uid
  BY DEF WalkOK, Linked
<1> QED
  BY <1>1, <1>2, <1>3 DEF OwnerChain

\* An owner chain that was read and is current is the chain of its first object.
LEMMA ReadIsChain ==
  ASSUME EnvOK, WatchOK, PosOK, NEW path, ChainRead(path), PathCurrent(path)
  PROVE  /\ OwnerChain(path[1].gvk, path[1].uid, path)
         /\ path[1].rv = pos[<<path[1].gvk, path[1].uid[1]>>]
<1>1. path \in Seq(KeyRefs) /\ Len(path) \in Nat /\ Len(path) >= 1
  BY DEF ChainRead
<1>2. ASSUME NEW i \in 1..Len(path)
      PROVE  /\ path[i] \in KeyRefs /\ Has(path[i].gvk, path[i].uid)
             /\ path[i].rv = pos[<<path[i].gvk, path[i].uid[1]>>] /\ StateOf(path[i]) = ObjectAt(path[i])
  <2>1. path[i] \in KeyRefs /\ path[i] \in Range(path) /\ path[i].rv # 0
    BY <1>1 DEF Range, ChainRead
  <2>2. Current(path[i])
    BY <2>1 DEF PathCurrent
  <2> QED
    BY <2>1, <2>2, CurrentVersion, CurrentObject DEF Current, Lookup
<1>3. 1 \in 1..Len(path) /\ Len(path) \in 1..Len(path) /\ \A i \in 2..Len(path) : i - 1 \in 1..Len(path)
  BY <1>1
<1>4. EndsChain(ObjectAt(Last(path)))
  BY <1>2, <1>3 DEF ChainRead, Last
<1>5. ASSUME NEW i \in 2..Len(path)
      PROVE  /\ NamesOwner(ObjectAt(path[i - 1]))
             /\ path[i].gvk = ObjectAt(path[i - 1]).owner.gvk /\ path[i].uid = ObjectAt(path[i - 1]).owner.uid
  BY <1>2, <1>3 DEF ChainRead
<1> QED
  BY <1>1, <1>2, <1>3, <1>4, <1>5 DEF OwnerChain

-------------------------------------------------------------------------------
(* A Pod that is not disturbed stays settled *)

\* Nothing in the cache asks for a job of the Pod.
PodAway(u) == Has(PodGVK, u) => ~PodSelected(Object(PodGVK, u[1])) /\ NoPodResult(u)

PodStill(u) ==
  \/ pos'[<<PodGVK, u[1]>>] = pos[<<PodGVK, u[1]>>]
  \/ PodAway(u) /\ PodAway(u)'

\* A step keeps the chain of a Pod, what its root's selection depends on and,
\* for the Pod's members, what its result depends on.
ChainStill(u) ==
  /\ \A g \in GVKs : SelectedGVK(g, defs'[KindOf[g]]) = SelectedGVK(g, defs[KindOf[g]])
  /\ \A path : Followed(PodGVK, u, path) /\ PodWanted(u) =>
       /\ Followed(PodGVK, u, path)'
       /\ HasRoot(path) /\ ~ObjectSelected(RootState(path)) =>
            HasRoot(path)' /\ ~ObjectSelected(RootState(path))'
       /\ podRoots[u] = Last(path).uid /\ HasRoot(path) =>
            /\ pos'[<<RootVersion(path), Last(path).uid[1]>>] = pos[<<RootVersion(path), Last(path).uid[1]>>]
            /\ defs'[KindOf[Last(path).gvk]] = defs[KindOf[Last(path).gvk]] /\ defErr' = defErr

PodCalm(u) ==
  /\ scenario' = scenario
  /\ PodJob(u) \notin dirty' =>
       /\ PodJob(u) \notin dirty
       /\ PodJob(u) \in DOMAIN job' <=> PodJob(u) \in DOMAIN job
       /\ PodJob(u) \in DOMAIN job => job'[PodJob(u)] = job[PodJob(u)]
       /\ pods'[u] = pods[u] /\ podRoots'[u] = podRoots[u]
       /\ PodStill(u)
       /\ Rescan \notin dirty' => Rescan \notin dirty /\ ChainStill(u)

\* A Pod that a step keeps in place is still wanted or not.
LEMMA StillWanted ==
  ASSUME NEW u, scenario' = scenario, PodStill(u)
  PROVE  /\ PodWanted(u) \/ PodWanted(u)' =>
              /\ pos'[<<PodGVK, u[1]>>] = pos[<<PodGVK, u[1]>>]
              /\ PodWanted(u) /\ PodWanted(u)'
              /\ Object(PodGVK, u[1])' = Object(PodGVK, u[1])
         /\ ~Has(PodGVK, u)' => ~Has(PodGVK, u) \/ NoPodResult(u)
<1>1. CASE pos'[<<PodGVK, u[1]>>] = pos[<<PodGVK, u[1]>>]
  <2>1. Object(PodGVK, u[1])' = Object(PodGVK, u[1])
    BY <1>1 DEF Object, Life, life
  <2> QED
    BY <1>1, <2>1 DEF PodWanted, Has, PodSelected
<1>2. CASE PodAway(u) /\ PodAway(u)'
  BY <1>2 DEF PodAway, PodWanted
<1> QED
  BY <1>1, <1>2 DEF PodStill

\* The root's version stays, and with the position its state.
LEMMA StillVersion ==
  ASSUME NEW u, scenario' = scenario, ChainStill(u), NEW path, Last(path).gvk \in GVKs
  PROVE  /\ RootVersion(path)' = RootVersion(path)
         /\ ResourceSelected(RootVersion(path))' = ResourceSelected(RootVersion(path))
         /\ pos'[<<RootVersion(path), Last(path).uid[1]>>] = pos[<<RootVersion(path), Last(path).uid[1]>>] =>
              RootState(path)' = RootState(path) /\ HasRoot(path)' = HasRoot(path)
<1>1. RootVersion(path)' = RootVersion(path)
  BY DEF ChainStill, RootVersion, Last
<1>2. ResourceSelected(RootVersion(path))' = ResourceSelected(RootVersion(path))
  BY <1>1 DEF ResourceSelected
<1>3. ASSUME pos'[<<RootVersion(path), Last(path).uid[1]>>] = pos[<<RootVersion(path), Last(path).uid[1]>>]
      PROVE  RootState(path)' = RootState(path) /\ HasRoot(path)' = HasRoot(path)
  <2>1. Last(path)' = Last(path)
    BY DEF Last
  <2>2. Object(RootVersion(path), Last(path).uid[1])' = Object(RootVersion(path), Last(path).uid[1])
    BY <1>1, <1>3, <2>1 DEF Object, Life, life
  <2> QED
    BY <1>1, <2>1, <2>2 DEF RootState, HasRoot, Has
<1> QED
  BY <1>1, <1>2, <1>3

\* The root of a chain is an object of its version's kind.
LEMMA ChainRoot ==
  ASSUME DefOK, NEW g, NEW u, NEW path, OwnerChain(g, u, path)
  PROVE  /\ Last(path) \in KeyRefs /\ Last(path).gvk \in GVKs /\ Last(path).uid \in UIDs
         /\ RootVersion(path) \in GVKs
         /\ KindOf[RootVersion(path)] = KindOf[Last(path).gvk]
         /\ KindOf[Last(path).gvk] = KindOfObject[Last(path).uid[1]] /\ KindOf[Last(path).gvk] \in Kinds
         /\ Last(path).uid[1] \in Objects
<1>1. path \in Seq(KeyRefs) /\ path # <<>>
  BY DEF OwnerChain
<1>2. Last(path) \in KeyRefs
  BY <1>1, WalkEnd
<1>3. /\ Last(path).gvk \in GVKs /\ Last(path).uid \in UIDs /\ Last(path).uid[1] \in Objects
      /\ KindOf[Last(path).gvk] = KindOfObject[Last(path).uid[1]] /\ KindOf[Last(path).gvk] \in Kinds
  BY <1>2, ControllerAssumption DEF KeyRefs, Refs, UIDs
<1>4. RootVersion(path) \in GVKs /\ KindOf[RootVersion(path)] = KindOf[Last(path).gvk]
  BY <1>3, SelectedVersion DEF RootVersion, DefOK
<1> QED
  BY <1>2, <1>3, <1>4

\* A Pod that is out of scope stays so.
LEMMA OutOfScopeStays ==
  ASSUME DefOK, NEW u, scenario' = scenario, PodStill(u), ChainStill(u), OutOfScope(u)
  PROVE  OutOfScope(u)'
<1>1. SUFFICES ASSUME PodWanted(u)'
               PROVE  \E path \in Seq(KeyRefs) :
                        /\ Followed(PodGVK, u, path)'
                        /\ ResourceSelected(RootVersion(path))' => HasRoot(path)' /\ ~ObjectSelected(RootState(path))'
  BY DEF OutOfScope
<1>2. PodWanted(u)
  BY <1>1, StillWanted
<1>3. PICK path \in Seq(KeyRefs) :
        /\ Followed(PodGVK, u, path)
        /\ ResourceSelected(RootVersion(path)) => HasRoot(path) /\ ~ObjectSelected(RootState(path))
  BY <1>2 DEF OutOfScope
<1>4. Last(path).gvk \in GVKs
  BY <1>3, ChainRoot DEF Followed
<1>5. ResourceSelected(RootVersion(path))' = ResourceSelected(RootVersion(path))
  BY <1>4, StillVersion
<1>6. /\ Followed(PodGVK, u, path)'
      /\ HasRoot(path) /\ ~ObjectSelected(RootState(path)) =>
           HasRoot(path)' /\ ~ObjectSelected(RootState(path))'
  BY <1>2, <1>3 DEF ChainStill
<1> QED
  BY <1>3, <1>5, <1>6

\* What Store holds for a Pod that is not disturbed stays right.
LEMMA RightPodStays ==
  ASSUME DefOK, NEW u, scenario' = scenario, PodStill(u), ChainStill(u), RightPod(u),
         pods'[u] = pods[u], podRoots'[u] = podRoots[u]
  PROVE  RightPod(u)'
<1>1. CASE OutOfScope(u) /\ NoPodResult(u)
  BY <1>1, OutOfScopeStays DEF RightPod, NoPodResult
<1>2. CASE /\ PodWanted(u)
           /\ \E path \in Seq(KeyRefs) :
                /\ Followed(PodGVK, u, path) /\ podRoots[u] = Last(path).uid /\ HasRoot(path)
                /\ PodOutcomeIsCurrent(u, RootVersion(path), Last(path).uid)
  <2>1. PICK path \in Seq(KeyRefs) :
          /\ Followed(PodGVK, u, path) /\ podRoots[u] = Last(path).uid /\ HasRoot(path)
          /\ PodOutcomeIsCurrent(u, RootVersion(path), Last(path).uid)
    BY <1>2
  <2>2. /\ Last(path).gvk \in GVKs /\ RootVersion(path) \in GVKs
        /\ KindOf[RootVersion(path)] = KindOf[Last(path).gvk]
    BY <2>1, ChainRoot DEF Followed
  <2>3. /\ Followed(PodGVK, u, path)'
        /\ pos'[<<RootVersion(path), Last(path).uid[1]>>] = pos[<<RootVersion(path), Last(path).uid[1]>>]
        /\ defs'[KindOf[RootVersion(path)]] = defs[KindOf[RootVersion(path)]] /\ defErr' = defErr
    BY <1>2, <2>1, <2>2 DEF ChainStill
  <2>4. /\ RootVersion(path)' = RootVersion(path)
        /\ ResourceSelected(RootVersion(path))' = ResourceSelected(RootVersion(path))
        /\ RootState(path)' = RootState(path) /\ HasRoot(path)' = HasRoot(path)
    BY <2>2, <2>3, StillVersion
  <2>5. PodWanted(u)' /\ Object(PodGVK, u[1])' = Object(PodGVK, u[1])
    BY <1>2, StillWanted
  <2>6. Last(path)' = Last(path)
    BY DEF Last
  <2>7. PodOutcomeIsCurrent(u, RootVersion(path), Last(path).uid)'
    <3> DEFINE g == RootVersion(path)
               root == Last(path).uid
    <3>1. DefinitionErr(KindOf[g])' = DefinitionErr(KindOf[g])
      BY <2>3, <2>4 DEF DefinitionErr
    <3>2. Object(g, root[1])' = Object(g, root[1]) /\ CurrentRef(g, root)' = CurrentRef(g, root)
      BY <2>3, <2>4, <2>6 DEF Object, Life, life, CurrentRef, Ref
    <3>3. defs'[KindOf[g']] = defs[KindOf[g]] /\ g' = g /\ root' = root
      BY <2>3, <2>4, <2>6
    <3>4. ResourceSelected(g)' = ResourceSelected(g)
      BY <2>4
    <3> HIDE DEF g, root
    <3>5. PodOutcomeIsCurrent(u, g, root)
      BY <2>1 DEF g, root
    <3>6. PodOutcomeIsCurrent(u, g, root)'
      BY <2>5, <3>1, <3>2, <3>3, <3>4, <3>5 DEF PodOutcomeIsCurrent, ObjectSelected, Origin
    <3> QED
      BY <3>6 DEF g, root
  <2> QED
    BY <2>1, <2>3, <2>4, <2>5, <2>6, <2>7 DEF RightPod
<1> QED
  BY <1>1, <1>2 DEF RightPod

\* A settled Pod that is not disturbed stays settled.
LEMMA CalmStays ==
  ASSUME TypeInv, ReadInv, NEW u \in PodUIDs, SettledPod(u), PodCalm(u)
  PROVE  SettledPod(u)'
<1>0. DefOK
  BY DEF TypeInv
<1>1. SUFFICES ASSUME PodJob(u) \notin dirty'
               PROVE  IF Busy(PodJob(u))' THEN PodLearned(u, job[PodJob(u)])'
                      ELSE /\ ~Has(PodGVK, u)' => NoPodResult(u)'
                           /\ Rescan \notin dirty' => RightPod(u)'
  BY DEF SettledPod, PodJob
<1>2. /\ scenario' = scenario
      /\ Busy(PodJob(u))' <=> Busy(PodJob(u))
      /\ Busy(PodJob(u)) => job'[PodJob(u)] = job[PodJob(u)]
      /\ pods'[u] = pods[u] /\ podRoots'[u] = podRoots[u]
      /\ PodStill(u)
      /\ Rescan \notin dirty' => Rescan \notin dirty /\ ChainStill(u)
  BY <1>1 DEF PodCalm, Busy, PodJob
<1>3. IF Busy(PodJob(u)) THEN PodLearned(u, job[PodJob(u)])
      ELSE /\ ~Has(PodGVK, u) => NoPodResult(u)
           /\ Rescan \notin dirty => RightPod(u)
  BY <1>1 DEF PodCalm, SettledPod
<1>4. CASE Busy(PodJob(u))
  <2>1. PICK local : local = job[PodJob(u)]
    OBVIOUS
  <2>2. PodLearned(u, local) /\ PodRead(u, local) /\ job'[PodJob(u)] = local
    BY <1>2, <1>3, <1>4, <2>1 DEF ReadInv
  <2>3. ASSUME local.pc \in ReadingPod PROVE Last(local.path).gvk \in GVKs
    <3>1. local.path \in Seq(KeyRefs) /\ Len(local.path) >= 1
      BY <2>2, <2>3 DEF PodRead, ReadingPod, ChainRead
    <3>2. local.path # <<>>
      BY <3>1
    <3> QED
      BY <3>1, <3>2, WalkEnd
  <2>4. ASSUME local.pc \in ReadingPod
        PROVE  PodWanted(u)' /\ local.path[1].rv = pos'[<<PodGVK, u[1]>>]
    BY <1>2, <2>2, <2>4, StillWanted DEF PodLearned
  <2>5. ASSUME Rescan \notin dirty', local.pc = "unregister" PROVE OutOfScope(u)'
    BY <1>0, <1>2, <2>2, <2>5, OutOfScopeStays DEF PodLearned
  <2>6. ASSUME Rescan \notin dirty', local.pc \in ReadingPod
        PROVE  SelectedGVK(Last(local.path).gvk, local.def) = RootVersion(local.path)'
    BY <1>2, <2>2, <2>3, <2>6, StillVersion DEF PodLearned
  <2>7. ASSUME Rescan \notin dirty', local.pc \in {"readRoot", "publish", "failEvaluation"}
        PROVE  Followed(PodGVK, u, local.path)' /\ podRoots'[u] = Last(local.path).uid
    BY <1>2, <2>2, <2>7 DEF PodLearned, ChainStill, ReadingPod
  <2>8. PodLearned(u, local)'
    BY <2>4, <2>5, <2>6, <2>7 DEF PodLearned, Last, Rescan
  <2> QED
    BY <1>2, <1>4, <2>2, <2>8
<1>5. CASE ~Busy(PodJob(u))
  <2>1. ~Has(PodGVK, u)' => NoPodResult(u)'
    BY <1>2, <1>3, <1>5, StillWanted DEF NoPodResult
  <2>2. Rescan \notin dirty' => RightPod(u)'
    BY <1>0, <1>2, <1>3, <1>5, RightPodStays
  <2> QED
    BY <1>2, <1>5, <2>1, <2>2
<1> QED
  BY <1>2, <1>4, <1>5

-------------------------------------------------------------------------------
(* Events and lists queue the Pods they concern *)

\* A change of the Pod that does not queue it is no concern of its.
LEMMA EventKeepsPod ==
  ASSUME NEW u \in PodUIDs, UNCHANGED <<pods, podRoots>>, PodJob(u) \notin dirty',
         EnqueuePod(PodGVK, u[1], Object(PodGVK, u[1])) \subseteq dirty',
         NEW new, new = Object(PodGVK, u[1])', EnqueuePod(PodGVK, u[1], new) \subseteq dirty'
  PROVE  PodStill(u)
<1>1. \A s : /\ s # None /\ s.inc = u[2]
             /\ PodSelected(s) \/ ~NoPodResult(u)
             => PodJob(u) \in EnqueuePod(PodGVK, u[1], s)
  <2> SUFFICES ASSUME NEW s, s # None, s.inc = u[2], PodSelected(s) \/ ~NoPodResult(u)
               PROVE  PodJob(u) \in EnqueuePod(PodGVK, u[1], s)
    OBVIOUS
  <2>1. u = <<u[1], s.inc>>
    BY DEF PodUIDs, UIDs
  <2> QED
    BY <2>1 DEF EnqueuePod, NoPodResult
<1>2. PodAway(u)
  BY <1>1 DEF PodAway, Has
<1>3. PodAway(u)'
  <2>1. new # None /\ new.inc = u[2] => ~PodSelected(new) /\ NoPodResult(u)
    BY <1>1
  <2>2. Has(PodGVK, u)' => new # None /\ new.inc = u[2]
    BY DEF Has
  <2>3. PodSelected(Object(PodGVK, u[1]))' = PodSelected(new) /\ NoPodResult(u)' = NoPodResult(u)
    BY DEF PodSelected, NoPodResult
  <2> QED
    BY <2>1, <2>2, <2>3 DEF PodAway
<1> QED
  BY <1>2, <1>3 DEF PodStill

\* queueObjectChange queues the Pods of the root whose object changes or goes.
LEMMA AffectedMember ==
  ASSUME MembershipMirror, NEW u \in PodUIDs, NEW r \in UIDs, podRoots[u] = r,
         NEW g, NEW old, NEW new, old # None, old.inc = r[2]
  PROVE  PodJob(u) \in Affected(g, r[1], old, new)
<1>1. r = <<r[1], old.inc>> /\ roots[r] # None /\ u \in roots[r].pods
  BY DEF UIDs, MembershipMirror
<1>2. CASE Replaced(old, new)
  BY <1>1, <1>2 DEF Affected, EnqueueRootAndMembers, EnqueueMembers
<1>3. CASE ~Replaced(old, new)
  <2>1. new # None /\ r = <<r[1], new.inc>>
    BY <1>1, <1>3 DEF Replaced
  <2> QED
    BY <1>1, <2>1 DEF Affected
<1> QED
  BY <1>2, <1>3

\* An event that queues no rescan keeps every chain whose first object keeps its
\* owner: the other objects on it keep theirs.
LEMMA EventKeepsChain ==
  ASSUME TypeInv, PodsHaveOneVersion, NEW g \in GVKs, NEW o \in Objects, WatchEvent(g, o),
         Rescan \notin dirty', NEW h, NEW u, NEW path, Followed(h, u, path),
         NEW old, old = Object(g, o), NEW new, new = life[o][pos[<<g, o>>] + 1],
         <<h, u[1]>> = <<g, o>> => ~OwnershipChanged(old, new)
  PROVE  /\ Followed(h, u, path)'
         /\ \A i \in 1..Len(path) :
              <<path[i].gvk, path[i].uid[1]>> = <<g, o>> => ~OwnershipChanged(old, new)
<1> DEFINE k == <<g, o>>
<1>0. EnvOK /\ PosOK
  BY DEF TypeInv
<1>1. /\ scenario' = scenario
      /\ dirty' = dirty \cup Affected(g, o, old, new)
      /\ KindOfObject[o] = KindOf[g] /\ k \in Keys
      /\ ancestorPods' = IF Replaced(old, new) THEN ancestorPods \ {<<o, old.inc>>} ELSE ancestorPods
  BY DEF WatchEvent, environmentVars, Keys
<1>2. /\ Object(g, o)' = new
      /\ \A x \in Keys : x # k => pos'[x] = pos[x]
  <2>1. pos'[k] = pos[k] + 1 /\ pos[k] \in Nat /\ \A x \in Keys : x # k => pos'[x] = pos[x]
    BY <1>0, <1>1 DEF WatchEvent, PosOK
  <2> QED
    BY <1>1, <2>1 DEF Object, Life, life
<1> HIDE DEF k
<1>6. /\ path \in Seq(KeyRefs) /\ Len(path) \in 1..Len(path) /\ Len(path) >= 1 /\ Len(path) \in Nat
      /\ \A i \in 1..Len(path) : path[i] \in KeyRefs
  BY DEF Followed, OwnerChain
<1>7. ASSUME NEW i \in 1..Len(path), <<path[i].gvk, path[i].uid[1]>> = k
      PROVE  old = ObjectAt(path[i]) /\ ~OwnershipChanged(old, new)
  <2>1. g = path[i].gvk /\ o = path[i].uid[1] /\ old = ObjectAt(path[i])
    BY <1>7 DEF k, ObjectAt
  <2>2. Has(path[i].gvk, path[i].uid) /\ path[i].uid \in UIDs
    BY <1>6 DEF Followed, OwnerChain, KeyRefs, Refs
  <2>3. old # None /\ path[i].uid = <<o, old.inc>>
    BY <2>1, <2>2 DEF Has, UIDs
  <2>4. CASE i = 1
    <3>1. path[1].gvk = h /\ path[1].uid = u
      BY DEF Followed, OwnerChain
    <3> QED
      BY <2>1, <2>4, <3>1
  <2>5. CASE i # 1
    <3>1. i \in 2..Len(path)
      BY <1>6, <2>5
    <3>2. g = PodGVK => path[i].uid \in PathPods(path)
      BY <2>1, <3>1 DEF PathPods
    <3>3. g # PodGVK \/ \E s \in {old, new} \ {None} : <<o, s.inc>> \in ancestorPods
      BY <2>3, <3>2 DEF Followed
    <3>4. OwnershipChanged(old, new) => Rescan \in Affected(g, o, old, new)
      BY <3>3 DEF Affected
    <3> QED
      BY <1>1, <2>1, <3>4
  <2> QED
    BY <2>4, <2>5
<1>8. ASSUME NEW i \in 1..Len(path)
      PROVE  /\ Has(path[i].gvk, path[i].uid)'
             /\ ObjectAt(path[i])'.owner = ObjectAt(path[i]).owner
  <2>1. /\ Has(path[i].gvk, path[i].uid) /\ <<path[i].gvk, path[i].uid[1]>> \in Keys
    BY <1>6 DEF Followed, OwnerChain, KeyRefs, Refs, Keys, UIDs
  <2>2. CASE <<path[i].gvk, path[i].uid[1]>> # k
    <3>1. Object(path[i].gvk, path[i].uid[1])' = Object(path[i].gvk, path[i].uid[1])
      BY <1>1, <1>2, <2>1, <2>2 DEF Object, Life, life
    <3> QED
      BY <2>1, <3>1 DEF Has, ObjectAt
  <2>3. CASE <<path[i].gvk, path[i].uid[1]>> = k
    <3>1. g = path[i].gvk /\ o = path[i].uid[1]
      BY <2>3 DEF k
    <3>2. Object(path[i].gvk, path[i].uid[1])' = new
      BY <1>2, <3>1
    <3>3. new # None /\ new.inc = old.inc /\ new.owner = old.owner /\ old = ObjectAt(path[i])
      BY <1>7, <2>3 DEF OwnershipChanged
    <3> QED
      BY <2>1, <3>1, <3>2, <3>3 DEF Has, ObjectAt
  <2> QED
    BY <2>2, <2>3
<1>9. Followed(h, u, path)'
  <2>1. OwnerChain(h, u, path)'
    <3>1. \A i \in 1..Len(path) : \A s, t : s.owner = t.owner => (NamesOwner(s) <=> NamesOwner(t)) /\ (EndsChain(s) <=> EndsChain(t))
      BY DEF NamesOwner, EndsChain
    <3>2. ASSUME NEW i \in 2..Len(path)
          PROVE  /\ NamesOwner(ObjectAt(path[i - 1]))'
                 /\ path[i].gvk = ObjectAt(path[i - 1])'.owner.gvk /\ path[i].uid = ObjectAt(path[i - 1])'.owner.uid
      <4>1. i - 1 \in 1..Len(path)
        BY <1>6
      <4>2. /\ NamesOwner(ObjectAt(path[i - 1]))
            /\ path[i].gvk = ObjectAt(path[i - 1]).owner.gvk /\ path[i].uid = ObjectAt(path[i - 1]).owner.uid
        BY DEF Followed, OwnerChain
      <4> QED
        BY <1>8, <4>1, <4>2 DEF NamesOwner, EndsChain
    <3>3. EndsChain(ObjectAt(Last(path)))'
      <4>1. EndsChain(ObjectAt(path[Len(path)])) /\ ObjectAt(path[Len(path)])'.owner = ObjectAt(path[Len(path)]).owner
        BY <1>6, <1>8 DEF Followed, OwnerChain, Last
      <4> QED
        BY <4>1 DEF EndsChain, Last
    <3> QED
      BY <1>8, <3>2, <3>3 DEF Followed, OwnerChain
  <2>2. PathPods(path) \subseteq ancestorPods'
    <3> SUFFICES ASSUME NEW p \in PathPods(path), p \notin ancestorPods' PROVE FALSE
      OBVIOUS
    <3>1. PICK i \in 2..Len(path) : path[i].gvk = PodGVK /\ path[i].uid = p
      BY DEF PathPods
    <3>2. p \in ancestorPods /\ Replaced(old, new) /\ p = <<o, old.inc>>
      BY <1>1 DEF Followed
    <3>3. i \in 1..Len(path) /\ path[i] \in KeyRefs
      BY <1>6
    <3>4. KindOf[PodGVK] = KindOf[g]
      BY <1>1, <3>1, <3>2, <3>3 DEF KeyRefs
    <3>5. <<path[i].gvk, path[i].uid[1]>> = k
      BY <3>1, <3>2, <3>4 DEF PodsHaveOneVersion, k
    <3>6. ~OwnershipChanged(old, new)
      BY <1>7, <3>3, <3>5
    <3> QED
      BY <3>2, <3>6 DEF OwnershipChanged, Replaced
  <2> QED
    BY <2>1, <2>2 DEF Followed, PathPods
<1> QED
  BY <1>7, <1>9 DEF k

\* An event: one object has a new state.
LEMMA WatchEventCalm ==
  ASSUME TypeInv, MembershipMirror, PodsHaveOneVersion, NEW u \in PodUIDs,
         NEW g \in GVKs, NEW o \in Objects, WatchEvent(g, o)
  PROVE  PodCalm(u)
<1> DEFINE k == <<g, o>>
           old == Object(g, o)
           new == life[o][pos[k] + 1]
<1>0. EnvOK /\ PosOK /\ MemberOK /\ DefOK
  BY DEF TypeInv
<1>1. /\ UNCHANGED <<roots, podRoots, defs, defErr, scenario, pods, job>> /\ dirty \subseteq dirty'
      /\ dirty' = dirty \cup Affected(g, o, old, new)
      /\ KindOfObject[o] = KindOf[g] /\ k \in Keys
      /\ ancestorPods' = IF Replaced(old, new) THEN ancestorPods \ {<<o, old.inc>>} ELSE ancestorPods
  BY DEF WatchEvent, membershipVars, storeVars, definitionVars, environmentVars, Keys
<1>2. /\ pos'[k] = pos[k] + 1 /\ pos[k] \in Nat /\ Object(g, o)' = new
      /\ \A x \in Keys : x # k => pos'[x] = pos[x]
  <2>1. pos'[k] = pos[k] + 1 /\ pos[k] \in Nat /\ \A x \in Keys : x # k => pos'[x] = pos[x]
    BY <1>0, <1>1 DEF WatchEvent, PosOK
  <2> QED
    BY <1>1, <2>1 DEF Object, Life, life
<1>3. SUFFICES ASSUME PodJob(u) \notin dirty' PROVE PodStill(u) /\ (Rescan \notin dirty' => ChainStill(u))
  BY <1>1 DEF PodCalm
<1> HIDE DEF k, new
<1>4. PodStill(u)
  <2>0. u[1] \in Objects /\ <<PodGVK, u[1]>> \in Keys
    BY PodKeyType DEF SelectedKeys, Keys, UIDs
  <2>1. CASE <<PodGVK, u[1]>> = k
    <3>1. g = PodGVK /\ o = u[1]
      BY <2>1 DEF k
    <3>2. EnqueuePod(PodGVK, u[1], Object(PodGVK, u[1])) \subseteq dirty'
            /\ EnqueuePod(PodGVK, u[1], new) \subseteq dirty'
      BY <1>1, <3>1 DEF Affected
    <3> QED
      BY <1>1, <1>2, <1>3, <3>1, <3>2, EventKeepsPod
  <2>2. CASE <<PodGVK, u[1]>> # k
    BY <1>2, <2>0, <2>2 DEF PodStill
  <2> QED
    BY <2>1, <2>2
<1>5. SUFFICES ASSUME Rescan \notin dirty', NEW path, Followed(PodGVK, u, path), PodWanted(u)
      PROVE  /\ Followed(PodGVK, u, path)'
             /\ HasRoot(path) /\ ~ObjectSelected(RootState(path)) =>
                  HasRoot(path)' /\ ~ObjectSelected(RootState(path))'
             /\ podRoots[u] = Last(path).uid /\ HasRoot(path) =>
                  pos'[<<RootVersion(path), Last(path).uid[1]>>] = pos[<<RootVersion(path), Last(path).uid[1]>>]
  BY <1>1, <1>4 DEF ChainStill
<1>6. /\ path \in Seq(KeyRefs) /\ Len(path) \in 1..Len(path)
  BY <1>5 DEF Followed, OwnerChain
<1>7. <<PodGVK, u[1]>> # <<g, o>>
  <2>1. pos'[<<PodGVK, u[1]>>] = pos[<<PodGVK, u[1]>>]
    BY <1>1, <1>4, <1>5, StillWanted
  <2> QED
    BY <1>2, <2>1 DEF k
<1>8. new = life[o][pos[<<g, o>>] + 1]
  BY DEF new, k
<1>9. /\ Followed(PodGVK, u, path)'
      /\ \A i \in 1..Len(path) : <<path[i].gvk, path[i].uid[1]>> = k => ~OwnershipChanged(old, new)
  BY <1>5, <1>7, <1>8, EventKeepsChain DEF k
<1>10. /\ RootVersion(path) \in GVKs /\ KindOf[RootVersion(path)] = KindOf[Last(path).gvk]
       /\ KindOf[Last(path).gvk] = KindOfObject[Last(path).uid[1]] /\ Last(path).uid[1] \in Objects
       /\ Last(path).uid \in UIDs /\ Last(path).gvk \in GVKs
       /\ <<RootVersion(path), Last(path).uid[1]>> \in Keys
  BY <1>0, <1>5, ChainRoot DEF Followed, Keys
<1>11. ASSUME <<RootVersion(path), Last(path).uid[1]>> # k
       PROVE  /\ pos'[<<RootVersion(path), Last(path).uid[1]>>] = pos[<<RootVersion(path), Last(path).uid[1]>>]
              /\ RootState(path)' = RootState(path) /\ HasRoot(path)' = HasRoot(path)
  <2>1. pos'[<<RootVersion(path), Last(path).uid[1]>>] = pos[<<RootVersion(path), Last(path).uid[1]>>]
    BY <1>2, <1>10, <1>11
  <2>2. RootVersion(path)' = RootVersion(path) /\ Last(path)' = Last(path)
    BY <1>1 DEF RootVersion, Last
  <2>3. Object(RootVersion(path), Last(path).uid[1])' = Object(RootVersion(path), Last(path).uid[1])
    BY <1>1, <2>1, <2>2 DEF Object, Life, life
  <2> QED
    BY <2>1, <2>2, <2>3 DEF RootState, HasRoot, Has
<1>12. ASSUME <<RootVersion(path), Last(path).uid[1]>> = k, HasRoot(path)
       PROVE  /\ ~ObjectSelected(RootState(path)) => HasRoot(path)' /\ ~ObjectSelected(RootState(path))'
              /\ podRoots[u] # Last(path).uid
  <2>1. RootVersion(path) = g /\ Last(path).uid[1] = o /\ RootState(path) = old
    BY <1>12 DEF k, RootState
  <2>2. old # None /\ old.inc = Last(path).uid[2] /\ Last(path).uid = <<o, old.inc>>
    BY <1>10, <1>12, <2>1 DEF HasRoot, Has, UIDs
  <2>3. ~OwnershipChanged(old, new)
    <3>1. CASE g = PodGVK
      <4>1. Last(path).gvk = PodGVK
        BY <1>10, <2>1, <3>1 DEF PodsHaveOneVersion
      <4>2. <<path[Len(path)].gvk, path[Len(path)].uid[1]>> = k
        BY <2>1, <3>1, <4>1 DEF k, Last
      <4> QED
        BY <1>6, <1>9, <4>2
    <3>2. CASE g # PodGVK
      <4>1. OwnershipChanged(old, new) => Rescan \in Affected(g, o, old, new)
        BY <3>2 DEF Affected
      <4> QED
        BY <1>1, <1>5, <3>2, <4>1
    <3> QED
      BY <3>1, <3>2
  <2>4. new # None /\ new.inc = old.inc
    BY <2>3 DEF OwnershipChanged
  <2>5. ObjectSelected(old) <=> ObjectSelected(new)
    <3>1. ObjectSelected(old) # ObjectSelected(new) => Rescan \in Affected(g, o, old, new)
      BY <2>2, <2>4 DEF Affected
    <3>2. ObjectSelected(old) \in BOOLEAN /\ ObjectSelected(new) \in BOOLEAN
      BY DEF ObjectSelected
    <3> QED
      BY <1>1, <1>5, <3>1, <3>2
  <2>6. /\ RootVersion(path)' = g /\ Last(path)' = Last(path)
    BY <1>1, <2>1 DEF RootVersion, Last
  <2>7. Object(RootVersion(path), Last(path).uid[1])' = new
    BY <1>2, <2>1, <2>6
  <2>8. HasRoot(path)' /\ RootState(path)' = new
    BY <2>2, <2>4, <2>6, <2>7 DEF HasRoot, Has, RootState
  <2>9. podRoots[u] # Last(path).uid
    <3> SUFFICES ASSUME podRoots[u] = Last(path).uid PROVE FALSE
      OBVIOUS
    <3>1. PodJob(u) \in Affected(g, Last(path).uid[1], old, new)
      BY <1>10, <2>2, AffectedMember
    <3> QED
      BY <1>1, <1>3, <2>1, <3>1
  <2> QED
    BY <2>1, <2>5, <2>8, <2>9 DEF ObjectSelected
<1> QED
  BY <1>9, <1>11, <1>12 DEF ObjectSelected

\* A chain is kept while no object changes.
LEMMA ChainUnmoved ==
  ASSUME UNCHANGED <<scenario, pos>>, ancestorPods \subseteq ancestorPods',
         NEW g, NEW u, NEW path, Followed(g, u, path)
  PROVE  Followed(g, u, path)'
<1>1. \A h, o : Object(h, o)' = Object(h, o)
  BY DEF Object, Life, life
<1>2. OwnerChain(g, u, path)'
  BY <1>1 DEF Followed, OwnerChain, ObjectAt, Has, Last, NamesOwner, EndsChain
<1> QED
  BY <1>2 DEF Followed, PathPods

\* A chain is kept while no object changes and the definitions that change are
\* of the same versions and of other roots.
LEMMA ChainKept ==
  ASSUME DefOK, NEW u, UNCHANGED <<scenario, pos>>, ancestorPods \subseteq ancestorPods',
         \A g \in GVKs : SelectedGVK(g, defs'[KindOf[g]]) = SelectedGVK(g, defs[KindOf[g]]),
         \A path : Followed(PodGVK, u, path) /\ PodWanted(u) /\ podRoots[u] = Last(path).uid =>
           defs'[KindOf[Last(path).gvk]] = defs[KindOf[Last(path).gvk]] /\ defErr' = defErr
  PROVE  ChainStill(u)
<1>1. \A g, o : Object(g, o)' = Object(g, o)
  BY DEF Object, Life, life
<1>2. ASSUME NEW path, Followed(PodGVK, u, path)
      PROVE  Followed(PodGVK, u, path)' /\ HasRoot(path)' = HasRoot(path) /\ RootState(path)' = RootState(path)
  <2>1. Followed(PodGVK, u, path)'
    BY <1>2, ChainUnmoved
  <2>2. Last(path).gvk \in GVKs
    BY <1>2, ChainRoot DEF Followed
  <2>3. RootVersion(path)' = RootVersion(path) /\ Last(path)' = Last(path)
    BY <2>2 DEF RootVersion, Last
  <2> QED
    BY <1>1, <2>1, <2>3 DEF HasRoot, Has, RootState
<1> QED
  BY <1>2 DEF ChainStill, ObjectSelected

\* A step that changes nothing a Pod depends on leaves it in place.
LEMMA QuietCalm ==
  ASSUME DefOK, NEW u, UNCHANGED <<scenario, job, pods, podRoots, pos, dirty, defs, defErr, ancestorPods>>
  PROVE  PodCalm(u)
<1>1. ChainStill(u)
  BY ChainKept
<1> QED
  BY <1>1 DEF PodCalm, PodStill

\* Events, lists and watch failures leave the Pods they do not queue in place.
LEMMA WatchingCalm ==
  ASSUME TypeInv, MembershipMirror, PodsHaveOneVersion, Watching, NEW u \in PodUIDs
  PROVE  PodCalm(u)
<1>0. EnvOK /\ PosOK /\ DefOK
  BY DEF TypeInv
<1>1. PICK g \in GVKs :
        \/ \E o \in Objects : WatchEvent(g, o)
        \/ Listing(g)
        \/ \E slot \in Slots :
             \/ \E listing \in BOOLEAN : WatchStarts(g, slot, listing)
             \/ \E err \in WatchErrors : WatchFails(g, slot, err)
  BY DEF Watching
<1>2. CASE \E o \in Objects : WatchEvent(g, o)
  BY <1>2, WatchEventCalm
<1>3. CASE Listing(g)
  <2>1. PICK slot \in Slots, at \in Positions(g) : Replace(g, slot, at)
    BY <1>3 DEF Listing
  <2> DEFINE same == {o \in Objects : KindOfObject[o] = KindOf[g]}
             seen == {p \in same : Object(g, p) # None \/ life[p][at[p]] # None}
             affected == UNION {Affected(g, o, Object(g, o), life[o][at[o]]) : o \in seen}
  <2>2. /\ UNCHANGED <<scenario, job, pods, podRoots>>
        /\ dirty \cup {Rescan} \cup affected \subseteq dirty'
        /\ pos' = [x \in Keys |-> IF x[1] = g THEN at[x[2]] ELSE pos[x]]
    BY <2>1, Zenon DEF Replace, environmentVars, storeVars
  <2>3. SUFFICES ASSUME PodJob(u) \notin dirty' PROVE PodStill(u)
    BY <2>2 DEF PodCalm
  <2>4. u[1] \in Objects /\ <<PodGVK, u[1]>> \in Keys /\ KindOfObject[u[1]] = KindOf[PodGVK]
    BY PodKeyType DEF SelectedKeys, Keys, UIDs
  <2>5. CASE g # PodGVK
    BY <2>2, <2>4, <2>5 DEF PodStill
  <2>6. CASE g = PodGVK
    <3> DEFINE old == Object(PodGVK, u[1])
               new == life[u[1]][at[u[1]]]
    <3>1. Object(PodGVK, u[1])' = new
      <4>1. u[1] \in same /\ at[u[1]] # 0
        BY <2>1, <2>4, <2>6 DEF Positions
      <4>2. pos'[<<PodGVK, u[1]>>] = at[u[1]]
        BY <2>2, <2>4, <2>6
      <4> QED
        BY <2>2, <4>1, <4>2 DEF Object, Life, life
    <3>2. CASE u[1] \in seen
      <4>1. Affected(g, u[1], Object(g, u[1]), life[u[1]][at[u[1]]]) \subseteq affected
        <5> HIDE DEF seen
        <5> QED
          BY <3>2, Zenon
      <4>2. EnqueuePod(PodGVK, u[1], old) \cup EnqueuePod(PodGVK, u[1], new) \subseteq affected
        <5> HIDE DEF affected, seen
        <5> QED
          BY <2>6, <4>1 DEF Affected
      <4> HIDE DEF affected, seen, new
      <4> QED
        BY <2>2, <2>3, <3>1, <4>2, EventKeepsPod
    <3>3. CASE u[1] \notin seen
      <4>1. old = None /\ new = None
        BY <2>4, <2>6, <3>3
      <4> HIDE DEF new
      <4> QED
        BY <3>1, <4>1 DEF PodStill, PodAway, Has
    <3> QED
      BY <3>2, <3>3
  <2> QED
    BY <2>5, <2>6
<1>4. CASE \E slot \in Slots, listing \in BOOLEAN : WatchStarts(g, slot, listing)
  <2>1. UNCHANGED <<scenario, job, pods, podRoots, pos>> /\ dirty \cup {Rescan} \subseteq dirty'
    BY <1>4 DEF WatchStarts, environmentVars, membershipVars, storeVars, RecoveryWork
  <2> QED
    BY <2>1 DEF PodCalm, PodStill
<1>5. CASE \E slot \in Slots, err \in WatchErrors : WatchFails(g, slot, err)
  <2>1. UNCHANGED <<scenario, job, pods, podRoots, pos, dirty, definitionVars, ancestorPods>>
    BY <1>5 DEF WatchFails, membershipVars, storeVars
  <2> QED
    BY <1>0, <2>1, QuietCalm DEF definitionVars
<1> QED
  BY <1>1, <1>2, <1>3, <1>4, <1>5

\* While the health of the definitions stays, the versions they select do too.
LEMMA RefreshKeepsVersions ==
  ASSUME TypeInv, DefsCommitted, SteadyVersions(scenario), RefreshDefinitions, Rescan \notin dirty'
  PROVE  /\ defErr' = defErr
         /\ \A g \in GVKs : SelectedGVK(g, defs'[KindOf[g]]) = SelectedGVK(g, defs[KindOf[g]])
<1> DEFINE next == IF inventory.err # "none" THEN defs ELSE inventory.defs
           healthChanged == defErr # inventory.err
<1>1. /\ defs' = next /\ defErr' = inventory.err
      /\ healthChanged => Rescan \in dirty'
  BY Zenon DEF RefreshDefinitions
<1>2. ~healthChanged /\ defErr' = defErr
  BY <1>1
<1>3. ASSUME NEW g \in GVKs
      PROVE  SelectedGVK(g, defs'[KindOf[g]]) = SelectedGVK(g, defs[KindOf[g]])
  <2>1. CASE inventory.err # "none"
    BY <1>1, <2>1
  <2>2. CASE inventory.err = "none"
    <3>1. PICK a \in scenario.snapshots : a.err = "none" /\ defs = a.defs
      BY <1>2, <2>2 DEF DefsCommitted
    <3>2. inventory \in scenario.snapshots /\ defs' = inventory.defs
      BY <1>1, <2>2 DEF TypeInv, EnvOK
    <3> QED
      BY <2>2, <3>1, <3>2 DEF SteadyVersions
  <2> QED
    BY <2>1, <2>2
<1> QED
  BY <1>2, <1>3

\* refreshDefinitions queues the Pods whose root's kind has another definition.
LEMMA RefreshCalm ==
  ASSUME TypeInv, DefsCommitted, SteadyVersions(scenario), RefreshDefinitions, NEW u \in PodUIDs
  PROVE  PodCalm(u)
<1> DEFINE next == IF inventory.err # "none" THEN defs ELSE inventory.defs
           healthChanged == defErr # inventory.err
           changed == {kind \in Kinds : ~SameDefinition(defs[kind], next[kind])}
           concerned == {x \in Cached(PodGVK) : LET root == podRoots[<<x, Object(PodGVK, x).inc>>]
                                                IN  root = None \/ KindOfObject[root[1]] \in changed}
           work == UNION {EnqueuePod(PodGVK, o, Object(PodGVK, o)) : o \in concerned}
<1>0. EnvOK /\ DefOK /\ MemberOK
  BY DEF TypeInv
<1>1. /\ UNCHANGED <<scenario, pos, job, pods, podRoots, ancestorPods>> /\ dirty \subseteq dirty'
      /\ defs' = next /\ defErr' = inventory.err
      /\ healthChanged => Rescan \in dirty'
      /\ ~healthChanged /\ changed # {} => DefinitionWork(next, changed) \subseteq dirty'
  BY Zenon DEF RefreshDefinitions, environmentVars, membershipVars, storeVars
<1>2. ~healthChanged /\ changed # {} => work \subseteq dirty'
  <2>1. work \subseteq DefinitionWork(next, changed)
    BY Zenon DEF DefinitionWork
  <2> HIDE DEF work, next, changed
  <2> QED
    BY <1>1, <2>1
<1>3. SUFFICES ASSUME PodJob(u) \notin dirty', Rescan \notin dirty' PROVE ChainStill(u)
  <2> HIDE DEF next, changed, work
  <2> QED
    BY <1>1 DEF PodCalm, PodStill
<1>4. ~healthChanged /\ defErr' = defErr
  BY <1>1, <1>3
<1>5. \A g \in GVKs : SelectedGVK(g, defs'[KindOf[g]]) = SelectedGVK(g, defs[KindOf[g]])
  BY <1>3, RefreshKeepsVersions
<1>6. ASSUME NEW path, Followed(PodGVK, u, path), PodWanted(u), podRoots[u] = Last(path).uid
      PROVE  defs'[KindOf[Last(path).gvk]] = defs[KindOf[Last(path).gvk]]
  <2> DEFINE kind == KindOf[Last(path).gvk]
  <2>1. kind \in Kinds /\ kind = KindOfObject[podRoots[u][1]]
    BY <1>0, <1>6, ChainRoot DEF Followed
  <2>2. CASE kind \in changed
    <3>1. /\ u[1] \in Objects /\ KindOfObject[u[1]] = KindOf[PodGVK]
          /\ Object(PodGVK, u[1]) # None /\ u = <<u[1], Object(PodGVK, u[1]).inc>>
      BY <1>6 DEF PodWanted, Has, PodUIDs, UIDs
    <3>2. u[1] \in concerned
      BY <2>1, <2>2, <3>1 DEF Cached
    <3>3. PodJob(u) \in EnqueuePod(PodGVK, u[1], Object(PodGVK, u[1]))
      BY <1>6, <3>1 DEF EnqueuePod, PodWanted
    <3>4. PodJob(u) \in work
      <4> HIDE DEF concerned
      <4> QED
        BY <3>2, <3>3, Zenon
    <3> HIDE DEF work
    <3> QED
      BY <1>2, <1>3, <1>4, <2>2, <3>4
  <2>3. CASE kind \notin changed
    BY <1>1, <2>1, <2>3 DEF SameDefinition
  <2> QED
    BY <2>2, <2>3
<1> HIDE DEF next
<1> QED
  BY <1>0, <1>1, <1>4, <1>5, <1>6, ChainKept

\* The sources worker, and what happens outside.
LEMMA SyncingCalm ==
  ASSUME TypeInv, DefsCommitted, SteadyVersions(scenario), Syncing \/ External, NEW u \in PodUIDs
  PROVE  PodCalm(u)
<1>1. CASE RefreshDefinitions
  BY <1>1, RefreshCalm
<1>2. CASE ~RefreshDefinitions
  <2>1. UNCHANGED <<scenario, job, pods, podRoots, pos, dirty, defs, defErr, ancestorPods>>
    BY <1>2 DEF Syncing, External, SyncWatch, SyncReturns, InventoryChanges, Install, definitionVars,
                membershipVars, storeVars, environmentVars
  <2> QED
    BY <2>1, QuietCalm DEF TypeInv
<1> QED
  BY <1>1, <1>2

\* After requeueScope, what is not queued is a Pod that nobody wants.
LEMMA RequeueScopeSettles ==
  ASSUME TypeInv, RequeueScope, NEW u \in PodUIDs, SettledPod(u)
  PROVE  SettledPod(u)'
<1> DEFINE cached == {y \in Keys : Object(y[1], y[2]) # None}
           work == UNION {EnqueueObject(defs, x[1], x[2]) : x \in cached}
<1>1. /\ UNCHANGED <<scenario, pos, job, pods, podRoots>>
      /\ work \subseteq dirty' /\ dirty \ {Rescan} \subseteq dirty'
  BY Zenon DEF RequeueScope, environmentVars, membershipVars, storeVars
<1>2. SUFFICES ASSUME PodJob(u) \notin dirty'
               PROVE  IF Busy(PodJob(u))' THEN PodLearned(u, job[PodJob(u)])'
                      ELSE (~Has(PodGVK, u)' => NoPodResult(u)') /\ RightPod(u)'
  BY DEF SettledPod, PodJob
<1>3. PodJob(u) \notin dirty
  <2>1. PodJob(u) # Rescan
    BY DEF PodJob, Rescan
  <2> QED
    BY <1>1, <1>2, <2>1
<1>4. Has(PodGVK, u) => ~PodSelected(Object(PodGVK, u[1])) /\ NoPodResult(u)
  <2> SUFFICES ASSUME Has(PodGVK, u), PodSelected(Object(PodGVK, u[1])) \/ ~NoPodResult(u) PROVE FALSE
    OBVIOUS
  <2>1. /\ Object(PodGVK, u[1]) # None /\ u = <<u[1], Object(PodGVK, u[1]).inc>>
        /\ <<PodGVK, u[1]>> \in Keys
    <3>1. Object(PodGVK, u[1]) # None /\ u = <<u[1], Object(PodGVK, u[1]).inc>>
      BY DEF Has, PodUIDs, UIDs
    <3>2. <<PodGVK, u[1]>> \in Keys
      BY PodKeyType DEF UIDs, SelectedKeys, Keys
    <3> QED
      BY <3>1, <3>2
  <2>2. PodJob(u) \in EnqueuePod(PodGVK, u[1], Object(PodGVK, u[1]))
    BY <2>1 DEF EnqueuePod, NoPodResult
  <2>3. PodJob(u) \in EnqueueObject(defs, <<PodGVK, u[1]>>[1], <<PodGVK, u[1]>>[2])
    BY <2>2 DEF EnqueueObject
  <2>4. <<PodGVK, u[1]>> \in cached
    BY <2>1
  <2>5. PodJob(u) \in work
    <3> HIDE DEF cached
    <3> QED
      BY <2>3, <2>4, Zenon
  <2> HIDE DEF work
  <2> QED
    BY <1>1, <1>2, <2>5
<1> HIDE DEF work
<1>5. Object(PodGVK, u[1])' = Object(PodGVK, u[1])
  BY <1>1 DEF Object, Life, life
<1>6. ~PodWanted(u) /\ ~PodWanted(u)'
  BY <1>4, <1>5 DEF PodWanted, Has, PodSelected
<1>7. CASE Busy(PodJob(u))
  <2>1. PICK local : local = job[PodJob(u)]
    OBVIOUS
  <2>2. PodLearned(u, local) /\ job'[PodJob(u)] = local
    BY <1>1, <1>3, <1>7, <2>1 DEF SettledPod
  <2>3. local.pc \notin ReadingPod
    BY <1>6, <2>2 DEF PodLearned
  <2>4. PodLearned(u, local)'
    BY <1>6, <2>3 DEF PodLearned, OutOfScope, ReadingPod
  <2> QED
    BY <1>1, <1>7, <2>2, <2>4 DEF Busy, PodJob
<1>8. CASE ~Busy(PodJob(u))
  <2>1. NoPodResult(u)'
    BY <1>1, <1>3, <1>4, <1>8 DEF SettledPod, NoPodResult
  <2> QED
    BY <1>1, <1>6, <1>8, <2>1 DEF RightPod, OutOfScope, Busy, PodJob
<1> QED
  BY <1>7, <1>8

-------------------------------------------------------------------------------
(* The steps of other keys *)

\* A step of another key changes nothing the Pod depends on, or queues the Pod.
LEMMA OtherKeyCalm ==
  ASSUME DefOK, NEW u \in PodUIDs, NEW k, k # PodJob(u), k # Rescan, JobsOnly(k), KeepsOthers(k),
         UNCHANGED <<scenario, pos, defs, defErr>>, ancestorPods \subseteq ancestorPods', pods'[u] = pods[u],
         podRoots'[u] = podRoots[u] \/ PodJob(u) \in dirty'
  PROVE  PodCalm(u)
<1>1. PodJob(u) \in DOMAIN job' <=> PodJob(u) \in DOMAIN job
  BY DEF JobsOnly, KeepsOthers
<1>2. PodJob(u) \in DOMAIN job => job'[PodJob(u)] = job[PodJob(u)]
  BY <1>1 DEF JobsOnly
<1>3. (PodJob(u) \notin dirty' => PodJob(u) \notin dirty) /\ (Rescan \notin dirty' => Rescan \notin dirty)
  BY DEF KeepsOthers
<1>4. ChainStill(u)
  BY ChainKept
<1> QED
  BY <1>1, <1>2, <1>3, <1>4 DEF PodCalm, PodStill

\* The jobs of other Pods.
LEMMA OtherPodCalm ==
  ASSUME TypeInv, ReadInv, NEW u \in PodUIDs, NEW v \in PodUIDs, v # u, PodStep(v)
  PROVE  PodCalm(u)
<1>0. DefOK /\ MemberOK /\ StoreOK
  BY DEF TypeInv
<1>1. JobsOnly(PodJob(v)) /\ KeepsOthers(PodJob(v)) /\ PodJob(v) # PodJob(u) /\ PodJob(v) # Rescan
  <2>1. PodJob(v) # Rescan
    BY DEF PodJob, Rescan
  <2> QED
    BY <2>1, PodStepReads, PodStepKeeps, KeysDiffer
<1>2. UNCHANGED <<scenario, pos, defs, defErr>> /\ ancestorPods \subseteq ancestorPods'
  BY DEF PodStep, ResolvePod, RegisterPodRoot, ReadPodRoot, FailPodEvaluation, PublishPod,
         UnregisterPod, environmentVars, definitionVars, membershipVars
<1>3. UNCHANGED podRoots \/ \E r : podRoots' = [podRoots EXCEPT ![v] = r]
  BY DEF PodStep, ResolvePod, RegisterPodRoot, ReadPodRoot, FailPodEvaluation, PublishPod,
         UnregisterPod, membershipVars
<1>4. UNCHANGED pods \/ \E result : pods' = [pods EXCEPT ![v] = result]
  BY DEF PodStep, ResolvePod, RegisterPodRoot, ReadPodRoot, FailPodEvaluation, PublishPod,
         UnregisterPod, FailPod
<1>5. podRoots'[u] = podRoots[u] /\ pods'[u] = pods[u]
  BY <1>0, <1>3, <1>4 DEF MemberOK, StoreOK
<1> QED
  BY <1>0, <1>1, <1>2, <1>5, OtherKeyCalm

\* The jobs of roots: a root that is withdrawn queues its Pods.
LEMMA RootStepCalm ==
  ASSUME TypeInv, ReadInv, MembershipMirror, NEW u \in PodUIDs, NEW r \in UIDs, RootStep(r)
  PROVE  PodCalm(u)
<1>0. DefOK /\ MemberOK /\ JobOK
  BY DEF TypeInv
<1>1. JobsOnly(RootJob(r)) /\ KeepsOthers(RootJob(r)) /\ RootJob(r) # PodJob(u) /\ RootJob(r) # Rescan
  <2>1. RootJob(r) # Rescan
    BY DEF RootJob, Rescan
  <2> QED
    BY <2>1, RootStepReads, RootStepKeeps, KeysDiffer
<1>2. UNCHANGED <<scenario, pos, defs, defErr, ancestorPods, pods>>
  BY DEF RootStep, ReadWorkload, WithdrawWorkload, RemoveWorkload, PublishWorkload, environmentVars,
         definitionVars, membershipVars
<1>3. podRoots'[u] = podRoots[u] \/ PodJob(u) \in dirty'
  <2>1. CASE WithdrawWorkload(r)
    <3>1. CASE roots[r] # None /\ u \in roots[r].pods
      <4>1. PodJob(u) \in EnqueueMembers(r)
        BY <3>1 DEF EnqueueMembers
      <4> QED
        BY <2>1, <3>1, <4>1 DEF WithdrawWorkload, Return
    <3>2. CASE ~(roots[r] # None /\ u \in roots[r].pods)
      BY <2>1, <3>2 DEF WithdrawWorkload
    <3> QED
      BY <3>1, <3>2
  <2>2. CASE ~WithdrawWorkload(r)
    BY <2>2 DEF RootStep, ReadWorkload, RemoveWorkload, PublishWorkload, membershipVars
  <2> QED
    BY <2>1, <2>2
<1> QED
  BY <1>0, <1>1, <1>2, <1>3, OtherKeyCalm

\* A step of a selected object's job leaves the other jobs.
LEMMA SelectedStepJobs ==
  ASSUME NEW x \in SelectedKeys, SelectedStep(x)
  PROVE  JobsOnly(JobOf(x))
<1>1. \/ \E taken, work, retry : Return(JobOf(x), taken, work, retry)
      \/ \E taken, local : Continue(JobOf(x), taken, local)
  BY DEF SelectedStep, ResolveSelectedObject, FailSelected, ReplaceSelectedObjectTracking,
         RegisterSelectedObjectRoot, ExcludeSelectedObject, UnregisterSelectedObject
<1> QED
  BY <1>1, HandlerJobs

\* The jobs of selected objects.
LEMMA SelectedStepCalm ==
  ASSUME TypeInv, NEW u \in PodUIDs, NEW x \in SelectedKeys, SelectedStep(x)
  PROVE  PodCalm(u)
<1>0. DefOK /\ MemberOK
  BY DEF TypeInv
<1>1. JobsOnly(JobOf(x))
  BY SelectedStepJobs
<1>2. KeepsOthers(JobOf(x)) /\ JobOf(x) # PodJob(u) /\ JobOf(x) # Rescan
  BY SelectedStepKeeps, KeysDiffer, JobsDiffer
<1>3. UNCHANGED <<scenario, pos, defs, defErr, podRoots, pods>> /\ ancestorPods \subseteq ancestorPods'
  BY DEF SelectedStep, ResolveSelectedObject, ReplaceSelectedObjectTracking, RegisterSelectedObjectRoot,
         ExcludeSelectedObject, UnregisterSelectedObject, environmentVars, definitionVars, membershipVars
<1> QED
  BY <1>0, <1>1, <1>2, <1>3, OtherKeyCalm

-------------------------------------------------------------------------------
(* The steps of the Pod's own job *)

\* A Pod that is queued again is settled later.
LEMMA RetrySettles ==
  ASSUME NEW u
  PROVE  /\ PodJob(u) \in dirty' => SettledPod(u)'
         /\ \A taken, work : Return(PodJob(u), taken, work, TRUE) => SettledPod(u)'
         /\ \A taken, reason, root :
              FailPod(u, taken, reason, root) /\ reason \notin {"evaluation", "invalid"} => SettledPod(u)'
<1>1. PodJob(u) \in dirty' => SettledPod(u)'
  BY DEF SettledPod, PodJob
<1>2. \A taken, work : Return(PodJob(u), taken, work, TRUE) => PodJob(u) \in dirty'
  BY DEF Return
<1>3. \A taken, reason, root :
        FailPod(u, taken, reason, root) /\ reason \notin {"evaluation", "invalid"} =>
          Return(PodJob(u), taken, {}, TRUE)
  BY DEF FailPod
<1> QED
  BY <1>1, <1>2, <1>3

\* A Pod job that goes on with what holds leaves the Pod settled.
LEMMA LearnedSettles ==
  ASSUME NEW u, NEW local, PodJob(u) \in DOMAIN job', job'[PodJob(u)] = local, PodLearned(u, local)'
  PROVE  SettledPod(u)'
<1>1. PodLearned(u, job[PodJob(u)])'
  BY DEF PodLearned, PodJob
<1> QED
  BY <1>1 DEF SettledPod, Busy, PodJob

\* A Pod job that returns with the right result leaves the Pod settled.
LEMMA ResultSettles ==
  ASSUME NEW u, PodJob(u) \notin DOMAIN job', Has(PodGVK, u)' \/ NoPodResult(u)',
         Rescan \notin dirty' => RightPod(u)'
  PROVE  SettledPod(u)'
BY DEF SettledPod, Busy, PodJob

\* The steps of a Pod job change no object and no definition.
LEMMA OwnStepFrame ==
  ASSUME TypeInv, NEW u \in PodUIDs, PodStep(u)
  PROVE  /\ UNCHANGED <<scenario, pos, defs, defErr>> /\ ancestorPods \subseteq ancestorPods'
         /\ PodStill(u) /\ ChainStill(u)
         /\ PodWanted(u)' <=> PodWanted(u)
         /\ \A path : OwnerChain(PodGVK, u, path) => OwnerChain(PodGVK, u, path)'
         /\ \A path : /\ RootVersion(path)' = RootVersion(path) /\ Last(path)' = Last(path)
                      /\ RootState(path)' = RootState(path) /\ HasRoot(path)' = HasRoot(path)
                      /\ ResourceSelected(RootVersion(path))' = ResourceSelected(RootVersion(path))
         /\ Rescan \notin dirty' => Rescan \notin dirty
<1>1. UNCHANGED <<scenario, pos, defs, defErr>> /\ ancestorPods \subseteq ancestorPods'
  BY DEF PodStep, ResolvePod, RegisterPodRoot, ReadPodRoot, FailPodEvaluation, PublishPod,
         UnregisterPod, environmentVars, definitionVars, membershipVars
<1>2. PodStill(u)
  BY <1>1 DEF PodStill
<1>3. ChainStill(u)
  BY <1>1, ChainKept DEF TypeInv
<1>4. PodWanted(u)' <=> PodWanted(u)
  BY <1>1, <1>2, StillWanted
<1>5. \A g, o : Object(g, o)' = Object(g, o)
  BY <1>1 DEF Object, Life, life
<1>6. \A path : OwnerChain(PodGVK, u, path) => OwnerChain(PodGVK, u, path)'
  BY <1>5 DEF OwnerChain, ObjectAt, Has, Last, NamesOwner, EndsChain
<1>7. ASSUME NEW path
      PROVE  /\ RootVersion(path)' = RootVersion(path) /\ Last(path)' = Last(path)
             /\ RootState(path)' = RootState(path) /\ HasRoot(path)' = HasRoot(path)
             /\ ResourceSelected(RootVersion(path))' = ResourceSelected(RootVersion(path))
  <2>1. RootVersion(path)' = RootVersion(path) /\ Last(path)' = Last(path)
    BY <1>1 DEF RootVersion, Last
  <2> QED
    BY <1>1, <1>5, <2>1 DEF RootState, HasRoot, Has, ResourceSelected
<1>8. Rescan \notin dirty' => Rescan \notin dirty
  <2>1. KeepsOthers(PodJob(u)) /\ PodJob(u) # Rescan
    BY PodStepKeeps DEF PodJob, Rescan
  <2> QED
    BY <2>1 DEF KeepsOthers
<1> QED
  BY <1>1, <1>2, <1>3, <1>4, <1>6, <1>7, <1>8

\* No failure of a read or a walk is final.
LEMMA ReasonRetries ==
  ASSUME EnvOK, WatchOK
  PROVE  /\ \A ref : \A full \in BOOLEAN :
              ref.gvk \in GVKs => FailureReason(Lookup(ref, full)) \notin {"evaluation", "invalid"}
         /\ \A path : (NamesOwner(ObjectAt(Last(path))) => OwnerRef(path).gvk \in GVKs) =>
              WalkErr(path) \notin {"evaluation", "invalid"}
<1>1. ASSUME NEW ref, NEW full \in BOOLEAN, ref.gvk \in GVKs
      PROVE  FailureReason(Lookup(ref, full)) \notin {"evaluation", "invalid"}
  BY <1>1, ReasonType, ControllerAssumption DEF FailureReason
<1>2. ASSUME NEW path, NamesOwner(ObjectAt(Last(path))) => OwnerRef(path).gvk \in GVKs
      PROVE  WalkErr(path) \notin {"evaluation", "invalid"}
  BY <1>1, <1>2 DEF WalkErr
<1> QED
  BY <1>1, <1>2

\* While no object has a Pod for an owner, an owner chain has no other Pods.
LEMMA NoPathPods ==
  ASSUME EnvOK, PosOK, NoPodOwns(scenario), NEW g, NEW u, NEW path, OwnerChain(g, u, path)
  PROVE  PathPods(path) = {}
<1> SUFFICES ASSUME NEW i \in 2..Len(path), path[i].gvk = PodGVK PROVE FALSE
  BY DEF PathPods
<1> DEFINE child == path[i - 1]
           t == ObjectAt(child)
<1>1. i - 1 \in 1..Len(path) /\ child \in KeyRefs
  BY DEF OwnerChain
<1>2. Has(child.gvk, child.uid) /\ NamesOwner(t) /\ t.owner.gvk = PodGVK
  BY <1>1 DEF OwnerChain
<1>3. child.gvk \in GVKs /\ child.uid[1] \in Objects /\ KindOf[child.gvk] = KindOfObject[child.uid[1]]
  BY <1>1 DEF KeyRefs, Refs, UIDs
<1>4. t # None /\ t = Life(child.uid[1], pos[<<child.gvk, child.uid[1]>>])
  BY <1>2 DEF Has, ObjectAt, Object
<1> HIDE DEF t, child
<1>5. life[child.uid[1]] \in Seq(States \cup {None})
  BY <1>3, OwnersAssumption DEF EnvOK, life
<1>6. PICK n \in Nat : n \in 1..Len(life[child.uid[1]]) /\ t = life[child.uid[1]][n]
  <2>1. /\ pos[<<child.gvk, child.uid[1]>>] \in Nat
        /\ pos[<<child.gvk, child.uid[1]>>] <= Len(life[child.uid[1]])
    BY <1>3, ObjectType
  <2>2. pos[<<child.gvk, child.uid[1]>>] # 0
    BY <1>4 DEF Life
  <2> DEFINE n == pos[<<child.gvk, child.uid[1]>>]
  <2>3. t = life[child.uid[1]][n]
    BY <1>4, <2>2 DEF Life
  <2>4. n \in 1..Len(life[child.uid[1]])
    <3>1. Len(life[child.uid[1]]) \in Nat
      BY <1>5
    <3> QED
      BY <2>1, <2>2, <3>1
  <2> HIDE DEF n
  <2> QED
    BY <2>1, <2>3, <2>4 DEF n
<1>7. t \in Range(life[child.uid[1]])
  BY <1>5, <1>6 DEF Range
<1>8. t \in (UNION {Range(scenario.life[o]) : o \in Objects}) \ {None}
  <2>1. t \in Range(scenario.life[child.uid[1]])
    BY <1>7 DEF life
  <2>2. t \in UNION {Range(scenario.life[o]) : o \in Objects}
    BY <1>3, <2>1, Zenon
  <2> QED
    BY <1>4, <2>2, Zenon
<1> QED
  BY <1>2, <1>8 DEF NoPodOwns

\* reconcilePod's first step: what it goes on with holds, and its errors queue
\* the Pod again.
LEMMA ResolvePodSettles ==
  ASSUME TypeInv, SteadyScope(scenario), NEW u \in PodUIDs, ResolvePod(u)
  PROVE  SettledPod(u)'
<1> DEFINE k == PodJob(u)
           start == CachedRef(<<PodGVK, u[1]>>)
           root(path) == Last(path)
           def(path) == defs[KindOf[root(path).gvk]]
           g(path) == SelectedGVK(root(path).gvk, def(path))
           read(path) == [pc |-> "register", path |-> path, def |-> def(path), ref |-> None,
                          err |-> DefinitionErr(KindOf[root(path).gvk]), version |-> defVersion]
           err == Lookup(Ref(PodGVK, u, 0), TRUE)
           stop == Continue(k, {k}, Local("unregister"))
<1>0. EnvOK /\ WatchOK /\ PosOK /\ DefOK
  BY DEF TypeInv
<1>1. <<PodGVK, u>> \in SelectedKeys /\ PodGVK \in GVKs /\ <<PodGVK, u>>[1] = PodGVK /\ <<PodGVK, u>>[2] = u
  BY PodKeyType
<1>2. \/ (err = "notfound" \/ (err = "none" /\ ~PodSelected(Object(PodGVK, u[1])))) /\ stop
      \/ err # "none" /\ FailPod(u, {k}, FailureReason(err), None)
      \/ /\ err = "none" /\ PodSelected(Object(PodGVK, u[1]))
         /\ \E path \in Walks(start) :
              \/ WalkErr(path) # "none" /\ FailPod(u, {k}, WalkErr(path), None)
              \/ \E r : FailPod(u, {k}, "unavailable", r)
              \/ WalkErr(path) = "none" /\ ~ResourceSelected(g(path)) /\ stop
              \/ WalkErr(path) = "none" /\ Continue(k, {k}, read(path))
  BY DEF ResolvePod
<1>3. /\ UNCHANGED <<scenario, pos, defs, defErr>> /\ PodStill(u) /\ ChainStill(u)
      /\ PodWanted(u)' <=> PodWanted(u)
      /\ \A path : RootVersion(path)' = RootVersion(path) /\ Last(path)' = Last(path)
  BY OwnStepFrame DEF PodStep
<1>4. ASSUME NEW path \in Walks(start), err = "none", WalkErr(path) = "none"
      PROVE  OwnerChain(PodGVK, u, path) /\ path[1] = start /\ start.rv = pos[<<PodGVK, u[1]>>]
  <2>1. /\ start = Ref(PodGVK, u, pos[<<PodGVK, u[1]>>]) /\ start \in KeyRefs /\ Current(start)
    BY <1>0, <1>1, <1>4, ReadIsCurrent
  <2>2. WalkOK(start, path) /\ EndsChain(ObjectAt(Last(path)))
    BY <1>0, <1>4, <2>1, WalksAreWalks
  <2>3. start.gvk = PodGVK /\ start.uid = u /\ start.rv = pos[<<PodGVK, u[1]>>]
    BY <2>1 DEF Ref
  <2> HIDE DEF start
  <2>4. OwnerChain(PodGVK, u, path)
    BY <1>0, <2>1, <2>2, <2>3, WalkIsChain
  <2> QED
    BY <2>2, <2>3, <2>4 DEF WalkOK
<1>5. PodWanted(u) <=> Has(PodGVK, u) /\ PodSelected(Object(PodGVK, u[1]))
  BY DEF PodWanted
<1>6. /\ err = "none" => Has(PodGVK, u)
      /\ err = "notfound" => ~Has(PodGVK, u)
  <2>1. Ref(PodGVK, u, 0).gvk = PodGVK /\ Ref(PodGVK, u, 0).uid = u
    BY DEF Ref
  <2>2. WatchErrors \subseteq {"denied", "unavailable"} /\ watches[PodGVK] \in WatchRecord \cup {None}
    BY <1>0, <1>1, ControllerAssumption DEF WatchOK
  <2> QED
    BY <2>1, <2>2, NoneAssumption DEF Lookup, WatchRecord
<1>7. ASSUME stop, OutOfScope(u) PROVE SettledPod(u)'
  <2>1. k \in DOMAIN job' /\ job'[k] = Local("unregister")
    BY <1>7, HandlerJobs
  <2>2. OutOfScope(u)'
    BY <1>0, <1>3, <1>7, OutOfScopeStays
  <2>3. PodLearned(u, Local("unregister"))'
    BY <2>2 DEF PodLearned, ReadingPod, Local
  <2> HIDE DEF stop
  <2> QED
    BY <2>1, <2>3, LearnedSettles
<1>8. CASE (err = "notfound" \/ (err = "none" /\ ~PodSelected(Object(PodGVK, u[1])))) /\ stop
  <2>1. OutOfScope(u)
    BY <1>5, <1>6, <1>8 DEF OutOfScope
  <2> QED
    BY <1>7, <1>8, <2>1
<1>9. CASE err # "none" /\ FailPod(u, {k}, FailureReason(err), None)
  <2>1. FailureReason(err) \notin {"evaluation", "invalid"}
    BY <1>0, <1>1, ReasonRetries DEF Ref
  <2> HIDE DEF err
  <2> QED
    BY <1>9, <2>1, RetrySettles
<1>10. ASSUME err = "none", PodSelected(Object(PodGVK, u[1])), NEW path \in Walks(start),
              WalkErr(path) # "none", FailPod(u, {k}, WalkErr(path), None)
       PROVE  SettledPod(u)'
  <2>1. start \in KeyRefs /\ Current(start)
    BY <1>0, <1>1, <1>10, ReadIsCurrent
  <2>2. WalkOK(start, path)
    BY <1>0, <1>10, <2>1, WalksAreWalks
  <2>3. NamesOwner(ObjectAt(Last(path))) => OwnerRef(path).gvk \in GVKs
    BY <1>0, <2>1, <2>2, WalkErrType
  <2>4. WalkErr(path) \notin {"evaluation", "invalid"}
    BY <1>0, <2>3, ReasonRetries
  <2> QED
    BY <1>10, <2>4, RetrySettles
<1>11. ASSUME NEW r, FailPod(u, {k}, "unavailable", r) PROVE SettledPod(u)'
  <2> DEFINE reason == "unavailable"
  <2>1. reason \notin {"evaluation", "invalid"}
    OBVIOUS
  <2>2. FailPod(u, {k}, reason, r)
    BY <1>11
  <2> HIDE DEF reason
  <2> QED
    BY <2>1, <2>2, RetrySettles
<1>12. ASSUME err = "none", PodSelected(Object(PodGVK, u[1])), NEW path \in Walks(start),
              WalkErr(path) = "none", ~ResourceSelected(g(path)), stop
       PROVE  SettledPod(u)'
  <2>1. OwnerChain(PodGVK, u, path) /\ path \in Seq(KeyRefs)
    BY <1>4, <1>12 DEF OwnerChain
  <2>2. scenario.filters
    BY <1>12 DEF ResourceSelected
  <2>3. PathPods(path) = {}
    BY <1>0, <2>1, <2>2, NoPathPods DEF SteadyScope
  <2>4. Followed(PodGVK, u, path)
    BY <2>1, <2>3 DEF Followed
  <2>5. ~ResourceSelected(RootVersion(path))
    BY <1>12 DEF RootVersion
  <2>6. OutOfScope(u)
    BY <2>1, <2>4, <2>5 DEF OutOfScope
  <2> QED
    BY <1>7, <1>12, <2>6
<1>13. ASSUME err = "none", PodSelected(Object(PodGVK, u[1])), NEW path \in Walks(start),
              WalkErr(path) = "none", Continue(k, {k}, read(path))
       PROVE  SettledPod(u)'
  <2>1. OwnerChain(PodGVK, u, path) /\ path[1].rv = pos[<<PodGVK, u[1]>>]
    BY <1>4, <1>13
  <2>2. PICK local : local = read(path)
    OBVIOUS
  <2>3. local.pc = "register" /\ local.path = path /\ local.def = def(path)
    BY <2>2
  <2>4. k \in DOMAIN job' /\ job'[k] = local
    BY <1>13, <2>2, HandlerJobs
  <2>5. SelectedGVK(Last(path).gvk, local.def) = RootVersion(path)
    BY <2>3 DEF RootVersion
  <2>6. PodWanted(u)'
    BY <1>3, <1>5, <1>6, <1>13
  <2>7. PodLearned(u, local)'
    <3>1. SelectedGVK(Last(path).gvk, local.def) = RootVersion(path)'
      BY <1>3, <2>5
    <3> QED
      BY <1>3, <2>1, <2>3, <2>6, <3>1 DEF PodLearned, ReadingPod, Last
  <2> QED
    BY <2>4, <2>7, LearnedSettles
<1> HIDE DEF k, start, g, read, err, stop
<1> QED
  BY <1>2, <1>8, <1>9, <1>10, <1>11, <1>12, <1>13

\* What the job of a Pod that knows its root has read, and what of it holds.
LEMMA PodJobReads ==
  ASSUME TypeInv, ReadInv, NEW u \in PodUIDs, SettledPod(u), Busy(PodJob(u)), PodJob(u) \notin dirty,
         NEW local, local = job[PodJob(u)], local.pc \in ReadingPod
  PROVE  /\ PodLearned(u, local) /\ PodRead(u, local) /\ LocalOK(PodJob(u), local)
         /\ PodWanted(u) /\ local.path[1].rv = pos[<<PodGVK, u[1]>>]
         /\ local.path \in Seq(KeyRefs) /\ local.path # <<>>
         /\ PathCurrent(local.path) => OwnerChain(PodGVK, u, local.path)
<1>1. PodLearned(u, local) /\ PodRead(u, local)
  BY DEF SettledPod, ReadInv
<1>2. LocalOK(PodJob(u), local)
  BY DEF TypeInv, JobOK, Busy
<1>3. /\ ChainRead(local.path) /\ local.path[1].gvk = PodGVK /\ local.path[1].uid = u
  BY <1>1 DEF PodRead, ReadingPod
<1>4. local.path \in Seq(KeyRefs) /\ local.path # <<>>
  BY <1>3 DEF ChainRead
<1>5. PathCurrent(local.path) => OwnerChain(PodGVK, u, local.path)
  BY <1>3, ReadIsChain DEF TypeInv
<1> QED
  BY <1>1, <1>2, <1>4, <1>5 DEF PodLearned

\* registerPodRoot registers the Pod under the root of its current chain.
LEMMA RegisterPodRootSettles ==
  ASSUME TypeInv, ReadInv, NEW u \in PodUIDs, Busy(PodJob(u)), RegisterPodRoot(u), SettledPod(u)
  PROVE  SettledPod(u)'
<1> DEFINE k == PodJob(u)
<1>0. MemberOK /\ JobOK
  BY DEF TypeInv
<1>1. PICK local : local = job[k]
  OBVIOUS
<1>2. local.pc = "register" /\ local.pc \in ReadingPod
  BY <1>1 DEF RegisterPodRoot, At, ReadingPod
<1>3. \/ Return(k, {}, {}, TRUE)
      \/ FailPod(u, {}, "unresolved", RootOf(k))
      \/ /\ PathCurrent(local.path)
         /\ ancestorPods' = ancestorPods \cup PathPods(local.path)
         /\ podRoots' = [podRoots EXCEPT ![u] = Last(local.path).uid]
         /\ job' = [job EXCEPT ![k].pc = "readRoot"]
         /\ dirty \subseteq dirty'
  BY <1>1 DEF RegisterPodRoot, RootOf
<1>4. CASE Return(k, {}, {}, TRUE)
  BY <1>4, RetrySettles
<1>5. CASE FailPod(u, {}, "unresolved", RootOf(k))
  <2> DEFINE reason == "unresolved"
  <2>1. reason \notin {"evaluation", "invalid"}
    OBVIOUS
  <2>2. FailPod(u, {}, reason, RootOf(k))
    BY <1>5
  <2> HIDE DEF reason
  <2> QED
    BY <2>1, <2>2, RetrySettles
<1>6. CASE /\ PathCurrent(local.path)
           /\ ancestorPods' = ancestorPods \cup PathPods(local.path)
           /\ podRoots' = [podRoots EXCEPT ![u] = Last(local.path).uid]
           /\ job' = [job EXCEPT ![k].pc = "readRoot"]
           /\ dirty \subseteq dirty'
  <2>1. CASE k \in dirty'
    BY <2>1, RetrySettles
  <2>2. CASE k \notin dirty'
    <3>1. /\ PodLearned(u, local) /\ PodWanted(u) /\ local.path[1].rv = pos[<<PodGVK, u[1]>>]
          /\ OwnerChain(PodGVK, u, local.path) /\ local \in JobRecord
      BY <1>1, <1>2, <1>6, <2>2, PodJobReads DEF LocalOK
    <3>2. PICK next : next = [local EXCEPT !.pc = "readRoot"]
      OBVIOUS
    <3>3. next.pc = "readRoot" /\ next.path = local.path /\ next.def = local.def
      BY <3>1, <3>2 DEF JobRecord
    <3>4. k \in DOMAIN job' /\ job'[k] = next
      BY <1>1, <1>6, <3>2 DEF Busy
    <3>5. /\ UNCHANGED pos /\ PodWanted(u)' /\ OwnerChain(PodGVK, u, local.path)'
          /\ RootVersion(local.path)' = RootVersion(local.path)
          /\ Rescan \notin dirty' => Rescan \notin dirty
      BY <3>1, OwnStepFrame DEF PodStep
    <3>6. Followed(PodGVK, u, local.path)'
      BY <1>6, <3>5 DEF Followed, PathPods
    <3>7. podRoots'[u] = Last(local.path).uid
      BY <1>0, <1>6 DEF MemberOK
    <3>8. Rescan \notin dirty' => SelectedGVK(Last(local.path).gvk, local.def) = RootVersion(local.path)
      BY <1>2, <3>1, <3>5 DEF PodLearned
    <3>9. PodLearned(u, next)'
      BY <3>1, <3>3, <3>5, <3>6, <3>7, <3>8 DEF PodLearned, Last
    <3> QED
      BY <3>4, <3>9, LearnedSettles
  <2> QED
    BY <2>1, <2>2
<1> QED
  BY <1>3, <1>4, <1>5, <1>6

\* reconcilePod's read of the root: the Pod of a root that is left out goes.
LEMMA ReadPodRootSettles ==
  ASSUME TypeInv, ReadInv, NEW u \in PodUIDs, Busy(PodJob(u)), ReadPodRoot(u), SettledPod(u)
  PROVE  SettledPod(u)'
<1> DEFINE k == PodJob(u)
<1>0. EnvOK /\ WatchOK /\ PosOK /\ DefOK
  BY DEF TypeInv
<1>1. PICK local : local = job[k]
  OBVIOUS
<1> DEFINE root == Last(local.path)
           g == SelectedGVK(root.gvk, local.def)
           err == Lookup(Ref(g, root.uid, 0), TRUE)
           object == Object(g, root.uid[1])
           read == [local EXCEPT !.ref = [Ref(g, root.uid, 0) EXCEPT !.rv = pos[<<g, root.uid[1]>>]]]
<1>2. local.pc = "readRoot" /\ local.pc \in ReadingPod
  BY <1>1 DEF ReadPodRoot, At, ReadingPod
<1>3. \/ FailPod(u, {}, "unavailable", root)
      \/ err # "none" /\ FailPod(u, {}, FailureReason(err), root)
      \/ /\ err = "none"
         /\ \/ ~(ObjectSelected(object) /\ ResourceSelected(g)) /\ Continue(k, {}, Local("unregister"))
            \/ Continue(k, {}, [read EXCEPT !.pc = "failEvaluation"])
            \/ Continue(k, {}, [read EXCEPT !.pc = "failEvaluation", !.err = "evaluation"])
            \/ Continue(k, {}, [read EXCEPT !.pc = "publish"])
  BY <1>1 DEF ReadPodRoot, RootOf, Ref
<1>4. /\ UNCHANGED <<scenario, pos, defs, defErr>> /\ PodStill(u) /\ ChainStill(u)
      /\ PodWanted(u)' <=> PodWanted(u)
      /\ \A path : RootVersion(path)' = RootVersion(path) /\ Last(path)' = Last(path)
      /\ Rescan \notin dirty' => Rescan \notin dirty
  BY OwnStepFrame DEF PodStep
<1>5. podRoots' = podRoots
  BY DEF ReadPodRoot, membershipVars
<1>6. local.path \in Seq(KeyRefs) /\ local.path # <<>> /\ local \in JobRecord
        /\ (local.def # None => KindOf[local.def.gvk] = KindOf[root.gvk])
  <2>1. LocalOK(k, local)
    BY <1>0, <1>1 DEF TypeInv, JobOK, Busy
  <2> QED
    BY <1>2, <2>1 DEF LocalOK
<1>7. g \in GVKs
  <2>1. root.gvk \in GVKs
    BY <1>6, WalkEnd
  <2>2. local.def \in Definition \cup {None}
    BY <1>6 DEF JobRecord
  <2> QED
    BY <1>6, <2>1, <2>2, SelectedVersion
<1>8. CASE FailPod(u, {}, "unavailable", root)
  <2> DEFINE reason == "unavailable"
  <2>1. reason \notin {"evaluation", "invalid"}
    OBVIOUS
  <2>2. FailPod(u, {}, reason, root)
    BY <1>8
  <2> HIDE DEF reason
  <2> QED
    BY <2>1, <2>2, RetrySettles
<1>9. CASE err # "none" /\ FailPod(u, {}, FailureReason(err), root)
  <2>1. FailureReason(err) \notin {"evaluation", "invalid"}
    BY <1>0, <1>7, ReasonRetries DEF Ref
  <2> HIDE DEF err
  <2> QED
    BY <1>9, <2>1, RetrySettles
<1>10. ASSUME k \notin dirty', NEW next, Continue(k, {}, next)
       PROVE  /\ k \notin dirty /\ k \in DOMAIN job' /\ job'[k] = next
              /\ PodLearned(u, local) /\ PodWanted(u) /\ local.path[1].rv = pos[<<PodGVK, u[1]>>]
  <2>1. k \notin dirty
    BY <1>10 DEF Continue
  <2> QED
    BY <1>1, <1>2, <1>10, <2>1, HandlerJobs, PodJobReads
<1>11. ASSUME k \notin dirty', err = "none", ~(ObjectSelected(object) /\ ResourceSelected(g)),
              Continue(k, {}, Local("unregister"))
       PROVE  SettledPod(u)'
  <2>1. ASSUME Rescan \notin dirty' PROVE OutOfScope(u)'
    <3>1. g = RootVersion(local.path) /\ Followed(PodGVK, u, local.path)
      BY <1>2, <1>4, <1>10, <1>11, <2>1 DEF PodLearned
    <3>2. Has(g, root.uid)
      BY <1>11 DEF Lookup, Ref
    <3>3. HasRoot(local.path) /\ object = RootState(local.path)
      BY <3>1, <3>2 DEF HasRoot, RootState
    <3>4. ResourceSelected(RootVersion(local.path)) =>
            HasRoot(local.path) /\ ~ObjectSelected(RootState(local.path))
      BY <1>11, <3>1, <3>3
    <3>5. OutOfScope(u)
      BY <1>6, <3>1, <3>4 DEF OutOfScope
    <3> QED
      BY <1>0, <1>4, <3>5, OutOfScopeStays
  <2>2. PodLearned(u, Local("unregister"))'
    BY <2>1 DEF PodLearned, ReadingPod, Local
  <2> QED
    BY <1>10, <1>11, <2>2, LearnedSettles
<1>12. ASSUME k \notin dirty', NEW next, Continue(k, {}, next), next.path = local.path, next.def = local.def,
              next.pc \in {"failEvaluation", "publish"}
       PROVE  SettledPod(u)'
  <2>1. PodWanted(u)' /\ next.path[1].rv = pos'[<<PodGVK, u[1]>>]
    BY <1>4, <1>10, <1>12
  <2>2. ASSUME Rescan \notin dirty'
        PROVE  /\ SelectedGVK(Last(next.path).gvk, next.def) = RootVersion(next.path)'
               /\ Followed(PodGVK, u, next.path)' /\ podRoots'[u] = Last(next.path).uid
    <3>1. /\ SelectedGVK(Last(local.path).gvk, local.def) = RootVersion(local.path)
          /\ Followed(PodGVK, u, local.path) /\ podRoots[u] = Last(local.path).uid
      BY <1>2, <1>4, <1>10, <1>12, <2>2 DEF PodLearned
    <3>2. Followed(PodGVK, u, local.path)'
      BY <1>4, <1>10, <1>12, <3>1 DEF ChainStill
    <3>3. RootVersion(local.path)' = RootVersion(local.path)
      BY <1>4
    <3> QED
      BY <1>5, <1>12, <3>1, <3>2, <3>3
  <2>3. PodLearned(u, next)'
    BY <1>12, <2>1, <2>2 DEF PodLearned, Last
  <2> QED
    BY <1>10, <1>12, <2>3, LearnedSettles
<1>13. CASE k \in dirty'
  BY <1>13, RetrySettles
<1>14. ASSUME k \notin dirty',
              \/ Continue(k, {}, [read EXCEPT !.pc = "failEvaluation"])
              \/ Continue(k, {}, [read EXCEPT !.pc = "failEvaluation", !.err = "evaluation"])
              \/ Continue(k, {}, [read EXCEPT !.pc = "publish"])
       PROVE  SettledPod(u)'
  <2>1. PICK next : /\ Continue(k, {}, next)
                    /\ next \in {[read EXCEPT !.pc = "failEvaluation"],
                                 [read EXCEPT !.pc = "failEvaluation", !.err = "evaluation"],
                                 [read EXCEPT !.pc = "publish"]}
    BY <1>14
  <2>2. /\ next.path = local.path /\ next.def = local.def
        /\ next.pc \in {"failEvaluation", "publish"}
    BY <1>6, <2>1 DEF JobRecord
  <2> HIDE DEF read
  <2> QED
    BY <1>12, <1>14, <2>1, <2>2
<1> HIDE DEF k, g, err, object, read, root
<1> QED
  BY <1>3, <1>8, <1>9, <1>11, <1>13, <1>14

\* What a Pod job that writes its result knows, when its inputs are current: the
\* root is in scope and its definition is the one the job has.
LEMMA VerdictIsCurrent ==
  ASSUME TypeInv, ReadInv, NEW u \in PodUIDs, SettledPod(u), Busy(PodJob(u)), PodJob(u) \notin dirty,
         Rescan \notin dirty, NEW local, local = job[PodJob(u)], local.pc \in {"publish", "failEvaluation"},
         DefinitionCurrent(local.version), PathCurrent(local.path), Current(local.ref)
  PROVE  LET g == RootVersion(local.path)
             root == Last(local.path).uid
         IN  /\ PodWanted(u) /\ Followed(PodGVK, u, local.path) /\ local.path \in Seq(KeyRefs)
             /\ podRoots[u] = root /\ HasRoot(local.path)
             /\ local.ref = CurrentRef(g, root) /\ StateOf(local.ref) = Object(g, root[1])
             /\ Life(u[1], local.path[1].rv) = Object(PodGVK, u[1])
             /\ ObjectSelected(Object(g, root[1])) /\ ResourceSelected(g)
             /\ local.def = defs[KindOf[g]]
             /\ VerdictRead(local, DefinitionErr(KindOf[g]))
<1> DEFINE g == RootVersion(local.path)
           root == Last(local.path).uid
<1>0. EnvOK /\ WatchOK /\ PosOK /\ DefOK
  BY DEF TypeInv
<1>1. /\ PodLearned(u, local) /\ PodRead(u, local) /\ LocalOK(PodJob(u), local)
      /\ PodWanted(u) /\ local.path[1].rv = pos[<<PodGVK, u[1]>>]
      /\ local.path \in Seq(KeyRefs) /\ OwnerChain(PodGVK, u, local.path)
  BY PodJobReads DEF ReadingPod
<1>2. Followed(PodGVK, u, local.path) /\ podRoots[u] = root /\ SelectedGVK(Last(local.path).gvk, local.def) = g
  BY <1>1 DEF PodLearned, ReadingPod
<1>3. /\ local.ref.rv # 0 /\ local.ref.uid = root /\ local.ref.gvk = g
      /\ ObjectSelected(StateOf(local.ref)) /\ ResourceSelected(g)
  BY <1>1, <1>2 DEF PodRead
<1>4. local.ref \in KeyRefs
  BY <1>1 DEF LocalOK
<1>5. local.ref = CurrentRef(g, root) /\ StateOf(local.ref) = Object(g, root[1]) /\ Has(g, root)
  BY <1>0, <1>3, <1>4, CurrentVersion DEF ObjectAt, Current, Lookup
<1>6. KindOf[g] = KindOf[Last(local.path).gvk]
  BY <1>0, <1>1, ChainRoot
<1>7. local.def = defs[KindOf[g]] /\ VerdictRead(local, DefinitionErr(KindOf[g]))
  BY <1>1, <1>6 DEF PodRead, DefinitionRead, DefinitionCurrent
<1>8. Life(u[1], local.path[1].rv) = Object(PodGVK, u[1])
  BY <1>1 DEF Object
<1> QED
  BY <1>1, <1>2, <1>3, <1>5, <1>7, <1>8 DEF HasRoot

\* A Pod job that returns with the result of its chain leaves the Pod settled.
LEMMA WrittenSettles ==
  ASSUME TypeInv, ReadInv, NEW u \in PodUIDs, PodStep(u), SettledPod(u),
         NEW local, local = job[PodJob(u)], Busy(PodJob(u)), local.pc \in {"publish", "failEvaluation"},
         PodJob(u) \notin dirty' => PodJob(u) \notin dirty /\ PodJob(u) \notin DOMAIN job',
         podRoots' = podRoots,
         NEW result, pods'[u] = result, result # None,
         DefinitionCurrent(local.version), PathCurrent(local.path), Current(local.ref),
         /\ DefinitionErr(KindOf[RootVersion(local.path)]) # "none" =>
              result.error = DefinitionErr(KindOf[RootVersion(local.path)])
         /\ DefinitionErr(KindOf[RootVersion(local.path)]) = "none" =>
              IF PodEvaluates(local.def) /\ StateOf(local.ref).renders /\ Life(u[1], local.path[1].rv).renders
                THEN result = [hasValue |-> TRUE, ref |-> local.ref, karta |-> Origin(local.def), error |-> "none"]
                ELSE result.error = "evaluation"
  PROVE  SettledPod(u)'
<1>1. CASE PodJob(u) \in dirty'
  BY <1>1, RetrySettles
<1>2. CASE PodJob(u) \notin dirty'
  <2> DEFINE path == local.path
             g == RootVersion(path)
             root == Last(path).uid
  <2>1. /\ UNCHANGED <<scenario, pos, defs, defErr>>
        /\ PodWanted(u) /\ PodWanted(u)' /\ ChainStill(u)
        /\ RootVersion(path)' = g /\ Last(path)' = Last(path)
        /\ RootState(path)' = RootState(path) /\ HasRoot(path)' = HasRoot(path)
        /\ ResourceSelected(RootVersion(path))' = ResourceSelected(g)
        /\ Rescan \notin dirty' => Rescan \notin dirty
    <3>1. PodWanted(u)
      BY <1>2, PodJobReads DEF ReadingPod
    <3> QED
      BY <3>1, OwnStepFrame
  <2>2. ASSUME Rescan \notin dirty' PROVE RightPod(u)'
    <3>1. /\ Followed(PodGVK, u, path) /\ path \in Seq(KeyRefs) /\ podRoots[u] = root /\ HasRoot(path)
          /\ local.ref = CurrentRef(g, root) /\ StateOf(local.ref) = Object(g, root[1])
          /\ Life(u[1], path[1].rv) = Object(PodGVK, u[1])
          /\ ObjectSelected(Object(g, root[1])) /\ ResourceSelected(g)
          /\ local.def = defs[KindOf[g]]
      BY <1>2, <2>1, <2>2, VerdictIsCurrent
    <3>2. Followed(PodGVK, u, path)'
      BY <2>1, <3>1 DEF ChainStill
    <3>3. PodOutcomeIsCurrent(u, RootVersion(path), Last(path).uid)'
      <4>1. /\ DefinitionErr(KindOf[g])' = DefinitionErr(KindOf[g])
            /\ Object(g, root[1])' = Object(g, root[1]) /\ Object(PodGVK, u[1])' = Object(PodGVK, u[1])
            /\ CurrentRef(g, root)' = CurrentRef(g, root)
            /\ g' = g /\ root' = root /\ defs'[KindOf[g']] = defs[KindOf[g]]
            /\ ResourceSelected(g)' /\ ObjectSelected(Object(g, root[1])')
        BY <2>1, <3>1 DEF DefinitionErr, Object, Life, life, CurrentRef, Ref
      <4>2. podRoots'[u] = root
        BY <3>1
      <4>3. /\ DefinitionErr(KindOf[g]) # "none" => result.error = DefinitionErr(KindOf[g])
            /\ DefinitionErr(KindOf[g]) = "none" =>
                 IF PodEvaluates(defs[KindOf[g]]) /\ Object(g, root[1]).renders /\ Object(PodGVK, u[1]).renders
                   THEN result = [hasValue |-> TRUE, ref |-> CurrentRef(g, root),
                                  karta |-> Origin(defs[KindOf[g]]), error |-> "none"]
                   ELSE result.error = "evaluation"
        BY <3>1
      <4> HIDE DEF g, root
      <4>4. PodOutcomeIsCurrent(u, g, root)'
        BY <4>1, <4>2, <4>3 DEF PodOutcomeIsCurrent, ObjectSelected, PodEvaluates, Origin
      <4> QED
        BY <4>4 DEF g, root
    <3> QED
      BY <2>1, <3>1, <3>2, <3>3 DEF RightPod
  <2>3. Has(PodGVK, u)'
    BY <2>1 DEF PodWanted
  <2> QED
    BY <1>2, <2>2, <2>3, ResultSettles
<1> QED
  BY <1>1, <1>2

\* failPodEvaluation keeps the definition's error, or its own.
LEMMA FailPodEvaluationSettles ==
  ASSUME TypeInv, ReadInv, NEW u \in PodUIDs, Busy(PodJob(u)), FailPodEvaluation(u), SettledPod(u)
  PROVE  SettledPod(u)'
<1> DEFINE k == PodJob(u)
<1>0. StoreOK
  BY DEF TypeInv
<1>1. PICK local : local = job[k]
  OBVIOUS
<1>2. local.pc = "failEvaluation" /\ podRoots' = podRoots
  BY <1>1 DEF FailPodEvaluation, At, membershipVars
<1>3. \/ Return(k, {}, {}, TRUE)
      \/ /\ DefinitionCurrent(local.version) /\ PathCurrent(local.path) /\ Current(local.ref)
         /\ FailPod(u, {}, local.err, local.ref)
  BY <1>1 DEF FailPodEvaluation
<1>4. CASE Return(k, {}, {}, TRUE)
  BY <1>4, RetrySettles
<1>5. CASE /\ DefinitionCurrent(local.version) /\ PathCurrent(local.path) /\ Current(local.ref)
           /\ FailPod(u, {}, local.err, local.ref)
  <2>1. CASE k \in dirty'
    BY <2>1, RetrySettles
  <2>2. CASE k \notin dirty'
    <3>1. k \notin dirty /\ k \notin DOMAIN job'
      BY <1>5, <2>2 DEF FailPod, Return, Restrict
    <3>2. pods'[u] = FailedPod(u, local.err, local.ref)
      BY <1>0, <1>5 DEF FailPod, StoreOK
    <3>3. pods'[u] # None /\ pods'[u].error = local.err
      <4>1. pods[u] \in PodResult \cup {None}
        BY <1>0 DEF StoreOK
      <4>2. local.ref \in Refs /\ local.err \in Errors
        <5>1. LocalOK(k, local)
          BY <1>1, <1>2, <3>1, PodJobReads DEF ReadingPod
        <5> QED
          BY <1>2, <5>1 DEF LocalOK, KeyRefs, JobRecord
      <4>3. FailedPod(u, local.err, local.ref) \in PodResult /\ FailedPod(u, local.err, local.ref).error = local.err
        BY <4>1, <4>2 DEF FailedPod, PodResult
      <4> QED
        BY <3>2, <4>3, NoneAssumption
    <3>4. PICK result : result = pods'[u]
      OBVIOUS
    <3>5. /\ PodRead(u, local) /\ PathCurrent(local.path) /\ OwnerChain(PodGVK, u, local.path)
      BY <1>1, <1>2, <1>5, <3>1, PodJobReads DEF ReadingPod
    <3>6. VerdictRead(local, DefinitionErr(KindOf[RootVersion(local.path)]))
      <4>1. KindOf[RootVersion(local.path)] = KindOf[Last(local.path).gvk]
        BY <3>5, ChainRoot DEF TypeInv
      <4> QED
        BY <1>2, <1>5, <3>5, <4>1 DEF PodRead, DefinitionCurrent
    <3>7. /\ DefinitionErr(KindOf[RootVersion(local.path)]) # "none" =>
               result.error = DefinitionErr(KindOf[RootVersion(local.path)])
          /\ DefinitionErr(KindOf[RootVersion(local.path)]) = "none" =>
               result.error = "evaluation" /\ ~PodEvaluates(local.def)
      BY <1>2, <3>3, <3>4, <3>6 DEF VerdictRead
    <3> QED
      BY <1>1, <1>2, <1>5, <2>2, <3>1, <3>3, <3>4, <3>7, WrittenSettles DEF PodStep
  <2> QED
    BY <2>1, <2>2
<1> QED
  BY <1>3, <1>4, <1>5

\* publishPod writes the result of the current chain.
LEMMA PublishPodSettles ==
  ASSUME TypeInv, ReadInv, NEW u \in PodUIDs, Busy(PodJob(u)), PublishPod(u), SettledPod(u)
  PROVE  SettledPod(u)'
<1> DEFINE k == PodJob(u)
<1>0. StoreOK
  BY DEF TypeInv
<1>1. PICK local : local = job[k]
  OBVIOUS
<1> DEFINE fresh == [hasValue |-> TRUE, ref |-> local.ref, karta |-> Origin(local.def), error |-> "none"]
           renders == StateOf(local.ref).renders /\ Life(u[1], local.path[1].rv).renders
<1>2. local.pc = "publish" /\ podRoots' = podRoots
  BY <1>1 DEF PublishPod, At, membershipVars
<1>3. \/ Return(k, {}, {}, TRUE)
      \/ /\ DefinitionCurrent(local.version) /\ PathCurrent(local.path) /\ Current(local.ref)
         /\ \E keep \in BOOLEAN :
              /\ keep => pods[u] # None
              /\ pods' = [pods EXCEPT ![u] = IF renders THEN fresh
                                             ELSE [(IF keep THEN pods[u] ELSE fresh) EXCEPT !.error = "evaluation"]]
         /\ Return(k, {}, {}, FALSE)
  BY <1>1 DEF PublishPod, Origin, StateOf
<1>4. CASE Return(k, {}, {}, TRUE)
  BY <1>4, RetrySettles
<1>5. CASE /\ DefinitionCurrent(local.version) /\ PathCurrent(local.path) /\ Current(local.ref)
           /\ \E keep \in BOOLEAN :
                /\ keep => pods[u] # None
                /\ pods' = [pods EXCEPT ![u] = IF renders THEN fresh
                                               ELSE [(IF keep THEN pods[u] ELSE fresh) EXCEPT !.error = "evaluation"]]
           /\ Return(k, {}, {}, FALSE)
  <2>1. CASE k \in dirty'
    BY <2>1, RetrySettles
  <2>2. CASE k \notin dirty'
    <3>1. k \notin dirty /\ k \notin DOMAIN job'
      BY <1>5, <2>2 DEF Return, Restrict
    <3>2. PodRead(u, local) /\ OwnerChain(PodGVK, u, local.path) /\ LocalOK(k, local)
      BY <1>1, <1>2, <1>5, <3>1, PodJobReads DEF ReadingPod
    <3>3. VerdictRead(local, DefinitionErr(KindOf[RootVersion(local.path)]))
      <4>1. KindOf[RootVersion(local.path)] = KindOf[Last(local.path).gvk]
        BY <3>2, ChainRoot DEF TypeInv
      <4> QED
        BY <1>2, <1>5, <3>2, <4>1 DEF PodRead, DefinitionCurrent
    <3>4. DefinitionErr(KindOf[RootVersion(local.path)]) = "none" /\ PodEvaluates(local.def)
      BY <1>2, <3>3 DEF VerdictRead
    <3>5. PICK result : result = pods'[u]
      OBVIOUS
    <3>6. result # None /\ IF renders THEN result = fresh ELSE result.error = "evaluation"
      <4>1. pods[u] \in PodResult \cup {None}
        BY <1>0 DEF StoreOK
      <4>2. fresh \in PodResult
        <5>1. local.ref \in Refs /\ local.def \in Definition \cup {None}
          BY <1>2, <3>2 DEF LocalOK, KeyRefs, JobRecord
        <5>2. Origin(local.def) \in STRING \cup {None}
          BY <5>1 DEF Origin, Definition
        <5> QED
          BY <5>1, <5>2 DEF PodResult, Errors
      <4> HIDE DEF fresh, renders
      <4>3. PICK base \in PodResult : pods' = [pods EXCEPT ![u] = IF renders THEN fresh
                                                               ELSE [base EXCEPT !.error = "evaluation"]]
        BY <1>5, <4>1, <4>2
      <4>4. [base EXCEPT !.error = "evaluation"] \in PodResult /\ [base EXCEPT !.error = "evaluation"].error = "evaluation"
        BY <4>3 DEF PodResult, Errors
      <4>5. pods'[u] = IF renders THEN fresh ELSE [base EXCEPT !.error = "evaluation"]
        BY <1>0, <4>3 DEF StoreOK
      <4> QED
        BY <3>5, <4>2, <4>4, <4>5, NoneAssumption
    <3>7. /\ DefinitionErr(KindOf[RootVersion(local.path)]) # "none" =>
               result.error = DefinitionErr(KindOf[RootVersion(local.path)])
          /\ DefinitionErr(KindOf[RootVersion(local.path)]) = "none" =>
               IF PodEvaluates(local.def) /\ StateOf(local.ref).renders /\ Life(u[1], local.path[1].rv).renders
                 THEN result = [hasValue |-> TRUE, ref |-> local.ref, karta |-> Origin(local.def), error |-> "none"]
                 ELSE result.error = "evaluation"
      BY <3>4, <3>6
    <3> QED
      BY <1>1, <1>2, <1>5, <3>1, <3>5, <3>6, <3>7, WrittenSettles DEF PodStep
  <2> QED
    BY <2>1, <2>2
<1> QED
  BY <1>3, <1>4, <1>5

\* unregisterPod withdraws the result of a Pod that is out of scope.
LEMMA UnregisterPodSettles ==
  ASSUME TypeInv, NEW u \in PodUIDs, Busy(PodJob(u)), UnregisterPod(u), SettledPod(u)
  PROVE  SettledPod(u)'
<1> DEFINE k == PodJob(u)
<1>0. MemberOK /\ StoreOK /\ DefOK
  BY DEF TypeInv
<1>1. CASE k \in dirty'
  BY <1>1, RetrySettles
<1>2. CASE k \notin dirty'
  <2>1. k \notin dirty /\ k \notin DOMAIN job' /\ job[k].pc = "unregister"
    BY <1>2 DEF UnregisterPod, Return, Restrict, At
  <2>2. NoPodResult(u)'
    BY <1>0 DEF UnregisterPod, NoPodResult, MemberOK, StoreOK
  <2>3. UNCHANGED scenario /\ PodStill(u) /\ ChainStill(u) /\ (Rescan \notin dirty' => Rescan \notin dirty)
    BY OwnStepFrame DEF PodStep
  <2>4. Rescan \notin dirty' => OutOfScope(u)
    BY <2>1, <2>3 DEF SettledPod, PodLearned
  <2>5. Rescan \notin dirty' => RightPod(u)'
    BY <1>0, <2>2, <2>3, <2>4, OutOfScopeStays DEF RightPod
  <2> QED
    BY <2>1, <2>2, <2>5, ResultSettles
<1> QED
  BY <1>1, <1>2

-------------------------------------------------------------------------------
(* Every Pod *)

\* The definitions in use are those an inventory returned.
LEMMA NextCommitted ==
  ASSUME TypeInv, DefsCommitted, [Next]_vars
  PROVE  DefsCommitted' /\ scenario' = scenario
<1>1. CASE RefreshDefinitions
  <2>1. /\ scenario' = scenario /\ defErr' = inventory.err /\ inventory \in scenario.snapshots
        /\ inventory.err = "none" => defs' = inventory.defs
    BY <1>1 DEF RefreshDefinitions, environmentVars, TypeInv, EnvOK
  <2> QED
    BY <2>1 DEF DefsCommitted
<1>2. CASE UNCHANGED <<scenario, defs, defErr>>
  BY <1>2 DEF DefsCommitted
<1>3. CASE Watching
  <2>1. PICK g \in GVKs :
          \/ \E o \in Objects : WatchEvent(g, o)
          \/ Listing(g)
          \/ \E slot \in Slots :
               \/ \E listing \in BOOLEAN : WatchStarts(g, slot, listing)
               \/ \E err \in WatchErrors : WatchFails(g, slot, err)
    BY <1>3 DEF Watching
  <2>2. UNCHANGED <<scenario, defs, defErr>>
    BY <2>1 DEF WatchEvent, Listing, Replace, WatchStarts, WatchFails, environmentVars, definitionVars
  <2> QED
    BY <1>2, <2>2
<1>4. CASE (\E g \in GVKs : SyncWatch(g)) \/ SyncReturns \/ External
  <2>1. UNCHANGED <<scenario, defs, defErr>>
    BY <1>4 DEF SyncWatch, SyncReturns, External, InventoryChanges, Install, environmentVars, definitionVars
  <2> QED
    BY <1>2, <2>1
<1>5. CASE RequeueScope \/ \E u \in PodUIDs : PodStep(u)
  <2>1. UNCHANGED <<scenario, defs, defErr>>
    BY <1>5 DEF RequeueScope, PodStep, ResolvePod, RegisterPodRoot, ReadPodRoot, FailPodEvaluation,
                PublishPod, UnregisterPod, environmentVars, definitionVars
  <2> QED
    BY <1>2, <2>1
<1>6. CASE \E u \in UIDs : RootStep(u)
  <2>1. UNCHANGED <<scenario, defs, defErr>>
    BY <1>6 DEF RootStep, ReadWorkload, WithdrawWorkload, RemoveWorkload, PublishWorkload,
                environmentVars, definitionVars
  <2> QED
    BY <1>2, <2>1
<1>7. CASE \E x \in SelectedKeys : SelectedStep(x)
  <2>1. UNCHANGED <<scenario, defs, defErr>>
    BY <1>7 DEF SelectedStep, ResolveSelectedObject, ReplaceSelectedObjectTracking,
                RegisterSelectedObjectRoot, ExcludeSelectedObject, UnregisterSelectedObject,
                environmentVars, definitionVars
  <2> QED
    BY <1>2, <2>1
<1>8. CASE UNCHANGED vars
  BY <1>2, <1>8 DEF vars, environmentVars, definitionVars
<1> QED
  BY <1>1, <1>3, <1>4, <1>5, <1>6, <1>7, <1>8 DEF Next, Syncing

\* The steps of the Pod's own job.
LEMMA OwnStepSettles ==
  ASSUME TypeInv, ReadInv, SteadyScope(scenario), NEW u \in PodUIDs, PodStep(u), SettledPod(u)
  PROVE  SettledPod(u)'
BY ResolvePodSettles, RegisterPodRootSettles, ReadPodRootSettles, FailPodEvaluationSettles,
   PublishPodSettles, UnregisterPodSettles DEF PodStep

\* Every step keeps every Pod settled.
LEMMA NextSettledPods ==
  ASSUME TypeInv, ReadInv, MembershipMirror, PodsHaveOneVersion, SteadyScope(scenario), DefsCommitted,
         SettledPods, [Next]_vars
  PROVE  SettledPods'
<1> SUFFICES ASSUME NEW u \in PodUIDs PROVE SettledPod(u)'
  BY DEF SettledPods
<1>0. SettledPod(u) /\ DefOK
  BY DEF SettledPods, TypeInv
<1>1. CASE Watching
  BY <1>0, <1>1, WatchingCalm, CalmStays
<1>2. CASE Syncing \/ External
  BY <1>0, <1>2, SyncingCalm, CalmStays DEF SteadyScope
<1>3. ASSUME NEW v \in PodUIDs, PodStep(v) PROVE SettledPod(u)'
  <2>1. CASE v = u
    BY <1>0, <1>3, <2>1, OwnStepSettles
  <2>2. CASE v # u
    BY <1>0, <1>3, <2>2, OtherPodCalm, CalmStays
  <2> QED
    BY <2>1, <2>2
<1>4. CASE RequeueScope
  BY <1>0, <1>4, RequeueScopeSettles
<1>5. CASE \E r \in UIDs : RootStep(r)
  BY <1>0, <1>5, RootStepCalm, CalmStays
<1>6. CASE \E x \in SelectedKeys : SelectedStep(x)
  BY <1>0, <1>6, SelectedStepCalm, CalmStays
<1>7. CASE UNCHANGED vars
  <2>1. UNCHANGED <<scenario, job, pods, podRoots, pos, dirty, defs, defErr, ancestorPods>>
    BY <1>7 DEF vars, environmentVars, definitionVars, membershipVars, storeVars
  <2> QED
    BY <1>0, <2>1, QuietCalm, CalmStays
<1> QED
  BY <1>1, <1>2, <1>3, <1>4, <1>5, <1>6, <1>7 DEF Next

\* A settled Pod's result is right.
LEMMA SettledPodIsRight ==
  ASSUME TypeInv, SettledPods
  PROVE  PodSettled
<1>0. EnvOK /\ WatchOK /\ PosOK /\ DefOK
  BY DEF TypeInv
<1> SUFFICES ASSUME NEW u \in PodUIDs, Quiet(PodJob(u)), Rescan \notin dirty,
                    Lookup(Ref(PodGVK, u, 0), TRUE) \in {"none", "notfound"}
             PROVE  IF ~Has(PodGVK, u) \/ ~PodSelected(Object(PodGVK, u[1]))
                      THEN pods[u] = None /\ podRoots[u] = None
                      ELSE \A root \in RootsFrom(CachedRef(<<PodGVK, u[1]>>)) :
                             PodOutcomeIsCurrent(u, SelectedGVK(root.gvk, defs[KindOf[root.gvk]]), root.uid)
  BY DEF PodSettled
<1>1. RightPod(u)
  BY DEF SettledPods, SettledPod, Quiet
<1>2. CASE ~PodWanted(u)
  BY <1>1, <1>2 DEF RightPod, NoPodResult, PodWanted
<1>3. ASSUME PodWanted(u), NEW root \in RootsFrom(CachedRef(<<PodGVK, u[1]>>))
      PROVE  PodOutcomeIsCurrent(u, SelectedGVK(root.gvk, defs[KindOf[root.gvk]]), root.uid)
  <2> DEFINE start == CachedRef(<<PodGVK, u[1]>>)
  <2>1. <<PodGVK, u>> \in SelectedKeys /\ <<PodGVK, u>>[1] = PodGVK /\ <<PodGVK, u>>[2] = u
    BY PodKeyType
  <2>2. Lookup(Ref(PodGVK, u, 0), TRUE) = "none"
    <3>1. Ref(PodGVK, u, 0).gvk = PodGVK /\ Ref(PodGVK, u, 0).uid = u /\ Has(PodGVK, u) /\ PodGVK \in GVKs
      BY <1>3, PodKeyType DEF Ref, PodWanted
    <3>2. WatchErrors \subseteq {"denied", "unavailable"} /\ watches[PodGVK] \in WatchRecord \cup {None}
      BY <1>0, <3>1, ControllerAssumption DEF WatchOK
    <3> QED
      BY <3>1, <3>2, NoneAssumption DEF Lookup, WatchRecord
  <2>3. /\ start = Ref(PodGVK, u, pos[<<PodGVK, u[1]>>]) /\ start \in KeyRefs /\ Current(start)
    BY <1>0, <2>1, <2>2, ReadIsCurrent
  <2>4. PICK w \in Walks(start) : root = Last(w) /\ WalkErr(w) = "none"
    BY <1>3 DEF RootsFrom
  <2>5. start.gvk = PodGVK /\ start.uid = u
    BY <2>3 DEF Ref
  <2> HIDE DEF start
  <2>6. OwnerChain(PodGVK, u, w)
    BY <1>0, <2>3, <2>4, <2>5, WalksAreWalks, WalkIsChain
  <2>7. RootVersion(w) = SelectedGVK(root.gvk, defs[KindOf[root.gvk]])
    BY <2>4 DEF RootVersion
  <2>8. ASSUME NEW path, Followed(PodGVK, u, path)
        PROVE  /\ RootVersion(path) = RootVersion(w) /\ RootState(path) = RootState(w)
               /\ Last(path).uid = root.uid
    BY <2>4, <2>6, <2>8, OneRoot DEF Followed
  <2>9. CASE OutOfScope(u) /\ NoPodResult(u)
    <3>1. PICK path \in Seq(KeyRefs) :
            /\ Followed(PodGVK, u, path)
            /\ ResourceSelected(RootVersion(path)) => HasRoot(path) /\ ~ObjectSelected(RootState(path))
      BY <1>3, <2>9 DEF OutOfScope
    <3>2. ~(ObjectSelected(Object(RootVersion(w), root.uid[1])) /\ ResourceSelected(RootVersion(w)))
      BY <2>4, <2>8, <3>1 DEF RootState
    <3> QED
      BY <2>7, <2>9, <3>2 DEF PodOutcomeIsCurrent, NoPodResult
  <2>10. CASE ~(OutOfScope(u) /\ NoPodResult(u))
    BY <1>1, <2>7, <2>8, <2>10 DEF RightPod
  <2> QED
    BY <2>9, <2>10
<1> QED
  BY <1>2, <1>3 DEF PodWanted

\* Once nothing more is queued for a Pod, Store maps it to the root its owner
\* chain ends in, at the version and under the definition that are current.
THEOREM ControllerPodSettled ==
  ASSUME PodsHaveOneVersion
  PROVE  Spec /\ SteadyScope(scenario) => []PodSettled
<1> DEFINE Settled == SteadyScope(scenario) /\ DefsCommitted /\ SettledPods
<1>1. Init => ReadInv
  BY DEF Init, ReadInv, Busy
<1>2. TypeInv /\ ReadInv /\ [Next]_vars => ReadInv'
  BY NextReads
<1>3. Init /\ SteadyScope(scenario) => Settled
  <2> SUFFICES ASSUME Init, SteadyScope(scenario) PROVE DefsCommitted /\ SettledPods
    OBVIOUS
  <2>1. DefsCommitted
    BY DEF Init, DefsCommitted
  <2>2. ASSUME NEW u \in PodUIDs PROVE SettledPod(u)
    <3>1. ~Has(PodGVK, u)
      <4>1. pos[<<PodGVK, u[1]>>] = 0
        BY PodKeyType DEF Init, Keys, SelectedKeys, UIDs
      <4> QED
        BY <4>1 DEF Has, Object, Life
    <3>2. NoPodResult(u) /\ ~Busy(PodJob(u))
      BY DEF Init, NoPodResult, Busy
    <3> QED
      BY <3>1, <3>2 DEF SettledPod, RightPod, OutOfScope, PodWanted
  <2> QED
    BY <2>1, <2>2 DEF SettledPods
<1>4. TypeInv /\ ReadInv /\ MembershipMirror /\ Settled /\ [Next]_vars => Settled'
  <2> SUFFICES ASSUME TypeInv, ReadInv, MembershipMirror, Settled, [Next]_vars PROVE Settled'
    OBVIOUS
  <2>1. DefsCommitted' /\ scenario' = scenario
    BY NextCommitted
  <2>2. SettledPods'
    BY NextSettledPods
  <2>3. SteadyScope(scenario)'
    BY <2>1 DEF SteadyScope, SteadyVersions, NoPodOwns
  <2> QED
    BY <2>1, <2>2, <2>3
<1>5. TypeInv /\ Settled => PodSettled
  BY SettledPodIsRight
<1> HIDE DEF Settled
<1> QED
  BY <1>1, <1>2, <1>3, <1>4, <1>5, ControllerTypeInv, ControllerMembershipMirror, PTL DEF Spec

-------------------------------------------------------------------------------
(* Selected objects *)

\* The controller is to discover the root of the object.
Wanted(x) == Has(x[1], x[2]) /\ ShouldDiscover(defs, x[1])

\* The definitions select another version of the object.
Swapped(x) == SelectedGVK(x[1], defs[KindOf[x[1]]]) # x[1]

\* The key is not tracked, or its object is registered with the root of its chain
\* unless the resource rules leave that root out.
RightRoot(x) ==
  IF Swapped(x) THEN ~Tracked(x[1], x[2])
  ELSE \E path \in Seq(KeyRefs) :
         /\ Followed(x[1], x[2], path)
         /\ ResourceSelected(RootVersion(path)) =>
              Tracked(x[1], x[2]) /\ selectedRoots[x].root = Last(path).uid

\* The job's chain is one that was read from the object.
ReadFrom(x, local) ==
  local.pc \in {"register", "exclude"} =>
    ChainRead(local.path) /\ local.path[1].gvk = x[1] /\ local.path[1].uid = x[2]

\* What the job of a key that is not queued again has learned.
KeyLearned(x, local) ==
  /\ ReadFrom(x, local)
  /\ Rescan \notin dirty /\ Wanted(x) =>
       /\ local.pc # "unregister"
       /\ local.pc = "replace" => Swapped(x)
       /\ local.pc \in {"register", "exclude"} => ~Swapped(x)
       /\ local.pc = "exclude" => ~ResourceSelected(RootVersion(local.path))

\* A key that is not queued: what its job has learned holds, or its root is right.
SettledKey(x) ==
  JobOf(x) \notin dirty =>
    IF Busy(JobOf(x)) THEN KeyLearned(x, job[JobOf(x)])
    ELSE Rescan \notin dirty /\ Wanted(x) => RightRoot(x)

SettledKeys == \A x \in SelectedKeys : SettledKey(x)

\* A step leaves what the root of a key depends on, or queues the key.
KeyCalm(x) ==
  /\ scenario' = scenario
  /\ JobOf(x) \notin dirty' =>
       /\ JobOf(x) \notin dirty
       /\ JobOf(x) \in DOMAIN job' <=> JobOf(x) \in DOMAIN job
       /\ JobOf(x) \in DOMAIN job => job'[JobOf(x)] = job[JobOf(x)]
       /\ selectedRoots'[x] = selectedRoots[x]
       /\ Rescan \notin dirty' =>
            /\ Rescan \notin dirty
            /\ Wanted(x)' => Wanted(x)
            /\ \A g \in GVKs : SelectedGVK(g, defs'[KindOf[g]]) = SelectedGVK(g, defs[KindOf[g]])
            /\ \A path : Followed(x[1], x[2], path) /\ Wanted(x)' => Followed(x[1], x[2], path)'

-------------------------------------------------------------------------------
(* A selected key that is not disturbed stays settled *)

\* The version of a root stays with what the definitions select.
LEMMA SteadyRoot ==
  ASSUME scenario' = scenario,
         \A g \in GVKs : SelectedGVK(g, defs'[KindOf[g]]) = SelectedGVK(g, defs[KindOf[g]])
  PROVE  /\ \A path : Last(path).gvk \in GVKs =>
              ResourceSelected(RootVersion(path))' = ResourceSelected(RootVersion(path))
         /\ \A x \in SelectedKeys : Swapped(x)' <=> Swapped(x)
<1>1. ASSUME NEW path, Last(path).gvk \in GVKs
      PROVE  ResourceSelected(RootVersion(path))' = ResourceSelected(RootVersion(path))
  <2>1. RootVersion(path)' = RootVersion(path)
    BY <1>1 DEF RootVersion, Last
  <2> QED
    BY <2>1 DEF ResourceSelected
<1>2. ASSUME NEW x \in SelectedKeys PROVE Swapped(x)' <=> Swapped(x)
  BY DEF Swapped, SelectedKeys
<1> QED
  BY <1>1, <1>2

\* The root a calm step leaves to a key is still right.
LEMMA RightRootStays ==
  ASSUME NEW x \in SelectedKeys, scenario' = scenario, selectedRoots'[x] = selectedRoots[x], RightRoot(x),
         \A g \in GVKs : SelectedGVK(g, defs'[KindOf[g]]) = SelectedGVK(g, defs[KindOf[g]]),
         \A path : Followed(x[1], x[2], path) => Followed(x[1], x[2], path)'
  PROVE  RightRoot(x)'
<1>1. Swapped(x)' <=> Swapped(x)
  BY SteadyRoot
<1>2. Tracked(x[1], x[2])' <=> Tracked(x[1], x[2])
  BY DEF Tracked, SelectedKeys
<1>3. CASE Swapped(x)
  BY <1>1, <1>2, <1>3 DEF RightRoot
<1>4. CASE ~Swapped(x)
  <2>1. PICK path \in Seq(KeyRefs) :
          /\ Followed(x[1], x[2], path)
          /\ ResourceSelected(RootVersion(path)) =>
               Tracked(x[1], x[2]) /\ selectedRoots[x].root = Last(path).uid
    BY <1>4 DEF RightRoot
  <2>2. Followed(x[1], x[2], path)'
    BY <2>1
  <2>3. path # <<>>
    BY <2>1 DEF Followed, OwnerChain
  <2>4. Last(path).gvk \in GVKs
    BY <2>3, WalkEnd
  <2>5. ResourceSelected(RootVersion(path))' = ResourceSelected(RootVersion(path))
    BY <2>4, SteadyRoot
  <2>6. Last(path)' = Last(path)
    BY DEF Last
  <2> QED
    BY <1>1, <1>2, <1>4, <2>1, <2>2, <2>5, <2>6 DEF RightRoot
<1> QED
  BY <1>3, <1>4

\* A settled key that is not disturbed stays settled.
LEMMA KeyCalmStays ==
  ASSUME TypeInv, [Next]_vars, NEW x \in SelectedKeys, SettledKey(x), KeyCalm(x)
  PROVE  SettledKey(x)'
<1>1. SUFFICES ASSUME JobOf(x) \notin dirty'
               PROVE  IF Busy(JobOf(x))' THEN KeyLearned(x, job[JobOf(x)])'
                      ELSE Rescan \notin dirty' /\ Wanted(x)' => RightRoot(x)'
  BY DEF SettledKey, JobOf, SelectedJob, Rescan
<1>2. /\ scenario' = scenario
      /\ Busy(JobOf(x))' <=> Busy(JobOf(x))
      /\ Busy(JobOf(x)) => job'[JobOf(x)] = job[JobOf(x)]
      /\ selectedRoots'[x] = selectedRoots[x]
  BY <1>1 DEF KeyCalm, Busy, JobOf, SelectedJob
<1>3. ASSUME Rescan \notin dirty', Wanted(x)'
      PROVE  /\ Rescan \notin dirty /\ Wanted(x)
             /\ \A g \in GVKs : SelectedGVK(g, defs'[KindOf[g]]) = SelectedGVK(g, defs[KindOf[g]])
             /\ \A path : Followed(x[1], x[2], path) => Followed(x[1], x[2], path)'
  BY <1>1, <1>3 DEF KeyCalm
<1>4. IF Busy(JobOf(x)) THEN KeyLearned(x, job[JobOf(x)])
      ELSE Rescan \notin dirty /\ Wanted(x) => RightRoot(x)
  BY <1>1 DEF KeyCalm, SettledKey
<1>5. CASE Busy(JobOf(x))
  <2>1. PICK local : local = job[JobOf(x)]
    OBVIOUS
  <2>2. KeyLearned(x, local) /\ job'[JobOf(x)] = local
    BY <1>2, <1>4, <1>5, <2>1
  <2>3. ReadFrom(x, local)'
    BY <2>2, ReadsStay DEF KeyLearned, ReadFrom
  <2>4. ASSUME Rescan \notin dirty', Wanted(x)'
        PROVE  /\ local.pc # "unregister"
               /\ local.pc = "replace" => Swapped(x)'
               /\ local.pc \in {"register", "exclude"} => ~Swapped(x)'
               /\ local.pc = "exclude" => ~ResourceSelected(RootVersion(local.path))'
    <3>1. Swapped(x)' <=> Swapped(x)
      BY <1>2, <1>3, <2>4, SteadyRoot
    <3>2. ASSUME local.pc = "exclude"
          PROVE  ResourceSelected(RootVersion(local.path))' = ResourceSelected(RootVersion(local.path))
      <4>1. local.path \in Seq(KeyRefs) /\ local.path # <<>>
        BY <2>2, <3>2 DEF KeyLearned, ReadFrom, ChainRead
      <4>2. Last(local.path).gvk \in GVKs
        BY <4>1, WalkEnd
      <4> QED
        BY <1>2, <1>3, <2>4, <4>2, SteadyRoot
    <3> QED
      BY <1>3, <2>2, <2>4, <3>1, <3>2 DEF KeyLearned
  <2>5. KeyLearned(x, local)'
    BY <2>3, <2>4 DEF KeyLearned, Rescan
  <2> QED
    BY <1>2, <1>5, <2>2, <2>5
<1>6. CASE ~Busy(JobOf(x))
  <2>1. ASSUME Rescan \notin dirty', Wanted(x)' PROVE RightRoot(x)'
    BY <1>2, <1>3, <1>4, <1>6, <2>1, RightRootStays
  <2> QED
    BY <1>2, <1>6, <2>1
<1> QED
  BY <1>5, <1>6

-------------------------------------------------------------------------------
(* The steps that leave a selected key alone *)

\* An event queues the key of a new object and of one whose owner changes.
LEMMA EventQueuesKey ==
  ASSUME NEW x \in SelectedKeys, NEW g, NEW o, <<x[1], x[2][1]>> = <<g, o>>, ShouldDiscover(defs, g),
         NEW old, NEW new, new # None, new.inc = x[2][2], OwnershipChanged(old, new)
  PROVE  JobOf(x) \in Affected(g, o, old, new)
<1>1. x[1] = g /\ x[2] = <<o, new.inc>>
  BY DEF SelectedKeys, UIDs
<1>2. SelectedJob(g, <<o, new.inc>>) \in Affected(g, o, old, new)
  BY DEF Affected
<1> QED
  BY <1>1, <1>2 DEF JobOf

\* An event: one object has a new state.
LEMMA WatchEventCalmKey ==
  ASSUME TypeInv, PodsHaveOneVersion, NEW x \in SelectedKeys,
         NEW g \in GVKs, NEW o \in Objects, WatchEvent(g, o)
  PROVE  KeyCalm(x)
<1> DEFINE k == <<g, o>>
           old == Object(g, o)
           new == life[o][pos[k] + 1]
           start == <<x[1], x[2][1]>>
<1>0. PosOK
  BY DEF TypeInv
<1>1. /\ UNCHANGED <<selectedRoots, defs, scenario, job>> /\ dirty \subseteq dirty'
      /\ dirty' = dirty \cup Affected(g, o, old, new)
      /\ KindOfObject[o] = KindOf[g] /\ k \in Keys
  BY DEF WatchEvent, membershipVars, definitionVars, environmentVars, Keys
<1>2. /\ Object(g, o)' = new
      /\ \A y \in Keys : y # k => pos'[y] = pos[y]
  <2>1. pos'[k] = pos[k] + 1 /\ pos[k] \in Nat /\ \A y \in Keys : y # k => pos'[y] = pos[y]
    BY <1>0, <1>1 DEF WatchEvent, PosOK
  <2> QED
    BY <1>1, <2>1 DEF Object, Life, life
<1>3. new = life[o][pos[<<g, o>>] + 1]
  OBVIOUS
<1> HIDE DEF k, new
<1>4. start \in Keys
  BY DEF SelectedKeys, Keys, UIDs
<1>5. SUFFICES ASSUME JobOf(x) \notin dirty', Wanted(x)', Rescan \notin dirty'
               PROVE  Wanted(x) /\ \A path : Followed(x[1], x[2], path) => Followed(x[1], x[2], path)'
  BY <1>1 DEF KeyCalm
<1>6. Has(x[1], x[2])' /\ ShouldDiscover(defs, x[1])
  BY <1>1, <1>5 DEF Wanted, ShouldDiscover
<1>7. start = k => ~OwnershipChanged(old, new)
  <2> SUFFICES ASSUME start = k, OwnershipChanged(old, new) PROVE FALSE
    OBVIOUS
  <2>1. x[1] = g /\ x[2][1] = o
    BY DEF k
  <2>2. new # None /\ new.inc = x[2][2]
    BY <1>2, <1>6, <2>1 DEF Has
  <2>3. JobOf(x) \in Affected(g, o, old, new)
    BY <1>6, <2>1, <2>2, EventQueuesKey
  <2> QED
    BY <1>1, <1>5, <2>3
<1>8. Has(x[1], x[2])
  <2>1. CASE start = k
    <3>1. x[1] = g /\ x[2][1] = o
      BY <2>1 DEF k
    <3>2. new # None /\ new.inc = x[2][2]
      BY <1>2, <1>6, <3>1 DEF Has
    <3> QED
      BY <1>7, <2>1, <3>1, <3>2 DEF OwnershipChanged, Has
  <2>2. CASE start # k
    <3>1. Object(x[1], x[2][1])' = Object(x[1], x[2][1])
      BY <1>1, <1>2, <1>4, <2>2 DEF Object, Life, life
    <3> QED
      BY <1>6, <3>1 DEF Has
  <2> QED
    BY <2>1, <2>2
<1>9. ASSUME NEW path, Followed(x[1], x[2], path) PROVE Followed(x[1], x[2], path)'
  BY <1>3, <1>5, <1>7, <1>9, EventKeepsChain DEF k
<1> QED
  BY <1>6, <1>8, <1>9 DEF Wanted

\* A step that moves no object and keeps the versions the definitions select.
LEMMA UnmovedCalmKey ==
  ASSUME NEW x \in SelectedKeys,
         UNCHANGED <<scenario, pos, job>>, selectedRoots' = selectedRoots, dirty \subseteq dirty',
         ancestorPods \subseteq ancestorPods',
         Rescan \notin dirty' =>
           \A g \in GVKs : SelectedGVK(g, defs'[KindOf[g]]) = SelectedGVK(g, defs[KindOf[g]]),
         JobOf(x) \notin dirty' /\ Rescan \notin dirty' /\ Has(x[1], x[2]) /\ ShouldDiscover(defs', x[1]) =>
           ShouldDiscover(defs, x[1])
  PROVE  KeyCalm(x)
<1>1. \A path : Followed(x[1], x[2], path) => Followed(x[1], x[2], path)'
  BY ChainUnmoved
<1>2. Has(x[1], x[2])' <=> Has(x[1], x[2])
  BY DEF Has, Object, Life, life
<1>3. ShouldDiscover(defs, x[1])' <=> ShouldDiscover(defs', x[1])
  BY DEF ShouldDiscover
<1>4. JobOf(x) \notin dirty' /\ Rescan \notin dirty' /\ Wanted(x)' => Wanted(x)
  BY <1>2, <1>3 DEF Wanted
<1> QED
  BY <1>1, <1>4 DEF KeyCalm

\* Events, lists and watch failures leave what a key that they do not queue depends on.
LEMMA WatchingCalmKey ==
  ASSUME TypeInv, PodsHaveOneVersion, Watching, NEW x \in SelectedKeys
  PROVE  KeyCalm(x)
<1>1. PICK g \in GVKs :
        \/ \E o \in Objects : WatchEvent(g, o)
        \/ Listing(g)
        \/ \E slot \in Slots :
             \/ \E listing \in BOOLEAN : WatchStarts(g, slot, listing)
             \/ \E err \in WatchErrors : WatchFails(g, slot, err)
  BY DEF Watching
<1>2. CASE \E o \in Objects : WatchEvent(g, o)
  BY <1>2, WatchEventCalmKey
<1>3. CASE Listing(g)
  <2>1. PICK slot \in Slots, at \in Positions(g) : Replace(g, slot, at)
    BY <1>3 DEF Listing
  <2>2. UNCHANGED <<scenario, job, selectedRoots>> /\ dirty \cup {Rescan} \subseteq dirty'
    BY <2>1, Zenon DEF Replace, environmentVars
  <2> QED
    BY <2>2 DEF KeyCalm
<1>4. CASE \E slot \in Slots, listing \in BOOLEAN : WatchStarts(g, slot, listing)
  <2>1. UNCHANGED <<scenario, job, selectedRoots>> /\ dirty \cup {Rescan} \subseteq dirty'
    BY <1>4 DEF WatchStarts, environmentVars, membershipVars, RecoveryWork
  <2> QED
    BY <2>1 DEF KeyCalm
<1>5. CASE \E slot \in Slots, err \in WatchErrors : WatchFails(g, slot, err)
  <2>1. UNCHANGED <<scenario, job, selectedRoots, pos, dirty, defs, ancestorPods>>
    BY <1>5 DEF WatchFails, membershipVars, definitionVars
  <2> QED
    BY <2>1, UnmovedCalmKey
<1> QED
  BY <1>1, <1>2, <1>3, <1>4, <1>5

\* refreshDefinitions queues the objects of the kinds whose definition changes.
LEMMA RefreshCalmKey ==
  ASSUME TypeInv, DefsCommitted, SteadyVersions(scenario), RefreshDefinitions, NEW x \in SelectedKeys
  PROVE  KeyCalm(x)
<1> DEFINE next == IF inventory.err # "none" THEN defs ELSE inventory.defs
           healthChanged == defErr # inventory.err
           changed == {kind \in Kinds : ~SameDefinition(defs[kind], next[kind])}
           concerned == {y \in Keys : Object(y[1], y[2]) # None /\ KindOf[y[1]] \in changed}
           work == UNION {EnqueueObject(next, y[1], y[2]) : y \in concerned}
           start == <<x[1], x[2][1]>>
<1>1. /\ UNCHANGED <<scenario, pos, job, selectedRoots, ancestorPods>> /\ dirty \subseteq dirty'
      /\ defs' = next /\ defErr' = inventory.err
      /\ ~healthChanged /\ changed # {} => DefinitionWork(next, changed) \subseteq dirty'
  BY Zenon DEF RefreshDefinitions, environmentVars, membershipVars
<1>2. ~healthChanged /\ changed # {} => work \subseteq dirty'
  <2>1. work \subseteq DefinitionWork(next, changed)
    BY Zenon DEF DefinitionWork
  <2> HIDE DEF work, next, changed
  <2> QED
    BY <1>1, <2>1
<1>3. Rescan \notin dirty' =>
        /\ \A g \in GVKs : SelectedGVK(g, defs'[KindOf[g]]) = SelectedGVK(g, defs[KindOf[g]])
        /\ ~healthChanged
  BY <1>1, RefreshKeepsVersions
<1>4. ASSUME JobOf(x) \notin dirty', Rescan \notin dirty', Has(x[1], x[2]), ShouldDiscover(defs', x[1])
      PROVE  ShouldDiscover(defs, x[1])
  <2> SUFFICES ASSUME ~ShouldDiscover(defs, x[1]) PROVE FALSE
    OBVIOUS
  <2>1. start \in Keys /\ KindOf[x[1]] \in Kinds
    BY ControllerAssumption DEF SelectedKeys, Keys, UIDs
  <2>2. KindOf[x[1]] \in changed
    <3>1. defs[KindOf[x[1]]] # next[KindOf[x[1]]]
      BY <1>1, <1>4 DEF ShouldDiscover
    <3> HIDE DEF next
    <3> QED
      BY <2>1, <3>1 DEF SameDefinition
  <2>3. Object(x[1], x[2][1]) # None /\ x[2] = <<x[2][1], Object(x[1], x[2][1]).inc>>
    BY <1>4 DEF Has, SelectedKeys, UIDs
  <2>4. start \in concerned
    <3> HIDE DEF changed
    <3> QED
      BY <2>1, <2>2, <2>3
  <2>5. ShouldDiscover(next, x[1])
    BY <1>1, <1>4
  <2>6. JobOf(x) \in EnqueueObject(next, start[1], start[2])
    <3> HIDE DEF next
    <3> QED
      BY <2>3, <2>5 DEF EnqueueObject, JobOf
  <2>7. JobOf(x) \in work
    <3> HIDE DEF concerned, next, start
    <3> QED
      BY <2>4, <2>6, Zenon
  <2> HIDE DEF work, changed, next
  <2> QED
    BY <1>2, <1>3, <1>4, <2>2, <2>7
<1> HIDE DEF next
<1> QED
  BY <1>1, <1>3, <1>4, UnmovedCalmKey

\* The sources worker, and what happens outside.
LEMMA SyncingCalmKey ==
  ASSUME TypeInv, DefsCommitted, SteadyVersions(scenario), Syncing \/ External, NEW x \in SelectedKeys
  PROVE  KeyCalm(x)
<1>1. CASE RefreshDefinitions
  BY <1>1, RefreshCalmKey
<1>2. CASE ~RefreshDefinitions
  <2>1. UNCHANGED <<scenario, job, selectedRoots, pos, dirty, defs, ancestorPods>>
    BY <1>2 DEF Syncing, External, SyncWatch, SyncReturns, InventoryChanges, Install, definitionVars,
                membershipVars, environmentVars
  <2> QED
    BY <2>1, UnmovedCalmKey
<1> QED
  BY <1>1, <1>2

\* After requeueScope, what is not queued is an object that has no root to discover.
LEMMA RequeueScopeSettlesKey ==
  ASSUME TypeInv, [Next]_vars, RequeueScope, NEW x \in SelectedKeys, SettledKey(x)
  PROVE  SettledKey(x)'
<1> DEFINE cached == {y \in Keys : Object(y[1], y[2]) # None}
           work == UNION {EnqueueObject(defs, y[1], y[2]) : y \in cached}
           start == <<x[1], x[2][1]>>
<1>1. /\ UNCHANGED <<scenario, pos, job, selectedRoots, defs>>
      /\ work \subseteq dirty' /\ dirty \ {Rescan} \subseteq dirty'
  BY Zenon DEF RequeueScope, environmentVars, membershipVars, definitionVars
<1>2. SUFFICES ASSUME JobOf(x) \notin dirty'
               PROVE  ~Wanted(x)' /\ (Busy(JobOf(x))' => ReadFrom(x, job[JobOf(x)])')
  BY DEF SettledKey, KeyLearned, JobOf, SelectedJob, Rescan
<1>3. JobOf(x) \notin dirty
  BY <1>1, <1>2, JobsDiffer
<1>4. ~Wanted(x)
  <2> SUFFICES ASSUME Wanted(x) PROVE FALSE
    OBVIOUS
  <2>1. start \in Keys
    BY DEF SelectedKeys, Keys, UIDs
  <2>2. Object(x[1], x[2][1]) # None /\ x[2] = <<x[2][1], Object(x[1], x[2][1]).inc>>
    BY DEF Wanted, Has, SelectedKeys, UIDs
  <2>3. JobOf(x) \in EnqueueObject(defs, start[1], start[2])
    BY <2>2 DEF EnqueueObject, JobOf, Wanted
  <2>4. start \in cached
    BY <2>1, <2>2
  <2>5. JobOf(x) \in work
    <3> HIDE DEF cached, start
    <3> QED
      BY <2>3, <2>4, Zenon
  <2> HIDE DEF work
  <2> QED
    BY <1>1, <1>2, <2>5
<1> HIDE DEF work
<1>5. ~Wanted(x)'
  <2>1. Has(x[1], x[2])' <=> Has(x[1], x[2])
    BY <1>1 DEF Has, Object, Life, life
  <2> QED
    BY <1>1, <1>4, <2>1 DEF Wanted, ShouldDiscover
<1>6. ASSUME Busy(JobOf(x))' PROVE ReadFrom(x, job[JobOf(x)])'
  <2>1. PICK local : local = job[JobOf(x)]
    OBVIOUS
  <2>2. ReadFrom(x, local) /\ job'[JobOf(x)] = local
    BY <1>1, <1>3, <1>6, <2>1 DEF SettledKey, KeyLearned, Busy, JobOf, SelectedJob
  <2>3. ReadFrom(x, local)'
    BY <2>2, ReadsStay DEF ReadFrom
  <2> QED
    BY <2>2, <2>3 DEF JobOf, SelectedJob
<1> QED
  BY <1>5, <1>6

\* A step of another key changes nothing that the root of this one depends on, or
\* queues it.
LEMMA OtherKeyCalmKey ==
  ASSUME NEW x \in SelectedKeys, NEW k, k # JobOf(x), k # Rescan, JobsOnly(k), KeepsOthers(k),
         UNCHANGED <<scenario, pos, defs>>, ancestorPods \subseteq ancestorPods',
         selectedRoots'[x] = selectedRoots[x] \/ JobOf(x) \in dirty'
  PROVE  KeyCalm(x)
<1>1. JobOf(x) \in DOMAIN job' <=> JobOf(x) \in DOMAIN job
  BY DEF JobsOnly, KeepsOthers
<1>2. JobOf(x) \in DOMAIN job => job'[JobOf(x)] = job[JobOf(x)]
  BY <1>1 DEF JobsOnly
<1>3. (JobOf(x) \notin dirty' => JobOf(x) \notin dirty) /\ (Rescan \notin dirty' => Rescan \notin dirty)
  BY DEF KeepsOthers
<1>4. \A path : Followed(x[1], x[2], path) => Followed(x[1], x[2], path)'
  BY ChainUnmoved
<1>5. Wanted(x)' <=> Wanted(x)
  BY DEF Wanted, Has, Object, Life, life, ShouldDiscover
<1> QED
  BY <1>1, <1>2, <1>3, <1>4, <1>5 DEF KeyCalm

\* The jobs of Pods, of roots and of other selected objects: a root that is
\* withdrawn queues its members.
LEMMA OtherJobsCalmKey ==
  ASSUME TypeInv, ReadInv, NEW x \in SelectedKeys,
         \/ \E u \in PodUIDs : PodStep(u)
         \/ \E r \in UIDs : RootStep(r)
         \/ \E y \in SelectedKeys \ {x} : SelectedStep(y)
  PROVE  KeyCalm(x)
<1>0. MemberOK
  BY DEF TypeInv
<1>1. ASSUME NEW u \in PodUIDs, PodStep(u) PROVE KeyCalm(x)
  <2>1. /\ JobsOnly(PodJob(u)) /\ KeepsOthers(PodJob(u))
        /\ PodJob(u) # JobOf(x) /\ PodJob(u) # Rescan
    BY <1>1, PodStepReads, PodStepKeeps, KeysDiffer DEF PodJob, Rescan
  <2>2. UNCHANGED <<scenario, pos, defs>> /\ ancestorPods \subseteq ancestorPods' /\ selectedRoots' = selectedRoots
    BY <1>1 DEF PodStep, ResolvePod, RegisterPodRoot, ReadPodRoot, FailPodEvaluation, PublishPod,
                UnregisterPod, environmentVars, definitionVars, membershipVars
  <2> QED
    BY <2>1, <2>2, OtherKeyCalmKey
<1>2. ASSUME NEW r \in UIDs, RootStep(r) PROVE KeyCalm(x)
  <2>1. /\ JobsOnly(RootJob(r)) /\ KeepsOthers(RootJob(r))
        /\ RootJob(r) # JobOf(x) /\ RootJob(r) # Rescan
    BY <1>2, RootStepReads, RootStepKeeps, KeysDiffer DEF RootJob, Rescan
  <2>2. UNCHANGED <<scenario, pos, defs, ancestorPods>>
    BY <1>2 DEF RootStep, ReadWorkload, WithdrawWorkload, RemoveWorkload, PublishWorkload, environmentVars,
                definitionVars, membershipVars
  <2>3. selectedRoots'[x] = selectedRoots[x] \/ JobOf(x) \in dirty'
    <3>1. CASE WithdrawWorkload(r)
      <4>1. CASE roots[r] # None /\ x \in roots[r].selected
        <5>1. JobOf(x) \in EnqueueMembers(r)
          BY <4>1 DEF EnqueueMembers, JobOf
        <5> QED
          BY <3>1, <4>1, <5>1 DEF WithdrawWorkload, Return
      <4>2. CASE ~(roots[r] # None /\ x \in roots[r].selected)
        BY <3>1, <4>2 DEF WithdrawWorkload
      <4> QED
        BY <4>1, <4>2
    <3>2. CASE ~WithdrawWorkload(r)
      BY <1>2, <3>2 DEF RootStep, ReadWorkload, RemoveWorkload, PublishWorkload, membershipVars
    <3> QED
      BY <3>1, <3>2
  <2> QED
    BY <2>1, <2>2, <2>3, OtherKeyCalmKey
<1>3. ASSUME NEW y \in SelectedKeys, y # x, SelectedStep(y) PROVE KeyCalm(x)
  <2>1. /\ JobsOnly(JobOf(y)) /\ KeepsOthers(JobOf(y)) /\ selectedRoots'[x] = selectedRoots[x]
        /\ JobOf(y) # JobOf(x) /\ JobOf(y) # Rescan
    BY <1>3, SelectedStepJobs, SelectedStepKeeps, JobsDiffer
  <2>2. UNCHANGED <<scenario, pos, defs>> /\ ancestorPods \subseteq ancestorPods'
    BY <1>3 DEF SelectedStep, ResolveSelectedObject, ReplaceSelectedObjectTracking, RegisterSelectedObjectRoot,
                ExcludeSelectedObject, UnregisterSelectedObject, environmentVars, definitionVars, membershipVars
  <2> QED
    BY <2>1, <2>2, OtherKeyCalmKey
<1> QED
  BY <1>1, <1>2, <1>3

-------------------------------------------------------------------------------
(* The steps of a selected object's own job *)

\* A key that is queued again, or whose discovery failed, is settled.
LEMMA QueuedSettlesKey ==
  ASSUME NEW x
  PROVE  /\ JobOf(x) \in dirty' => SettledKey(x)'
         /\ \A taken, work : Return(JobOf(x), taken, work, TRUE) => SettledKey(x)'
         /\ FailSelected(x) => SettledKey(x)'
<1>1. JobOf(x) \in dirty' => SettledKey(x)'
  BY DEF SettledKey, JobOf, SelectedJob
<1>2. \A taken, work : Return(JobOf(x), taken, work, TRUE) => JobOf(x) \in dirty'
  BY DEF Return
<1>3. FailSelected(x) => Return(JobOf(x), {JobOf(x)}, {}, TRUE)
  BY DEF FailSelected
<1> QED
  BY <1>1, <1>2, <1>3

\* A job that goes on with what holds leaves its key settled.
LEMMA LearnedSettlesKey ==
  ASSUME NEW x, NEW local, JobOf(x) \in DOMAIN job', job'[JobOf(x)] = local, KeyLearned(x, local)'
  PROVE  SettledKey(x)'
<1>1. KeyLearned(x, job[JobOf(x)])'
  BY DEF KeyLearned, ReadFrom, JobOf, SelectedJob
<1> QED
  BY <1>1 DEF SettledKey, Busy, JobOf, SelectedJob

\* A job that returns with the right root leaves its key settled.
LEMMA DoneSettlesKey ==
  ASSUME NEW x, JobOf(x) \notin DOMAIN job', Rescan \notin dirty' /\ Wanted(x)' => RightRoot(x)'
  PROVE  SettledKey(x)'
BY DEF SettledKey, Busy, JobOf, SelectedJob, Rescan

\* The steps of a selected object's job change no object and no definition.
LEMMA OwnKeyFrame ==
  ASSUME TypeInv, NEW x \in SelectedKeys, SelectedStep(x)
  PROVE  /\ UNCHANGED <<scenario, pos, defs>> /\ ancestorPods \subseteq ancestorPods'
         /\ Wanted(x)' <=> Wanted(x)
         /\ Swapped(x)' <=> Swapped(x)
         /\ Rescan \notin dirty' => Rescan \notin dirty
         /\ \A path : OwnerChain(x[1], x[2], path) => OwnerChain(x[1], x[2], path)'
         /\ \A path : Followed(x[1], x[2], path) => Followed(x[1], x[2], path)'
         /\ \A path : /\ Last(path)' = Last(path)
                      /\ ResourceSelected(RootVersion(path))' = ResourceSelected(RootVersion(path))
<1>1. UNCHANGED <<scenario, pos, defs>> /\ ancestorPods \subseteq ancestorPods'
  BY DEF SelectedStep, ResolveSelectedObject, ReplaceSelectedObjectTracking, RegisterSelectedObjectRoot,
         ExcludeSelectedObject, UnregisterSelectedObject, environmentVars, definitionVars, membershipVars
<1>2. \A g, o : Object(g, o)' = Object(g, o)
  BY <1>1 DEF Object, Life, life
<1>3. Wanted(x)' <=> Wanted(x)
  BY <1>1, <1>2 DEF Wanted, Has, ShouldDiscover
<1>4. Swapped(x)' <=> Swapped(x)
  BY <1>1 DEF Swapped
<1>5. Rescan \notin dirty' => Rescan \notin dirty
  <2>1. KeepsOthers(JobOf(x)) /\ JobOf(x) # Rescan
    BY SelectedStepKeeps, JobsDiffer
  <2> QED
    BY <2>1 DEF KeepsOthers
<1>6. \A path : OwnerChain(x[1], x[2], path) => OwnerChain(x[1], x[2], path)'
  BY <1>2 DEF OwnerChain, ObjectAt, Has, Last, NamesOwner, EndsChain
<1>7. \A path : Followed(x[1], x[2], path) => Followed(x[1], x[2], path)'
  BY <1>1, ChainUnmoved
<1>8. ASSUME NEW path
      PROVE  /\ Last(path)' = Last(path)
             /\ ResourceSelected(RootVersion(path))' = ResourceSelected(RootVersion(path))
  <2>1. RootVersion(path)' = RootVersion(path) /\ Last(path)' = Last(path)
    BY <1>1 DEF RootVersion, Last
  <2> QED
    BY <1>1, <2>1 DEF ResourceSelected
<1> QED
  BY <1>1, <1>3, <1>4, <1>5, <1>6, <1>7, <1>8

\* resolveSelectedObjectRoot's reads: what the job goes on with holds, and its
\* errors queue the key again.
LEMMA ResolveSelectedSettles ==
  ASSUME TypeInv, NEW x \in SelectedKeys, ResolveSelectedObject(x)
  PROVE  SettledKey(x)'
<1> DEFINE k == JobOf(x)
           def == defs[KindOf[x[1]]]
           start == CachedRef(<<x[1], x[2][1]>>)
           err == Lookup(Ref(x[1], x[2], 0), FALSE)
<1>0. EnvOK /\ WatchOK /\ PosOK /\ DefOK
  BY DEF TypeInv
<1>1. \/ FailSelected(x)
      \/ Return(k, {k}, {}, TRUE)
      \/ \E local : local.pc = "replace" /\ def # None /\ def.gvk # x[1] /\ Continue(k, {k}, local)
      \/ err = "notfound" /\ Continue(k, {k}, Local("unregister"))
      \/ /\ err = "none" /\ ~(def # None /\ def.gvk # x[1])
         /\ \E path \in Walks(start) :
              /\ WalkErr(path) = "none"
              /\ \E local : /\ local.pc = IF ResourceSelected(RootVersion(path)) THEN "register" ELSE "exclude"
                            /\ local.path = path /\ Continue(k, {k}, local)
  <2>1. CASE def # None /\ def.gvk # x[1]
    BY <2>1 DEF ResolveSelectedObject, Local
  <2>2. CASE ~(def # None /\ def.gvk # x[1]) /\ err = "notfound"
    BY <2>2 DEF ResolveSelectedObject
  <2>3. CASE ~(def # None /\ def.gvk # x[1]) /\ err \notin {"none", "notfound"}
    BY <2>3 DEF ResolveSelectedObject
  <2>4. CASE ~(def # None /\ def.gvk # x[1]) /\ err = "none" /\ ~FailSelected(x)
    <3>1. PICK path \in Walks(start) :
            /\ WalkErr(path) = "none"
            /\ Continue(k, {k}, [Local(IF ResourceSelected(SelectedGVK(Last(path).gvk, defs[KindOf[Last(path).gvk]]))
                                       THEN "register" ELSE "exclude")
                                 EXCEPT !.path = path, !.version = defVersion])
      BY <2>4 DEF ResolveSelectedObject
    <3>2. PICK local :
            local = [Local(IF ResourceSelected(RootVersion(path)) THEN "register" ELSE "exclude")
                     EXCEPT !.path = path, !.version = defVersion]
      OBVIOUS
    <3>3. Continue(k, {k}, local)
      BY <3>1, <3>2 DEF RootVersion
    <3>4. local.path = path /\ local.pc = IF ResourceSelected(RootVersion(path)) THEN "register" ELSE "exclude"
      BY <3>2 DEF Local
    <3> QED
      BY <2>4, <3>1, <3>3, <3>4
  <2> QED
    BY <2>1, <2>2, <2>3, <2>4
<1>2. /\ Wanted(x)' <=> Wanted(x)
      /\ Swapped(x)' <=> Swapped(x)
      /\ \A path : ResourceSelected(RootVersion(path))' = ResourceSelected(RootVersion(path))
  BY OwnKeyFrame DEF SelectedStep
<1>3. Swapped(x) <=> def # None /\ def.gvk # x[1]
  BY DEF Swapped, SelectedGVK
<1>4. \A local : Continue(k, {k}, local) => k \in DOMAIN job' /\ job'[k] = local
  BY HandlerJobs
<1>5. CASE FailSelected(x) \/ Return(k, {k}, {}, TRUE)
  BY <1>5, QueuedSettlesKey
<1>6. ASSUME NEW local, local.pc = "replace", def # None, def.gvk # x[1], Continue(k, {k}, local)
      PROVE  SettledKey(x)'
  <2>1. KeyLearned(x, local)'
    BY <1>2, <1>3, <1>6 DEF KeyLearned, ReadFrom
  <2> QED
    BY <1>4, <1>6, <2>1, LearnedSettlesKey
<1>7. CASE err = "notfound" /\ Continue(k, {k}, Local("unregister"))
  <2>1. PICK local : local = Local("unregister")
    OBVIOUS
  <2>2. local.pc = "unregister"
    BY <2>1 DEF Local
  <2>3. ~Has(x[1], x[2])
    <3>1. /\ Ref(x[1], x[2], 0).gvk = x[1] /\ Ref(x[1], x[2], 0).uid = x[2] /\ x[1] \in GVKs
      BY DEF Ref, SelectedKeys
    <3>2. WatchErrors \subseteq {"denied", "unavailable"} /\ watches[x[1]] \in WatchRecord \cup {None}
      BY <1>0, <3>1, ControllerAssumption DEF WatchOK
    <3> QED
      BY <1>7, <3>1, <3>2, NoneAssumption DEF Lookup, WatchRecord
  <2>4. ~Wanted(x)'
    BY <1>2, <2>3 DEF Wanted
  <2>5. KeyLearned(x, local)'
    BY <2>2, <2>4 DEF KeyLearned, ReadFrom
  <2> QED
    BY <1>4, <1>7, <2>1, <2>5, LearnedSettlesKey
<1>8. ASSUME err = "none", ~(def # None /\ def.gvk # x[1]), NEW path \in Walks(start), WalkErr(path) = "none",
             NEW local, local.path = path, Continue(k, {k}, local),
             local.pc = IF ResourceSelected(RootVersion(path)) THEN "register" ELSE "exclude"
      PROVE  SettledKey(x)'
  <2>1. /\ start = Ref(x[1], x[2], pos[<<x[1], x[2][1]>>]) /\ start \in KeyRefs /\ Current(start)
    BY <1>0, <1>8, ReadIsCurrent
  <2>2. WalkOK(start, path) /\ EndsChain(ObjectAt(Last(path)))
    BY <1>0, <1>8, <2>1, WalksAreWalks
  <2>3. start.gvk = x[1] /\ start.uid = x[2] /\ start.rv = pos[<<x[1], x[2][1]>>]
    BY <2>1 DEF Ref
  <2> HIDE DEF start
  <2>4. ChainRead(path)
    BY <1>0, <2>1, <2>2, <2>3, WalkIsRead
  <2>5. path[1] = start
    BY <2>2 DEF WalkOK
  <2>6. ChainRead(path)'
    <3>1. [Next]_vars
      BY DEF Next, SelectedStep
    <3> QED
      BY <2>4, <3>1, ReadsStay
  <2>7. ReadFrom(x, local)'
    BY <1>8, <2>3, <2>5, <2>6 DEF ReadFrom
  <2>8. ~Swapped(x)'
    BY <1>2, <1>3, <1>8
  <2>9. local.pc \in {"register", "exclude"}
    BY <1>8
  <2>10. local.pc = "exclude" => ~ResourceSelected(RootVersion(local.path))'
    BY <1>2, <1>8
  <2>11. KeyLearned(x, local)'
    BY <2>7, <2>8, <2>9, <2>10 DEF KeyLearned
  <2> QED
    BY <1>4, <1>8, <2>11, LearnedSettlesKey
<1> HIDE DEF k, def, start, err
<1> QED
  BY <1>1, <1>5, <1>6, <1>7, <1>8

\* What the job of a key that is not queued has learned, and the chain it has read.
LEMMA KeyJobReads ==
  ASSUME TypeInv, NEW x \in SelectedKeys, SettledKey(x), Busy(JobOf(x)), JobOf(x) \notin dirty,
         NEW local, local = job[JobOf(x)]
  PROVE  /\ KeyLearned(x, local)
         /\ local.pc \in {"register", "exclude"} =>
              /\ local.path \in Seq(KeyRefs)
              /\ PathCurrent(local.path) => OwnerChain(x[1], x[2], local.path)
<1>1. KeyLearned(x, local)
  BY DEF SettledKey
<1>2. ASSUME local.pc \in {"register", "exclude"}
      PROVE  /\ local.path \in Seq(KeyRefs)
             /\ PathCurrent(local.path) => OwnerChain(x[1], x[2], local.path)
  <2>1. ChainRead(local.path) /\ local.path[1].gvk = x[1] /\ local.path[1].uid = x[2]
    BY <1>1, <1>2 DEF KeyLearned, ReadFrom
  <2> QED
    BY <2>1, ReadIsChain DEF TypeInv, ChainRead
<1> QED
  BY <1>1, <1>2

\* replaceSelectedObjectTracking drops the key of a version the definitions do
\* not select.
LEMMA ReplaceSettlesKey ==
  ASSUME TypeInv, NEW x \in SelectedKeys, Busy(JobOf(x)), ReplaceSelectedObjectTracking(x), SettledKey(x)
  PROVE  SettledKey(x)'
<1> DEFINE k == JobOf(x)
<1>0. MemberOK
  BY DEF TypeInv
<1>1. PICK local : local = job[k]
  OBVIOUS
<1>2. local.pc = "replace"
  BY <1>1 DEF ReplaceSelectedObjectTracking, At
<1>3. \/ \E work : Return(k, {}, work, TRUE)
      \/ /\ \E work : Return(k, {}, work, FALSE)
         /\ selectedRoots' = [selectedRoots EXCEPT ![x] = None]
  BY DEF ReplaceSelectedObjectTracking
<1>4. CASE \E work : Return(k, {}, work, TRUE)
  BY <1>4, QueuedSettlesKey
<1>5. CASE /\ \E work : Return(k, {}, work, FALSE)
           /\ selectedRoots' = [selectedRoots EXCEPT ![x] = None]
  <2>1. CASE k \in dirty'
    BY <2>1, QueuedSettlesKey
  <2>2. CASE k \notin dirty'
    <3>1. k \notin dirty /\ k \notin DOMAIN job'
      BY <1>5, <2>2 DEF Return, Restrict
    <3>2. KeyLearned(x, local)
      BY <1>1, <3>1, KeyJobReads
    <3>3. selectedRoots'[x] = None
      BY <1>0, <1>5 DEF MemberOK
    <3>4. ASSUME Rescan \notin dirty', Wanted(x)' PROVE RightRoot(x)'
      <4>1. Swapped(x)'
        BY <1>2, <3>2, <3>4, OwnKeyFrame DEF KeyLearned, SelectedStep
      <4>2. ~Tracked(x[1], x[2])'
        <5>1. x = <<x[1], x[2]>>
          BY DEF SelectedKeys
        <5> QED
          BY <3>3, <5>1 DEF Tracked
      <4> QED
        BY <4>1, <4>2 DEF RightRoot
    <3> QED
      BY <3>1, <3>4, DoneSettlesKey
  <2> QED
    BY <2>1, <2>2
<1> QED
  BY <1>3, <1>4, <1>5

\* registerSelectedObjectRoot registers the object with the root of its chain.
LEMMA RegisterSettlesKey ==
  ASSUME TypeInv, NEW x \in SelectedKeys, Busy(JobOf(x)), RegisterSelectedObjectRoot(x), SettledKey(x)
  PROVE  SettledKey(x)'
<1> DEFINE k == JobOf(x)
<1>0. MemberOK
  BY DEF TypeInv
<1>1. PICK local : local = job[k]
  OBVIOUS
<1>2. local.pc = "register"
  BY <1>1 DEF RegisterSelectedObjectRoot, At
<1>3. \/ Return(k, {}, {}, TRUE)
      \/ /\ PathCurrent(local.path) /\ \E work : Return(k, {}, work, FALSE)
         /\ ancestorPods' = ancestorPods \cup PathPods(local.path)
         /\ selectedRoots' = [selectedRoots EXCEPT ![x] = [root |-> Last(local.path).uid, exclusion |-> None]]
  BY <1>1 DEF RegisterSelectedObjectRoot, InputsCurrent, RootOf
<1>4. CASE Return(k, {}, {}, TRUE)
  BY <1>4, QueuedSettlesKey
<1>5. CASE /\ PathCurrent(local.path) /\ \E work : Return(k, {}, work, FALSE)
           /\ ancestorPods' = ancestorPods \cup PathPods(local.path)
           /\ selectedRoots' = [selectedRoots EXCEPT ![x] = [root |-> Last(local.path).uid, exclusion |-> None]]
  <2>1. CASE k \in dirty'
    BY <2>1, QueuedSettlesKey
  <2>2. CASE k \notin dirty'
    <3>1. k \notin dirty /\ k \notin DOMAIN job'
      BY <1>5, <2>2 DEF Return, Restrict
    <3>2. /\ KeyLearned(x, local) /\ local.path \in Seq(KeyRefs)
          /\ OwnerChain(x[1], x[2], local.path)
      BY <1>1, <1>2, <1>5, <3>1, KeyJobReads
    <3>3. PICK outcome : outcome = [root |-> Last(local.path).uid, exclusion |-> None]
      OBVIOUS
    <3>4. outcome.root = Last(local.path).uid /\ outcome # None
      <4>1. Last(local.path).uid \in UIDs
        <5>1. local.path # <<>>
          BY <3>2 DEF OwnerChain
        <5> QED
          BY <3>2, <5>1, WalkEnd
      <4>2. outcome \in Outcome
        BY <3>3, <4>1 DEF Outcome
      <4> QED
        BY <3>3, <4>2, NoneAssumption
    <3>5. selectedRoots'[x] = outcome
      BY <1>0, <1>5, <3>3 DEF MemberOK
    <3>6. Tracked(x[1], x[2])'
      <4>1. x = <<x[1], x[2]>>
        BY DEF SelectedKeys
      <4> QED
        BY <3>4, <3>5, <4>1 DEF Tracked
    <3>7. /\ \A path : OwnerChain(x[1], x[2], path) => OwnerChain(x[1], x[2], path)'
          /\ \A path : Last(path)' = Last(path)
          /\ Rescan \notin dirty' => Rescan \notin dirty
          /\ Wanted(x)' <=> Wanted(x)
          /\ Swapped(x)' <=> Swapped(x)
      BY OwnKeyFrame DEF SelectedStep
    <3>8. Followed(x[1], x[2], local.path)'
      BY <1>5, <3>2, <3>7 DEF Followed, PathPods
    <3>9. ASSUME Rescan \notin dirty', Wanted(x)' PROVE RightRoot(x)'
      <4>1. ~Swapped(x)'
        BY <1>2, <3>2, <3>7, <3>9 DEF KeyLearned
      <4>2. selectedRoots'[x].root = Last(local.path)'.uid
        BY <3>4, <3>5, <3>7
      <4> QED
        BY <3>2, <3>6, <3>8, <4>1, <4>2 DEF RightRoot
    <3> QED
      BY <3>1, <3>9, DoneSettlesKey
  <2> QED
    BY <2>1, <2>2
<1> QED
  BY <1>3, <1>4, <1>5

\* excludeSelectedObject: the resource rules leave the root out.  Where they may,
\* the chain has no Pods to remember.
LEMMA ExcludeSettlesKey ==
  ASSUME TypeInv, SteadyScope(scenario), NEW x \in SelectedKeys, Busy(JobOf(x)), ExcludeSelectedObject(x),
         SettledKey(x)
  PROVE  SettledKey(x)'
<1> DEFINE k == JobOf(x)
<1>0. EnvOK /\ PosOK
  BY DEF TypeInv
<1>1. PICK local : local = job[k]
  OBVIOUS
<1>2. local.pc = "exclude"
  BY <1>1 DEF ExcludeSelectedObject, At
<1>3. \/ Return(k, {}, {}, TRUE)
      \/ PathCurrent(local.path) /\ \E work : Return(k, {}, work, FALSE)
  BY <1>1 DEF ExcludeSelectedObject, InputsCurrent
<1>4. CASE Return(k, {}, {}, TRUE)
  BY <1>4, QueuedSettlesKey
<1>5. CASE PathCurrent(local.path) /\ \E work : Return(k, {}, work, FALSE)
  <2>1. CASE k \in dirty'
    BY <2>1, QueuedSettlesKey
  <2>2. CASE k \notin dirty'
    <3>1. k \notin dirty /\ k \notin DOMAIN job'
      BY <1>5, <2>2 DEF Return, Restrict
    <3>2. /\ KeyLearned(x, local) /\ local.path \in Seq(KeyRefs)
          /\ OwnerChain(x[1], x[2], local.path)
      BY <1>1, <1>2, <1>5, <3>1, KeyJobReads
    <3>3. /\ \A path : Followed(x[1], x[2], path) => Followed(x[1], x[2], path)'
          /\ \A path : ResourceSelected(RootVersion(path))' = ResourceSelected(RootVersion(path))
          /\ Rescan \notin dirty' => Rescan \notin dirty
          /\ Wanted(x)' <=> Wanted(x)
          /\ Swapped(x)' <=> Swapped(x)
      BY OwnKeyFrame DEF SelectedStep
    <3>4. ASSUME Rescan \notin dirty', Wanted(x)' PROVE RightRoot(x)'
      <4>1. ~Swapped(x)' /\ ~ResourceSelected(RootVersion(local.path))
        BY <1>2, <3>2, <3>3, <3>4 DEF KeyLearned
      <4>2. PathPods(local.path) = {}
        <5>1. scenario.filters
          BY <4>1 DEF ResourceSelected
        <5> QED
          BY <1>0, <3>2, <5>1, NoPathPods DEF SteadyScope
      <4>3. Followed(x[1], x[2], local.path)'
        BY <3>2, <3>3, <4>2 DEF Followed
      <4>4. ~ResourceSelected(RootVersion(local.path))'
        BY <3>3, <4>1
      <4> QED
        BY <3>2, <4>1, <4>3, <4>4 DEF RightRoot
    <3> QED
      BY <3>1, <3>4, DoneSettlesKey
  <2> QED
    BY <2>1, <2>2
<1> QED
  BY <1>3, <1>4, <1>5

\* unregisterSelectedObject forgets an object that is gone.
LEMMA UnregisterSettlesKey ==
  ASSUME TypeInv, NEW x \in SelectedKeys, Busy(JobOf(x)), UnregisterSelectedObject(x), SettledKey(x)
  PROVE  SettledKey(x)'
<1> DEFINE k == JobOf(x)
<1>1. PICK local : local = job[k]
  OBVIOUS
<1>2. local.pc = "unregister" /\ \E work : Return(k, {}, work, FALSE)
  BY <1>1 DEF UnregisterSelectedObject, At
<1>3. CASE k \in dirty'
  BY <1>3, QueuedSettlesKey
<1>4. CASE k \notin dirty'
  <2>1. k \notin dirty /\ k \notin DOMAIN job'
    BY <1>2, <1>4 DEF Return, Restrict
  <2>2. KeyLearned(x, local)
    BY <1>1, <2>1, KeyJobReads
  <2>3. (Rescan \notin dirty' => Rescan \notin dirty) /\ (Wanted(x)' <=> Wanted(x))
    BY OwnKeyFrame DEF SelectedStep
  <2>4. ~(Rescan \notin dirty' /\ Wanted(x)')
    BY <1>2, <2>2, <2>3 DEF KeyLearned
  <2> QED
    BY <2>1, <2>4, DoneSettlesKey
<1> QED
  BY <1>3, <1>4

\* The steps of a selected object's own job.
LEMMA OwnStepSettlesKey ==
  ASSUME TypeInv, SteadyScope(scenario), NEW x \in SelectedKeys, SelectedStep(x), SettledKey(x)
  PROVE  SettledKey(x)'
BY ResolveSelectedSettles, ReplaceSettlesKey, RegisterSettlesKey, ExcludeSettlesKey, UnregisterSettlesKey
   DEF SelectedStep

-------------------------------------------------------------------------------
(* Every selected object *)

\* Every step keeps every selected key settled.
LEMMA NextSettledKeys ==
  ASSUME TypeInv, ReadInv, PodsHaveOneVersion, SteadyScope(scenario), DefsCommitted,
         SettledKeys, [Next]_vars
  PROVE  SettledKeys'
<1> SUFFICES ASSUME NEW x \in SelectedKeys PROVE SettledKey(x)'
  BY DEF SettledKeys, SelectedKeys, UIDs, Incarnations, States
<1>0. SettledKey(x)
  BY DEF SettledKeys
<1>1. CASE Watching
  BY <1>0, <1>1, WatchingCalmKey, KeyCalmStays
<1>2. CASE Syncing \/ External
  BY <1>0, <1>2, SyncingCalmKey, KeyCalmStays DEF SteadyScope
<1>3. CASE RequeueScope
  BY <1>0, <1>3, RequeueScopeSettlesKey
<1>4. CASE (\E u \in PodUIDs : PodStep(u)) \/ (\E r \in UIDs : RootStep(r))
  BY <1>0, <1>4, OtherJobsCalmKey, KeyCalmStays
<1>5. ASSUME NEW y \in SelectedKeys, SelectedStep(y) PROVE SettledKey(x)'
  <2>1. CASE y = x
    BY <1>0, <1>5, <2>1, OwnStepSettlesKey
  <2>2. CASE y # x
    BY <1>0, <1>5, <2>2, OtherJobsCalmKey, KeyCalmStays
  <2> QED
    BY <2>1, <2>2
<1>6. CASE UNCHANGED vars
  <2>1. UNCHANGED <<scenario, job, selectedRoots, pos, dirty, defs, ancestorPods>>
    BY <1>6 DEF vars, environmentVars, definitionVars, membershipVars
  <2>2. KeyCalm(x)
    BY <2>1, UnmovedCalmKey
  <2> QED
    BY <1>0, <2>2, KeyCalmStays
<1> QED
  BY <1>1, <1>2, <1>3, <1>4, <1>5, <1>6 DEF Next

\* The root of a settled key is tracked.
LEMMA SettledKeysAreRight ==
  ASSUME TypeInv, MembershipMirror, PodsHaveOneVersion, SettledKeys
  PROVE  SelectedSettled
<1>0. EnvOK /\ WatchOK /\ PosOK /\ DefOK
  BY DEF TypeInv
<1> SUFFICES ASSUME NEW x \in SelectedKeys, Quiet(JobOf(x)), Rescan \notin dirty,
                    Lookup(Ref(x[1], x[2], 0), FALSE) = "none"
             PROVE  IF defs[KindOf[x[1]]] # None /\ defs[KindOf[x[1]]].gvk # x[1] THEN ~Tracked(x[1], x[2])
                    ELSE ShouldDiscover(defs, x[1]) =>
                           \A root \in RootsFrom(CachedRef(<<x[1], x[2][1]>>)) :
                             ResourceSelected(SelectedGVK(root.gvk, defs[KindOf[root.gvk]])) =>
                               roots[root.uid] # None
  BY DEF SelectedSettled
<1> DEFINE def == defs[KindOf[x[1]]]
           start == CachedRef(<<x[1], x[2][1]>>)
<1>1. Wanted(x) => RightRoot(x)
  BY DEF SettledKeys, SettledKey, Quiet
<1>2. Swapped(x) <=> def # None /\ def.gvk # x[1]
  BY DEF Swapped, SelectedGVK
<1>3. /\ start = Ref(x[1], x[2], pos[<<x[1], x[2][1]>>]) /\ start \in KeyRefs /\ Current(start)
  BY <1>0, ReadIsCurrent
<1>4. start.gvk = x[1] /\ start.uid = x[2]
  BY <1>3 DEF Ref
<1>5. Has(x[1], x[2])
  BY <1>0, <1>3, <1>4 DEF Current, Lookup
<1>6. ASSUME Swapped(x) PROVE ShouldDiscover(defs, x[1])
  <2> SUFFICES ASSUME x[1] = PodGVK PROVE FALSE
    BY DEF ShouldDiscover
  <2>1. def.gvk \in GVKs /\ KindOf[def.gvk] = KindOf[PodGVK]
    <3>1. KindOf[x[1]] \in Kinds
      BY ControllerAssumption DEF SelectedKeys
    <3>2. def \in Definition
      BY <1>0, <1>2, <1>6, <3>1 DEF DefOK
    <3> QED
      BY <1>0, <1>2, <1>6, <3>1, <3>2 DEF DefOK, Definition
  <2> QED
    BY <1>2, <1>6, <2>1 DEF PodsHaveOneVersion
<1>7. CASE Swapped(x)
  BY <1>1, <1>2, <1>5, <1>6, <1>7 DEF Wanted, RightRoot
<1>8. CASE ~Swapped(x)
  <2> SUFFICES ASSUME ShouldDiscover(defs, x[1]), NEW root \in RootsFrom(start),
                      ResourceSelected(SelectedGVK(root.gvk, defs[KindOf[root.gvk]]))
               PROVE  roots[root.uid] # None
    BY <1>2, <1>8
  <2>1. PICK path \in Seq(KeyRefs) :
          /\ Followed(x[1], x[2], path)
          /\ ResourceSelected(RootVersion(path)) =>
               Tracked(x[1], x[2]) /\ selectedRoots[x].root = Last(path).uid
    BY <1>1, <1>5, <1>8 DEF Wanted, RightRoot
  <2>2. PICK w \in Walks(start) : root = Last(w) /\ WalkErr(w) = "none"
    BY DEF RootsFrom
  <2> HIDE DEF start
  <2>3. OwnerChain(x[1], x[2], w)
    BY <1>0, <1>3, <1>4, <2>2, WalksAreWalks, WalkIsChain
  <2>4. RootVersion(w) = RootVersion(path) /\ Last(path).uid = root.uid
    BY <2>1, <2>2, <2>3, OneRoot DEF Followed
  <2>5. RootVersion(w) = SelectedGVK(root.gvk, defs[KindOf[root.gvk]])
    BY <2>2 DEF RootVersion
  <2>6. Tracked(x[1], x[2]) /\ selectedRoots[x].root = root.uid
    BY <2>1, <2>4, <2>5
  <2>7. root.uid \in UIDs
    BY <1>0, <2>2, <2>3, ChainRoot
  <2>8. x \in SelectedOf(roots, root.uid)
    <3>1. x = <<x[1], x[2]>>
      BY DEF SelectedKeys
    <3>2. MemberOf(selectedRoots, x) = root.uid
      BY <2>6, <3>1 DEF MemberOf, Tracked
    <3> QED
      BY <2>7, <3>2, MirrorForms DEF Mirror
  <2> QED
    BY <2>8 DEF SelectedOf
<1> HIDE DEF def, start
<1> QED
  BY <1>7, <1>8

\* Once nothing more is queued for a cached object, the root its owner chain ends
\* in is tracked, with Pods or without, and an object in a version the definitions
\* do not select is not tracked.
THEOREM ControllerSelectedSettled ==
  ASSUME PodsHaveOneVersion
  PROVE  Spec /\ SteadyScope(scenario) => []SelectedSettled
<1> DEFINE Settled == SteadyScope(scenario) /\ DefsCommitted /\ SettledKeys
<1>1. Init => ReadInv
  BY DEF Init, ReadInv, Busy
<1>2. TypeInv /\ ReadInv /\ [Next]_vars => ReadInv'
  BY NextReads
<1>3. Init /\ SteadyScope(scenario) => Settled
  <2> SUFFICES ASSUME Init, SteadyScope(scenario) PROVE DefsCommitted /\ SettledKeys
    OBVIOUS
  <2>1. DefsCommitted
    BY DEF Init, DefsCommitted
  <2>2. ASSUME NEW x \in SelectedKeys PROVE SettledKey(x)
    <3>1. ~Has(x[1], x[2])
      <4>1. pos[<<x[1], x[2][1]>>] = 0
        BY DEF Init, Keys, SelectedKeys, UIDs
      <4> QED
        BY <4>1 DEF Has, Object, Life
    <3>2. ~Busy(JobOf(x))
      BY DEF Init, Busy
    <3> QED
      BY <3>1, <3>2 DEF SettledKey, Wanted
  <2> QED
    BY <2>1, <2>2 DEF SettledKeys
<1>4. TypeInv /\ ReadInv /\ Settled /\ [Next]_vars => Settled'
  <2> SUFFICES ASSUME TypeInv, ReadInv, Settled, [Next]_vars PROVE Settled'
    OBVIOUS
  <2>1. DefsCommitted' /\ scenario' = scenario
    BY NextCommitted
  <2>2. SettledKeys'
    BY NextSettledKeys
  <2>3. SteadyScope(scenario)'
    BY <2>1 DEF SteadyScope, SteadyVersions, NoPodOwns
  <2> QED
    BY <2>1, <2>2, <2>3
<1>5. TypeInv /\ MembershipMirror /\ Settled => SelectedSettled
  BY SettledKeysAreRight
<1> HIDE DEF Settled
<1> QED
  BY <1>1, <1>2, <1>3, <1>4, <1>5, ControllerTypeInv, ControllerMembershipMirror, PTL DEF Spec
===============================================================================
