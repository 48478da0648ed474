--------------------------- MODULE ControllerProofs ---------------------------
(***************************************************************************)
(* What the controller guarantees in every reachable state, for every set  *)
(* of objects, kinds and scenarios: its types, honest source health,       *)
(* membership that agrees in both directions, workload results that        *)
(* something can withdraw, and no member or discovery failure without a    *)
(* job.                                                                    *)
(***************************************************************************)
EXTENDS Controller, FiniteSetTheorems, NaturalsInduction, WellFoundedInduction, TLAPS

-------------------------------------------------------------------------------
(* The inductive invariant, one conjunct per group of variables.  Beyond      *)
(* TypeOK, a version is always one of the object's kind, positions are within *)
(* the lives, and a job has what its next step needs.                         *)

\* References whose version is one of the object's kind.
KeyRefs == {ref \in Refs : KindOf[ref.gvk] = KindOfObject[ref.uid[1]]}

EnvOK ==
  /\ scenario \in Scenarios
  /\ unmapped \subseteq scenario.unserved /\ inventory \in scenario.snapshots
  /\ inventoryLeft \in 0..scenario.changes /\ failuresLeft \in 0..scenario.faults

WatchOK ==
  /\ watches \in [GVKs -> WatchRecord \cup {None}]
  /\ replacements \in [GVKs -> WatchRecord \cup {None}]
  /\ watchFailures \subseteq GVKs \X {"sources", "job"}
  /\ health \in [GVKs -> HealthRecord \cup {None}]

PosOK ==
  /\ pos \in [Keys -> Nat]
  /\ \A k \in Keys : pos[k] <= Len(life[k[2]])

MemberOK ==
  /\ roots \in [UIDs -> Root \cup {None}]
  /\ \A u \in UIDs : roots[u] # None => KindOf[roots[u].gvk] = KindOfObject[u[1]]
  /\ podRoots \in [PodUIDs -> UIDs \cup {None}]
  /\ selectedRoots \in [SelectedKeys -> Outcome \cup {None}]
  /\ ancestorPods \subseteq PodUIDs

DefOK ==
  /\ defs \in [Kinds -> Definition \cup {None}] /\ defErr \in Errors /\ defVersion \in Nat
  /\ \A kind \in Kinds : defs[kind] # None => KindOf[defs[kind].gvk] = kind
  /\ syncWorker \in [queued : BOOLEAN, busy : BOOLEAN, failed : BOOLEAN, todo : SUBSET GVKs]

AllJobs == PodJobs \cup WorkloadJobs
DirtyOK == dirty \subseteq AllJobs \cup {Rescan}

JobRecord ==
  [pc : Steps, path : Seq(Refs), def : Definition \cup {None}, err : Errors,
   version : Nat, ref : Refs \cup {None}]

\* What a handler has learned suffices for its next step.
LocalOK(k, local) ==
  /\ local \in JobRecord
  /\ local.path \in Seq(KeyRefs)
  /\ local.pc \in {"register", "readRoot", "exclude"} => local.path # <<>>
  /\ local.pc \in {"register", "readRoot"} /\ local.def # None =>
       KindOf[local.def.gvk] = KindOf[Last(local.path).gvk]
  /\ local.pc \in {"publish", "failEvaluation"} => local.ref \in KeyRefs
  /\ local.pc = "publish" /\ k[1] = "root" => local.ref.uid = k[2]
  /\ local.pc = "replace" => local.def # None /\ KindOf[local.def.gvk] = KindOf[k[2]]

JobOK ==
  /\ DOMAIN job \subseteq AllJobs
  /\ job = [k \in DOMAIN job |-> job[k]]
  /\ \A k \in DOMAIN job : LocalOK(k, job[k])

StoreOK ==
  /\ pods \in [PodUIDs -> PodResult \cup {None}]
  /\ workloads \in [UIDs -> WorkloadResult \cup {None}]
  /\ failures \subseteq UIDs

TypeInv == EnvOK /\ WatchOK /\ PosOK /\ MemberOK /\ DefOK /\ DirtyOK /\ JobOK /\ StoreOK

\* The inductive invariant implies the type invariant.
LEMMA TypeInvImpliesTypeOK == TypeInv => TypeOK
<1> SUFFICES ASSUME TypeInv PROVE TypeOK
  OBVIOUS
<1>1. job \in [DOMAIN job -> JobRecord] /\ DOMAIN job \subseteq PodJobs \cup WorkloadJobs
  BY DEF TypeInv, JobOK, LocalOK, AllJobs
<1> QED
  BY <1>1 DEF TypeInv, TypeOK, EnvOK, WatchOK, PosOK, MemberOK, DefOK, DirtyOK, StoreOK, AllJobs,
              JobRecord, PodResult, WorkloadResult, HealthRecord

-------------------------------------------------------------------------------
(* Objects and positions *)

\* A state of the cache is None or a state of the object's life.
LEMMA LifeType ==
  ASSUME scenario \in Scenarios, NEW o \in Objects, NEW i \in 1..Len(life[o])
  PROVE  /\ life[o] \in Seq(States \cup {None})
         /\ life[o][i] \in States \cup {None}
         /\ life[o][i] # None => <<o, life[o][i].inc>> \in UIDs
<1>1. life[o] \in Seq(States \cup {None})
  BY OwnersAssumption DEF life
<1>2. life[o][i] \in States \cup {None}
  BY <1>1
<1>3. life[o][i] # None => life[o][i].inc \in Incarnations
  BY <1>2 DEF Incarnations
<1> QED
  BY <1>1, <1>2, <1>3 DEF UIDs

\* An object in a cache is a state of its life, with a UID.
LEMMA ObjectType ==
  ASSUME EnvOK, PosOK, NEW g \in GVKs, NEW o \in Objects, KindOf[g] = KindOfObject[o]
  PROVE  /\ <<g, o>> \in Keys /\ pos[<<g, o>>] \in Nat /\ pos[<<g, o>>] <= Len(life[o])
         /\ Object(g, o) \in States \cup {None}
         /\ Object(g, o) # None => <<o, Object(g, o).inc>> \in UIDs
<1>1. <<g, o>> \in Keys
  BY DEF Keys
<1>2. pos[<<g, o>>] \in Nat /\ pos[<<g, o>>] <= Len(life[o])
  BY <1>1 DEF PosOK
<1>3. CASE pos[<<g, o>>] = 0
  BY <1>1, <1>2, <1>3 DEF Object, Life
<1>4. CASE pos[<<g, o>>] # 0
  <2>1. Len(life[o]) \in Nat
    BY OwnersAssumption DEF life, EnvOK
  <2>2. pos[<<g, o>>] \in 1..Len(life[o])
    BY <1>2, <1>4, <2>1
  <2> QED
    BY <1>1, <1>2, <1>4, <2>2, LifeType DEF Object, Life, EnvOK
<1> QED
  BY <1>3, <1>4

\* What a current reference says of the object it names.
LEMMA CurrentObject ==
  ASSUME EnvOK, PosOK, WatchOK, NEW ref \in KeyRefs, Current(ref)
  PROVE  /\ ObjectAt(ref) \in States
         /\ ref.uid = <<ref.uid[1], ObjectAt(ref).inc>>
         /\ <<ref.gvk, ref.uid[1]>> \in Keys /\ pos[<<ref.gvk, ref.uid[1]>>] \in Nat
         /\ ref.rv \in {0, pos[<<ref.gvk, ref.uid[1]>>]}
<1>1. ref.gvk \in GVKs /\ ref.uid[1] \in Objects /\ ref.uid = <<ref.uid[1], ref.uid[2]>>
        /\ KindOf[ref.gvk] = KindOfObject[ref.uid[1]]
  BY DEF KeyRefs, Refs, UIDs
<1>2. Has(ref.gvk, ref.uid) /\ ref.rv \in {0, pos[<<ref.gvk, ref.uid[1]>>]}
  BY DEF Current, Lookup
<1> QED
  BY <1>1, <1>2, ObjectType DEF Has, ObjectAt

-------------------------------------------------------------------------------
(* Induction and recursive functions over the naturals *)

\* Every nonempty set of naturals has a least element.
LEMMA LeastNat ==
  ASSUME NEW T \in SUBSET Nat, T # {}
  PROVE  \E n \in T : \A m \in T : n <= m
<1> DEFINE R == OpToRel(<, Nat)
<1>1. IsWellFoundedOn(R, Nat)
  BY NatLessThanWellFounded, Zenon
<1>2. PICK n \in T : \A m \in T : ~(<<m, n>> \in R)
  <2> HIDE DEF R
  <2> QED
    BY <1>1, WFMin, Zenon
<1>3. \A m \in T : ~(m < n)
  BY <1>2 DEF OpToRel
<1> QED
  BY <1>3

\* A function can be iterated any number of times from any start.
LEMMA Iteration ==
  ASSUME NEW S, NEW start \in S, NEW F \in [S -> S], NEW N \in Nat \ {0}
  PROVE  \E f \in [1..N -> S] : f = [n \in 1..N |-> IF n = 1 THEN start ELSE F[f[n - 1]]]
<1> DEFINE Iterates(n, f) ==
             f \in [1..n -> S] /\ f = [i \in 1..n |-> IF i = 1 THEN start ELSE F[f[i - 1]]]
           Failing == {n \in Nat \ {0} : \A f \in [1..n -> S] : ~Iterates(n, f)}
<1>1. SUFFICES Failing = {}
  BY <1>1
<1>2. SUFFICES ASSUME Failing # {} PROVE FALSE
  OBVIOUS
<1>3. PICK n \in Failing : \A m \in Failing : n <= m
  <2>1. Failing \in SUBSET Nat
    OBVIOUS
  <2>2. \A T \in SUBSET Nat : T # {} => \E n \in T : \A m \in T : n <= m
    BY LeastNat, Zenon
  <2> HIDE DEF Failing
  <2> QED
    BY <1>2, <2>1, <2>2
<1>4. CASE n = 1
  <2> DEFINE h == [i \in 1..1 |-> start]
  <2>1. h \in [1..1 -> S] /\ h = [i \in 1..1 |-> IF i = 1 THEN start ELSE F[h[i - 1]]]
    OBVIOUS
  <2> QED
    BY <1>3, <1>4, <2>1
<1>5. CASE n # 1
  <2>0. n \in Nat \ {0}
    BY <1>3
  <2>1. n - 1 \in Nat \ {0} /\ n - 1 \notin Failing
    <3> HIDE DEF Failing
    <3> QED
      BY <1>3, <1>5, <2>0
  <2>2. PICK g \in [1..(n - 1) -> S] : Iterates(n - 1, g)
    BY <2>1
  <2> DEFINE h == [i \in 1..n |-> IF i = n THEN F[g[n - 1]] ELSE g[i]]
  <2>3. h \in [1..n -> S]
    BY <1>5, <2>1, <2>2
  <2>4. ASSUME NEW i \in 1..n PROVE h[i] = IF i = 1 THEN start ELSE F[h[i - 1]]
    <3>1. CASE i = n
      BY <1>5, <2>0, <2>1, <2>2, <3>1
    <3>2. CASE i # n
      <4>1. i \in 1..(n - 1) /\ (i # 1 => i - 1 \in 1..(n - 1) /\ i - 1 # n)
        BY <2>0, <3>2
      <4>2. g[i] = IF i = 1 THEN start ELSE F[g[i - 1]]
        BY <2>2, <4>1
      <4>3. h[i] = g[i] /\ (i # 1 => h[i - 1] = g[i - 1])
        BY <2>0, <3>2, <4>1
      <4> QED
        BY <4>2, <4>3
    <3> QED
      BY <3>1, <3>2
  <2>5. h = [i \in 1..n |-> IF i = 1 THEN start ELSE F[h[i - 1]]]
    BY <2>3, <2>4
  <2>6. Iterates(n, h)
    BY <2>3, <2>5
  <2> QED
    BY <1>3, <2>6, <2>3
<1> QED
  BY <1>4, <1>5

-------------------------------------------------------------------------------
(* Discovery: the path Get follows *)

\* The owner is the one the cached child names, and its cache entry is usable.
Linked(child, owner) ==
  /\ NamesOwner(ObjectAt(child))
  /\ owner.gvk = ObjectAt(child).owner.gvk /\ owner.uid = ObjectAt(child).owner.uid
  /\ owner.rv = pos[<<owner.gvk, owner.uid[1]>>]
  /\ ~Unmapped(owner.gvk) /\ Current(owner)

\* A walk from ref: every object is the owner of the one before it and none is
\* met twice.
WalkOK(ref, path) ==
  /\ path \in Seq(KeyRefs) /\ Len(path) >= 1 /\ path[1] = ref
  /\ \A i \in 2..Len(path) : Linked(path[i - 1], path[i])
  /\ \A i, j \in 1..Len(path) : path[i].uid = path[j].uid => i = j

\* The walk after n rounds.
RoundOK(ref, n, path) ==
  WalkOK(ref, path) /\ (Len(path) = n \/ (Len(path) < n /\ Finished(path)))

\* Every object of a walk from a current reference is current.
LEMMA WalkCurrent ==
  ASSUME NEW ref \in KeyRefs, Current(ref), NEW path, WalkOK(ref, path), NEW i \in 1..Len(path)
  PROVE  path[i] \in KeyRefs /\ Current(path[i])
<1>1. path[i] \in KeyRefs
  BY DEF WalkOK
<1>2. CASE i = 1
  BY <1>1, <1>2 DEF WalkOK
<1>3. CASE i # 1
  <2>1. Len(path) \in Nat
    BY DEF WalkOK
  <2>2. i \in 2..Len(path)
    BY <1>3, <2>1
  <2> QED
    BY <1>1, <2>2 DEF WalkOK, Linked
<1> QED
  BY <1>2, <1>3

\* A walk that is not finished goes on to the owner of its last object.
LEMMA NextOwner ==
  ASSUME EnvOK, WatchOK, PosOK, NEW ref \in KeyRefs, Current(ref), NEW path, WalkOK(ref, path),
         ~Finished(path)
  PROVE  LET owner == CachedRef(<<OwnerRef(path).gvk, OwnerRef(path).uid[1]>>)
         IN  /\ Extended(path) = Append(path, owner)
             /\ owner \in KeyRefs /\ Linked(Last(path), owner)
             /\ owner.uid \notin Seen(path)
<1> DEFINE next == OwnerRef(path)
           owner == CachedRef(<<next.gvk, next.uid[1]>>)
           child == ObjectAt(Last(path))
<1>1. Last(path) \in KeyRefs /\ Current(Last(path))
  <2>1. Len(path) \in 1..Len(path)
    BY DEF WalkOK
  <2> QED
    BY <2>1, WalkCurrent DEF Last
<1>2. child \in States
  BY <1>1, CurrentObject
<1>3. NamesOwner(child) /\ next.uid \notin Seen(path) /\ ~Unmapped(next.gvk)
        /\ Lookup(next, FALSE) = "none"
  BY DEF Finished, WalkErr, NamesOwner, FailureReason
<1>4. <<child.owner.gvk, child.owner.uid>> \in SelectedKeys
  BY <1>2, <1>3, OwnersAssumption
<1>5. next \in KeyRefs /\ next.gvk = child.owner.gvk /\ next.uid = child.owner.uid /\ next.rv = 0
  BY <1>4 DEF OwnerRef, Ref, KeyRefs, Refs, SelectedKeys
<1>6. Current(next)
  BY <1>3 DEF Current
<1>7. /\ ObjectAt(next) \in States /\ next.uid = <<next.uid[1], ObjectAt(next).inc>>
      /\ <<next.gvk, next.uid[1]>> \in Keys /\ pos[<<next.gvk, next.uid[1]>>] \in Nat
  BY <1>5, <1>6, CurrentObject
<1>8. owner = [gvk |-> next.gvk, uid |-> next.uid, rv |-> pos[<<next.gvk, next.uid[1]>>]]
  BY <1>7 DEF CachedRef, Ref, ObjectAt
<1>9. owner \in KeyRefs
  BY <1>5, <1>7, <1>8 DEF KeyRefs, Refs
<1>10. Current(owner)
  <2> HIDE DEF next
  <2> QED
    BY <1>6, <1>8 DEF Current, Lookup
<1>11. Linked(Last(path), owner)
  BY <1>3, <1>5, <1>8, <1>10 DEF Linked
<1> QED
  BY <1>3, <1>8, <1>9, <1>11 DEF Extended

\* One more round of a walk is a walk.
LEMMA ExtendedWalk ==
  ASSUME EnvOK, WatchOK, PosOK, NEW ref \in KeyRefs, Current(ref),
         NEW n \in Nat, NEW path, RoundOK(ref, n, path)
  PROVE  RoundOK(ref, n + 1, Extended(path))
<1>0. WalkOK(ref, path) /\ Len(path) \in Nat
  BY DEF RoundOK, WalkOK
<1>1. CASE Finished(path)
  BY <1>0, <1>1 DEF RoundOK, Extended
<1>2. CASE ~Finished(path)
  <2> DEFINE owner == CachedRef(<<OwnerRef(path).gvk, OwnerRef(path).uid[1]>>)
             more == Append(path, owner)
  <2>1. /\ Extended(path) = more
        /\ owner \in KeyRefs /\ Linked(Last(path), owner) /\ owner.uid \notin Seen(path)
    BY <1>0, <1>2, NextOwner
  <2> HIDE DEF owner
  <2>2. /\ more \in Seq(KeyRefs) /\ Len(more) = Len(path) + 1
        /\ \A i \in 1..Len(path) : more[i] = path[i]
        /\ more[Len(path) + 1] = owner
    BY <1>0, <2>1 DEF WalkOK
  <2>3. ASSUME NEW i \in 2..Len(more) PROVE Linked(more[i - 1], more[i])
    <3>1. CASE i = Len(path) + 1
      <4>1. more[i - 1] = Last(path) /\ more[i] = owner
        BY <1>0, <2>2, <3>1 DEF WalkOK, Last
      <4> QED
        BY <2>1, <4>1
    <3>2. CASE i # Len(path) + 1
      <4>1. i \in 2..Len(path) /\ i - 1 \in 1..Len(path) /\ i \in 1..Len(path)
        BY <1>0, <2>2, <3>2
      <4> QED
        BY <1>0, <2>2, <4>1 DEF WalkOK
    <3> QED
      BY <3>1, <3>2
  <2>4. ASSUME NEW i \in 1..Len(more), NEW j \in 1..Len(more), more[i].uid = more[j].uid
        PROVE  i = j
    <3>1. \A m \in 1..Len(path) : path[m].uid # owner.uid
      BY <1>0, <2>1 DEF Seen, WalkOK
    <3>2. \A m \in 1..Len(more) : m \in 1..Len(path) \/ m = Len(path) + 1
      BY <1>0, <2>2
    <3> QED
      BY <1>0, <2>2, <2>4, <3>1, <3>2 DEF WalkOK
  <2>5. WalkOK(ref, more)
    BY <1>0, <2>2, <2>3, <2>4 DEF WalkOK
  <2> QED
    BY <1>0, <1>2, <2>1, <2>2, <2>5 DEF RoundOK
<1> QED
  BY <1>1, <1>2

\* A walk meets no UID twice, so it is no longer than there are UIDs.
LEMMA WalkLength ==
  ASSUME NEW ref, NEW path, WalkOK(ref, path)
  PROVE  Len(path) \in Nat /\ Cardinality(UIDs) \in Nat /\ Len(path) <= Cardinality(UIDs)
<1> DEFINE f == [i \in 1..Len(path) |-> path[i].uid]
<1>1. path \in Seq(KeyRefs) /\ Len(path) \in Nat
  BY DEF WalkOK
<1>2. IsFiniteSet(UIDs) /\ Cardinality(UIDs) \in Nat
  BY OwnersAssumption, FS_CardinalityType
<1>3. IsFiniteSet(1..Len(path)) /\ Cardinality(1..Len(path)) = Len(path)
  BY <1>1, FS_Interval
<1>4. f \in [1..Len(path) -> UIDs]
  BY <1>1 DEF KeyRefs, Refs
<1>5. SUFFICES ASSUME Cardinality(UIDs) < Cardinality(1..Len(path)) PROVE FALSE
  BY <1>1, <1>2, <1>3
<1>6. \E i, j \in 1..Len(path) : i # j /\ f[i] = f[j]
  <2> HIDE DEF f
  <2> QED
    BY <1>2, <1>3, <1>4, <1>5, FS_PigeonHole
<1> QED
  BY <1>6 DEF WalkOK

\* The first round is the object itself.
LEMMA FirstRound ==
  ASSUME NEW ref \in KeyRefs
  PROVE  RoundOK(ref, 1, <<ref>>) /\ WalkOK(ref, <<ref>>) /\ Len(<<ref>>) = 1
BY DEF RoundOK, WalkOK

\* The rounds of Walks are what their definition says.
LEMMA WalkRounds ==
  ASSUME EnvOK, WatchOK, PosOK, NEW ref \in KeyRefs, Current(ref)
  PROVE  \E round : /\ Cardinality(UIDs) \in Nat \ {0}
                    /\ Walks(ref) = round[Cardinality(UIDs)]
                    /\ round[1] = {<<ref>>}
                    /\ \A n \in 2..Cardinality(UIDs) : round[n] = {Extended(path) : path \in round[n - 1]}
<1> DEFINE N == Cardinality(UIDs)
           P == {path \in Seq(KeyRefs) : \E n \in Nat : RoundOK(ref, n, path)}
           F == [s \in SUBSET P |-> {Extended(path) : path \in s}]
<1>1. RoundOK(ref, 1, <<ref>>)
  BY FirstRound
<1>2. N \in Nat \ {0}
  <2>1. Cardinality(UIDs) \in Nat /\ Len(<<ref>>) <= Cardinality(UIDs)
    BY FirstRound, WalkLength, Zenon
  <2> QED
    BY <2>1, FirstRound
<1>3. {<<ref>>} \in SUBSET P
  BY <1>1
<1>4. F \in [SUBSET P -> SUBSET P]
  <2>1. ASSUME NEW path \in P PROVE Extended(path) \in P
    <3>1. PICK n \in Nat : RoundOK(ref, n, path)
      BY <2>1
    <3>2. RoundOK(ref, n + 1, Extended(path)) /\ n + 1 \in Nat
      BY <3>1, ExtendedWalk
    <3>3. Extended(path) \in Seq(KeyRefs)
      BY <3>2 DEF RoundOK, WalkOK
    <3> QED
      BY <3>2, <3>3
  <2> HIDE DEF P
  <2> QED
    BY <2>1
<1>5. PICK f : f = [n \in 1..N |-> IF n = 1 THEN {<<ref>>} ELSE {Extended(path) : path \in f[n - 1]}]
  <2> HIDE DEF P
  <2>1. PICK f \in [1..N -> SUBSET P] : f = [n \in 1..N |-> IF n = 1 THEN {<<ref>>} ELSE F[f[n - 1]]]
    <3> DEFINE S == SUBSET P
               start == {<<ref>>}
    <3>1. start \in S /\ F \in [S -> S] /\ N \in Nat \ {0}
      BY <1>2, <1>3, <1>4, Zenon
    <3> HIDE DEF F, N, S, start
    <3>2. \E f \in [1..N -> S] : f = [n \in 1..N |-> IF n = 1 THEN start ELSE F[f[n - 1]]]
      BY <3>1, Iteration
    <3> QED
      BY <3>2, Zenon DEF S, start
  <2>2. \A n \in 1..N : n # 1 => f[n - 1] \in SUBSET P
    <3> HIDE DEF F, N
    <3>1. \A n \in 1..N : n # 1 => n - 1 \in 1..N
      BY <1>2
    <3> QED
      BY <2>1, <3>1, Zenon
  <2>3. \A n \in 1..N : n # 1 => F[f[n - 1]] = {Extended(path) : path \in f[n - 1]}
    BY <2>2
  <2>4. f = [n \in 1..N |-> IF n = 1 THEN {<<ref>>} ELSE {Extended(path) : path \in f[n - 1]}]
    BY <2>1, <2>3
  <2> QED
    BY <2>4
<1> DEFINE round == CHOOSE g : g = [n \in 1..N |-> IF n = 1 THEN {<<ref>>}
                                                   ELSE {Extended(path) : path \in g[n - 1]}]
<1>6. Walks(ref) = round[N]
  BY Zenon DEF Walks
<1>7. round = [n \in 1..N |-> IF n = 1 THEN {<<ref>>} ELSE {Extended(path) : path \in round[n - 1]}]
  BY <1>5, Zenon
<1> HIDE DEF round, N
<1>8. /\ round[1] = {<<ref>>}
      /\ \A n \in 2..N : round[n] = {Extended(path) : path \in round[n - 1]}
  BY <1>2, <1>7
<1> QED
  BY <1>2, <1>6, <1>8 DEF N

\* The paths of Walks are walks that cannot go on, and one without error ends in
\* an object that names no owner.
LEMMA WalksAreWalks ==
  ASSUME EnvOK, WatchOK, PosOK, NEW ref \in KeyRefs, Current(ref), NEW path \in Walks(ref)
  PROVE  /\ WalkOK(ref, path) /\ Finished(path)
         /\ WalkErr(path) = "none" => EndsChain(ObjectAt(Last(path)))
<1> DEFINE N == Cardinality(UIDs)
<1>1. PICK round : /\ N \in Nat \ {0} /\ Walks(ref) = round[N]
                   /\ round[1] = {<<ref>>}
                   /\ \A n \in 2..N : round[n] = {Extended(p) : p \in round[n - 1]}
  BY WalkRounds
<1> DEFINE Failing == {n \in 1..N : \E p \in round[n] : ~RoundOK(ref, n, p)}
<1> HIDE DEF N
<1>2. Failing = {}
  <2>1. SUFFICES ASSUME Failing # {} PROVE FALSE
    OBVIOUS
  <2>2. PICK n \in Failing : \A m \in Failing : n <= m
    <3>1. Failing \in SUBSET Nat
      BY <1>1
    <3>2. \A T \in SUBSET Nat : T # {} => \E n \in T : \A m \in T : n <= m
      BY LeastNat, Zenon
    <3> HIDE DEF Failing
    <3> QED
      BY <2>1, <3>1, <3>2
  <2>3. PICK p \in round[n] : ~RoundOK(ref, n, p)
    BY <2>2
  <2>4. n \in 1..N
    BY <2>2
  <2>5. CASE n = 1
    <3>1. p = <<ref>>
      BY <1>1, <2>3, <2>5
    <3> QED
      BY <2>3, <2>5, <3>1, FirstRound
  <2>6. CASE n # 1
    <3>1. n \in 2..N /\ n - 1 \in 1..N /\ n - 1 \in Nat /\ (n - 1) + 1 = n
      BY <1>1, <2>4, <2>6
    <3>2. n - 1 \notin Failing
      <4> HIDE DEF Failing
      <4> QED
        BY <2>2, <2>4, <3>1
    <3>3. PICK q \in round[n - 1] : p = Extended(q)
      BY <1>1, <2>3, <3>1
    <3>4. RoundOK(ref, n - 1, q)
      BY <3>1, <3>2, <3>3
    <3>5. RoundOK(ref, n, p)
      BY <3>1, <3>3, <3>4, ExtendedWalk
    <3> QED
      BY <2>3, <3>5
  <2> QED
    BY <2>5, <2>6
<1>3. RoundOK(ref, N, path)
  BY <1>1, <1>2
<1>4. WalkOK(ref, path)
  BY <1>3 DEF RoundOK
<1>5. Finished(path)
  <2>1. SUFFICES ASSUME ~Finished(path) PROVE FALSE
    OBVIOUS
  <2>2. RoundOK(ref, N + 1, Extended(path)) /\ Len(path) = N
    BY <1>1, <1>3, <2>1, ExtendedWalk DEF RoundOK
  <2>3. Len(Extended(path)) <= N /\ Len(Extended(path)) \in Nat
    BY <2>2, WalkLength DEF RoundOK, N
  <2>4. Extended(path) = Append(path, CachedRef(<<OwnerRef(path).gvk, OwnerRef(path).uid[1]>>))
    BY <2>1 DEF Extended
  <2>5. Len(Extended(path)) = Len(path) + 1
    BY <1>4, <2>4 DEF WalkOK
  <2> QED
    BY <1>1, <2>2, <2>3, <2>5
<1> QED
  BY <1>4, <1>5 DEF Finished

-------------------------------------------------------------------------------
(* What is queued is a key of some object *)

\* The keys of Pods, roots and selected objects are jobs.
LEMMA JobTypes ==
  /\ \A u \in PodUIDs : PodJob(u) \in AllJobs
  /\ \A u \in UIDs : RootJob(u) \in AllJobs
  /\ \A x \in SelectedKeys : JobOf(x) \in AllJobs /\ SelectedJob(x[1], x[2]) \in AllJobs
BY DEF AllJobs, PodJobs, WorkloadJobs, RootJobs, SelectedJobs, JobOf

\* A state of an object of kind KindOf[g] gives a key of version g.
LEMMA StateKeys ==
  ASSUME NEW g \in GVKs, NEW o \in Objects, KindOf[g] = KindOfObject[o],
         NEW s, <<o, s.inc>> \in UIDs
  PROVE  /\ <<g, <<o, s.inc>>>> \in SelectedKeys
         /\ SelectedJob(g, <<o, s.inc>>) \in AllJobs /\ RootJob(<<o, s.inc>>) \in AllJobs
         /\ g = PodGVK => <<o, s.inc>> \in PodUIDs
<1>1. <<g, <<o, s.inc>>>> \in SelectedKeys
  BY DEF SelectedKeys
<1>2. g = PodGVK => <<o, s.inc>> \in PodUIDs
  BY DEF PodUIDs
<1> QED
  BY <1>1, <1>2, JobTypes

\* enqueuePod enqueues the job of the Pod seen, if it is a Pod.
LEMMA EnqueuePodType ==
  ASSUME NEW g \in GVKs, NEW o \in Objects, KindOf[g] = KindOfObject[o],
         NEW s, s # None => <<o, s.inc>> \in UIDs
  PROVE  EnqueuePod(g, o, s) \subseteq AllJobs
<1>1. CASE s = None \/ g # PodGVK
  BY <1>1 DEF EnqueuePod
<1>2. CASE ~(s = None \/ g # PodGVK)
  <2>1. PodJob(<<o, s.inc>>) \in AllJobs
    BY <1>2, StateKeys, JobTypes
  <2> QED
    BY <1>2, <2>1 DEF EnqueuePod
<1> QED
  BY <1>1, <1>2

\* What is enqueued for a root are jobs of its recorded members and its own.
LEMMA MembersType ==
  ASSUME MemberOK, NEW u \in UIDs
  PROVE  /\ roots[u] # None => EnqueueMembers(u) \subseteq AllJobs
         /\ roots[u] # None => {PodJob(p) : p \in roots[u].pods} \subseteq AllJobs
         /\ EnqueueRootAndMembers(u) \subseteq AllJobs
<1>1. roots[u] # None => roots[u].pods \subseteq PodUIDs /\ roots[u].selected \subseteq SelectedKeys
  BY DEF MemberOK, Root
<1> QED
  BY <1>1, JobTypes DEF EnqueueMembers, EnqueueRootAndMembers

\* enqueueObject adds keys of the two queues only.
LEMMA EnqueueObjectType ==
  ASSUME EnvOK, PosOK, NEW d, NEW k \in Keys, Object(k[1], k[2]) # None
  PROVE  EnqueueObject(d, k[1], k[2]) \subseteq AllJobs
<1>1. k[1] \in GVKs /\ k[2] \in Objects /\ KindOf[k[1]] = KindOfObject[k[2]]
  BY DEF Keys
<1>2. <<k[2], Object(k[1], k[2]).inc>> \in UIDs
  BY <1>1, ObjectType
<1>3. EnqueuePod(k[1], k[2], Object(k[1], k[2])) \subseteq AllJobs
  BY <1>1, <1>2, EnqueuePodType
<1>4. SelectedJob(k[1], <<k[2], Object(k[1], k[2]).inc>>) \in AllJobs
  BY <1>1, <1>2, StateKeys
<1> QED
  BY <1>3, <1>4 DEF EnqueueObject

\* queueObjectChange queues keys of the object, of its root and of the root's members.
LEMMA AffectedType ==
  ASSUME MemberOK, NEW g \in GVKs, NEW o \in Objects, KindOf[g] = KindOfObject[o],
         NEW old, NEW new,
         old # None => <<o, old.inc>> \in UIDs, new # None => <<o, new.inc>> \in UIDs
  PROVE  Affected(g, o, old, new) \subseteq AllJobs \cup {Rescan}
<1>1. EnqueuePod(g, o, old) \subseteq AllJobs /\ EnqueuePod(g, o, new) \subseteq AllJobs
  BY EnqueuePodType
<1>2. Replaced(old, new) => /\ SelectedJob(g, <<o, old.inc>>) \in AllJobs
                            /\ EnqueueRootAndMembers(<<o, old.inc>>) \subseteq AllJobs
  BY StateKeys, MembersType DEF Replaced
<1>3. new # None => SelectedJob(g, <<o, new.inc>>) \in AllJobs /\ RootJob(<<o, new.inc>>) \in AllJobs
  BY StateKeys
<1>4. new # None /\ roots[<<o, new.inc>>] # None =>
        {PodJob(p) : p \in roots[<<o, new.inc>>].pods} \subseteq AllJobs
  BY MembersType
<1>5. {SelectedJob(g, u) : u \in {v \in {<<o, old.inc>>} : Tracked(g, v)}}
        \subseteq {SelectedJob(g, <<o, old.inc>>)}
  OBVIOUS
<1> QED
  BY <1>1, <1>2, <1>3, <1>4, <1>5 DEF Affected

-------------------------------------------------------------------------------
(* Steps of a handler *)

\* A job that goes on keeps a well-formed record of what it learned.
LEMMA ContinueType ==
  ASSUME DirtyOK, JobOK, NEW k \in AllJobs, NEW taken, NEW local, LocalOK(k, local),
         Continue(k, taken, local)
  PROVE  DirtyOK' /\ JobOK'
<1>1. DirtyOK'
  BY DEF DirtyOK, Continue
<1>2. JobOK'
  BY DEF JobOK, LocalOK, Continue
<1> QED
  BY <1>1, <1>2

\* A job that returns forgets it, and a failed one is queued again.
LEMMA ReturnType ==
  ASSUME DirtyOK, JobOK, NEW k \in AllJobs, NEW taken, NEW work, NEW retry,
         work \subseteq AllJobs \cup {Rescan}, Return(k, taken, work, retry)
  PROVE  DirtyOK' /\ JobOK'
<1>1. DirtyOK'
  BY DEF DirtyOK, Return
<1>2. JobOK'
  BY DEF JobOK, LocalOK, Return, Restrict
<1> QED
  BY <1>1, <1>2

\* ensureWatch keeps the watches and their health well formed.
LEMMA EnsureWatchType ==
  ASSUME WatchOK, NEW g \in GVKs, NEW full \in BOOLEAN, NEW scope \in {"sources", "job"},
         EnsureWatch(g, full, scope)
  PROVE  WatchOK'
<1>1. NewWatch(full) \in WatchRecord
  BY DEF NewWatch, WatchRecord
<1>2. watches' \in [GVKs -> WatchRecord \cup {None}]
  BY <1>1 DEF WatchOK, EnsureWatch
<1>3. replacements' \in [GVKs -> WatchRecord \cup {None}]
  BY <1>1 DEF WatchOK, EnsureWatch
<1>4. watchFailures' \subseteq GVKs \X {"sources", "job"}
  BY DEF WatchOK, EnsureWatch
<1>5. health' \in [GVKs -> HealthRecord \cup {None}]
  <2>1. [synced |-> FALSE, err |-> "none"] \in HealthRecord
    BY DEF HealthRecord
  <2> QED
    BY <2>1 DEF WatchOK, EnsureWatch
<1> QED
  BY <1>2, <1>3, <1>4, <1>5 DEF WatchOK

-------------------------------------------------------------------------------
(* The invariant is inductive *)

\* Each part depends on its own variables, and on the scenario, which never changes.
LEMMA Frame ==
  /\ EnvOK /\ UNCHANGED environmentVars => EnvOK'
  /\ WatchOK /\ UNCHANGED watchVars => WatchOK'
  /\ PosOK /\ UNCHANGED <<scenario, pos>> => PosOK'
  /\ MemberOK /\ UNCHANGED membershipVars => MemberOK'
  /\ DefOK /\ UNCHANGED definitionVars => DefOK'
  /\ DirtyOK /\ UNCHANGED dirty => DirtyOK'
  /\ JobOK /\ UNCHANGED job => JobOK'
  /\ StoreOK /\ UNCHANGED storeVars => StoreOK'
BY DEF EnvOK, WatchOK, PosOK, MemberOK, DefOK, DirtyOK, JobOK, StoreOK, LocalOK, life,
       environmentVars, watchVars, membershipVars, definitionVars, storeVars

\* The exporter starts with well-typed state.
LEMMA InitType == Init => TypeInv
<1> SUFFICES ASSUME Init PROVE TypeInv
  OBVIOUS
<1>1. EnvOK
  BY ControllerAssumption DEF Init, EnvOK
<1>2. WatchOK
  BY DEF Init, WatchOK
<1>3. PosOK
  <2>1. \A k \in Keys : Len(life[k[2]]) \in Nat
    BY OwnersAssumption DEF Init, life, Keys
  <2> QED
    BY <2>1 DEF Init, PosOK
<1>4. MemberOK
  BY DEF Init, MemberOK
<1>5. DefOK
  BY DEF Init, DefOK, IdleSync, Errors
<1>6. DirtyOK /\ JobOK
  BY DEF Init, DirtyOK, JobOK
<1>7. StoreOK
  BY DEF Init, StoreOK
<1> QED
  BY <1>1, <1>2, <1>3, <1>4, <1>5, <1>6, <1>7 DEF TypeInv

\* Failing and recovering watches.
LEMMA WatchHealthType ==
  ASSUME TypeInv, NEW g \in GVKs, NEW slot \in Slots, WatchIn(g, slot) # None,
         \/ failuresLeft > 0 /\ \E err \in WatchErrors : WatchFails(g, slot, err)
         \/ \E listing \in BOOLEAN : WatchStarts(g, slot, listing)
  PROVE  TypeInv'
<1>0. EnvOK /\ WatchOK /\ PosOK /\ MemberOK /\ DefOK /\ DirtyOK /\ JobOK /\ StoreOK
  BY DEF TypeInv
<1>1. WatchIn(g, slot) \in WatchRecord
  BY <1>0 DEF WatchOK, WatchIn
<1>2. ASSUME NEW w \in WatchRecord, SetWatch(g, slot, w), PublishHealth(g, slot, w),
             UNCHANGED watchFailures
      PROVE  WatchOK'
  <2>1. watches' \in [GVKs -> WatchRecord \cup {None}]
    BY <1>0, <1>2 DEF WatchOK, SetWatch
  <2>2. replacements' \in [GVKs -> WatchRecord \cup {None}]
    BY <1>0, <1>2 DEF WatchOK, SetWatch
  <2>3. health' \in [GVKs -> HealthRecord \cup {None}]
    <3>1. [synced |-> w.ready, err |-> w.err] \in HealthRecord
      BY DEF HealthRecord, WatchRecord
    <3> QED
      BY <1>0, <1>2, <3>1 DEF WatchOK, PublishHealth
  <2> QED
    BY <1>0, <1>2, <2>1, <2>2, <2>3 DEF WatchOK
<1>3. CASE failuresLeft > 0 /\ \E err \in WatchErrors : WatchFails(g, slot, err)
  <2>1. PICK err \in WatchErrors : WatchFails(g, slot, err)
    BY <1>3
  <2>2. [WatchIn(g, slot) EXCEPT !.err = err, !.listing = TRUE] \in WatchRecord
    BY <1>1 DEF WatchRecord
  <2>3. WatchOK'
    BY <1>2, <2>1, <2>2 DEF WatchFails
  <2>4. EnvOK'
    <3>1. scenario \in Scenarios /\ scenario.faults \in Nat /\ failuresLeft \in 0..scenario.faults
      BY <1>0, ControllerAssumption DEF EnvOK
    <3>2. failuresLeft - 1 \in 0..scenario.faults
      BY <1>3, <3>1
    <3> QED
      BY <1>0, <2>1, <3>2 DEF WatchFails, EnvOK
  <2> QED
    BY <1>0, <2>1, <2>3, <2>4, Frame DEF WatchFails, TypeInv
<1>4. CASE \E listing \in BOOLEAN : WatchStarts(g, slot, listing)
  <2>1. PICK listing \in BOOLEAN : WatchStarts(g, slot, listing)
    BY <1>4
  <2>2. [WatchIn(g, slot) EXCEPT !.err = "none", !.listing = listing] \in WatchRecord
    BY <1>1 DEF WatchRecord
  <2>3. WatchOK'
    BY <1>2, <2>1, <2>2 DEF WatchStarts
  <2>4. RecoveryWork \subseteq AllJobs \cup {Rescan}
    BY JobTypes DEF RecoveryWork, RootUIDs
  <2>5. DirtyOK'
    BY <1>0, <2>1, <2>4 DEF WatchStarts, DirtyOK
  <2> QED
    BY <1>0, <2>1, <2>3, <2>5, Frame DEF WatchStarts, TypeInv, environmentVars
<1> QED
  BY <1>3, <1>4

\* An event of a watch.
LEMMA WatchEventType ==
  ASSUME TypeInv, NEW g \in GVKs, NEW o \in Objects, WatchEvent(g, o)
  PROVE  TypeInv'
<1> DEFINE old == Object(g, o)
           new == life[o][pos[<<g, o>>] + 1]
<1>0. EnvOK /\ WatchOK /\ PosOK /\ MemberOK /\ DefOK /\ DirtyOK /\ JobOK /\ StoreOK
  BY DEF TypeInv
<1>1. KindOf[g] = KindOfObject[o] /\ pos[<<g, o>>] < Len(life[o])
  BY DEF WatchEvent
<1>2. /\ <<g, o>> \in Keys /\ pos[<<g, o>>] \in Nat
      /\ old # None => <<o, old.inc>> \in UIDs
  BY <1>0, <1>1, ObjectType
<1>3. Len(life[o]) \in Nat
  BY <1>0, OwnersAssumption DEF EnvOK, life
<1>4. pos[<<g, o>>] + 1 \in 1..Len(life[o])
  BY <1>1, <1>2, <1>3
<1>5. new # None => <<o, new.inc>> \in UIDs
  BY <1>0, <1>4, LifeType DEF EnvOK
<1>6. PosOK'
  BY <1>0, <1>1, <1>2, <1>3 DEF PosOK, WatchEvent, life, environmentVars
<1>7. Affected(g, o, old, new) \subseteq AllJobs \cup {Rescan}
  <2> HIDE DEF old, new
  <2> QED
    BY <1>0, <1>1, <1>2, <1>5, AffectedType
<1>8. DirtyOK'
  BY <1>0, <1>7 DEF DirtyOK, WatchEvent
<1>9. MemberOK'
  BY <1>0 DEF MemberOK, WatchEvent
<1> QED
  BY <1>0, <1>6, <1>8, <1>9, Frame DEF WatchEvent, TypeInv, environmentVars

\* A complete list.
LEMMA ListingType ==
  ASSUME TypeInv, NEW g \in GVKs, Listing(g)
  PROVE  TypeInv'
<1> DEFINE same == {o \in Objects : KindOfObject[o] = KindOf[g]}
<1>0. EnvOK /\ WatchOK /\ PosOK /\ MemberOK /\ DefOK /\ DirtyOK /\ JobOK /\ StoreOK
  BY DEF TypeInv
<1>1. PICK slot \in Slots, at \in Positions(g) :
        Owes(g, slot) /\ (\A o \in DOMAIN at : at[o] <= Len(life[o])) /\ Replace(g, slot, at)
  BY DEF Listing
<1>2. \A o \in same : at[o] \in Nat /\ at[o] \in 1..Len(life[o]) /\ Len(life[o]) \in Nat
  <2>1. \A o \in same : Len(life[o]) \in Nat
    BY <1>0, OwnersAssumption DEF EnvOK, life
  <2> QED
    BY <1>1, <2>1 DEF Positions
<1>3. WatchIn(g, slot) \in WatchRecord
  BY <1>0, <1>1 DEF Owes, WatchOK, WatchIn
<1>4. WatchOK'
  <2>1. [WatchIn(g, slot) EXCEPT !.ready = TRUE, !.err = "none", !.listing = FALSE] \in WatchRecord
    BY <1>3 DEF WatchRecord
  <2>2. watches' \in [GVKs -> WatchRecord \cup {None}]
    BY <1>0, <1>1, <2>1 DEF WatchOK, Replace
  <2>3. replacements' \in [GVKs -> WatchRecord \cup {None}]
    BY <1>0, <1>1 DEF WatchOK, Replace
  <2>4. health' \in [GVKs -> HealthRecord \cup {None}]
    <3>1. [synced |-> TRUE, err |-> "none"] \in HealthRecord
      BY DEF HealthRecord
    <3> QED
      BY <1>0, <1>1, <3>1 DEF WatchOK, Replace
  <2> QED
    BY <1>0, <1>1, <2>2, <2>3, <2>4 DEF WatchOK, Replace
<1>5. PosOK'
  <2>1. \A k \in Keys : k[1] = g => k[2] \in same
    BY DEF Keys
  <2>2. pos' = [k \in Keys |-> IF k[1] = g THEN at[k[2]] ELSE pos[k]] /\ UNCHANGED scenario
    BY <1>1 DEF Replace, environmentVars
  <2> HIDE DEF same
  <2> QED
    BY <1>0, <1>2, <2>1, <2>2 DEF PosOK, life
<1>6. ASSUME NEW o \in same
      PROVE  Affected(g, o, Object(g, o), life[o][at[o]]) \subseteq AllJobs \cup {Rescan}
  <2>1. Object(g, o) # None => <<o, Object(g, o).inc>> \in UIDs
    BY <1>0, ObjectType
  <2>2. life[o][at[o]] # None => <<o, life[o][at[o]].inc>> \in UIDs
    BY <1>0, <1>2, LifeType DEF EnvOK
  <2> QED
    BY <1>0, <2>1, <2>2, AffectedType
<1>7. RecoveryWork \subseteq AllJobs \cup {Rescan}
  BY JobTypes DEF RecoveryWork, RootUIDs
<1>8. DirtyOK'
  <2> DEFINE affected == UNION {Affected(g, o, Object(g, o), life[o][at[o]]) :
                               o \in {p \in same : Object(g, p) # None \/ life[p][at[p]] # None}}
             recovery == IF WatchIn(g, slot).err # "none" THEN RecoveryWork ELSE {}
  <2>1. dirty' = dirty \cup {Rescan} \cup affected \cup recovery
    BY <1>1, Zenon DEF Replace
  <2>2. affected \subseteq AllJobs \cup {Rescan}
    <3> HIDE DEF same
    <3> QED
      BY <1>6, Zenon
  <2>3. recovery \subseteq AllJobs \cup {Rescan}
    BY <1>7
  <2> HIDE DEF affected, recovery
  <2> QED
    BY <1>0, <2>1, <2>2, <2>3 DEF DirtyOK
<1>9. MemberOK'
  BY <1>0, <1>1 DEF MemberOK, Replace
<1> QED
  BY <1>0, <1>1, <1>4, <1>5, <1>8, <1>9, Frame DEF Replace, TypeInv, environmentVars

\* The sources worker.
LEMMA SyncingType ==
  ASSUME TypeInv, Syncing
  PROVE  TypeInv'
<1>0. EnvOK /\ WatchOK /\ PosOK /\ MemberOK /\ DefOK /\ DirtyOK /\ JobOK /\ StoreOK
  BY DEF TypeInv
<1>1. CASE RefreshDefinitions
  <2> DEFINE next == IF inventory.err # "none" THEN defs ELSE inventory.defs
  <2>1. inventory.err \in Errors /\ next \in [Kinds -> Definition \cup {None}]
          /\ \A kind \in Kinds : next[kind] # None => KindOf[next[kind].gvk] = kind
    BY <1>0, SnapshotsAssumption DEF EnvOK, DefOK
  <2>2. defs' = next /\ defErr' = inventory.err
    BY <1>1 DEF RefreshDefinitions
  <2>3. defVersion' \in Nat
    BY <1>0, <1>1 DEF RefreshDefinitions, DefOK
  <2>4. RequestedWatches(next) \subseteq GVKs
    <3> HIDE DEF next
    <3> QED
      BY <2>1, ControllerAssumption DEF RequestedWatches, Definition
  <2>5. syncWorker' \in [queued : BOOLEAN, busy : BOOLEAN, failed : BOOLEAN, todo : SUBSET GVKs]
    BY <1>1, <2>4 DEF RefreshDefinitions
  <2>6. DefOK'
    <3> HIDE DEF next
    <3> QED
      BY <2>1, <2>2, <2>3, <2>5 DEF DefOK
  <2>7. WatchOK'
    BY <1>0, <1>1 DEF RefreshDefinitions, WatchOK
  <2>8. ASSUME NEW changed PROVE DefinitionWork(next, changed) \subseteq AllJobs
    <3>1. ASSUME NEW k \in Keys, Object(k[1], k[2]) # None
          PROVE  EnqueueObject(next, k[1], k[2]) \subseteq AllJobs
      BY <1>0, <3>1, EnqueueObjectType
    <3>2. ASSUME NEW o \in Cached(PodGVK) PROVE EnqueuePod(PodGVK, o, Object(PodGVK, o)) \subseteq AllJobs
      <4>1. o \in Objects /\ KindOfObject[o] = KindOf[PodGVK] /\ PodGVK \in GVKs
        BY ControllerAssumption DEF Cached
      <4>2. Object(PodGVK, o) # None => <<o, Object(PodGVK, o).inc>> \in UIDs
        BY <1>0, <4>1, ObjectType
      <4> QED
        BY <4>1, <4>2, EnqueuePodType
    <3> HIDE DEF next
    <3> DEFINE objects == UNION {EnqueueObject(next, k[1], k[2]) :
                                k \in {x \in Keys : Object(x[1], x[2]) # None /\ KindOf[x[1]] \in changed}}
               cachedPods == UNION {EnqueuePod(PodGVK, o, Object(PodGVK, o)) :
                                o \in {x \in Cached(PodGVK) :
                                         LET root == podRoots[<<x, Object(PodGVK, x).inc>>]
                                         IN  root = None \/ KindOfObject[root[1]] \in changed}}
    <3>3. objects \subseteq AllJobs
      BY <3>1, Zenon
    <3>4. cachedPods \subseteq AllJobs
      BY <3>2, Zenon
    <3>5. DefinitionWork(next, changed) = objects \cup cachedPods
      BY DEF DefinitionWork
    <3> HIDE DEF objects, cachedPods
    <3> QED
      BY <3>3, <3>4, <3>5
  <2>9. \A u \in RootUIDs : EnqueueRootAndMembers(u) \subseteq AllJobs
    BY <1>0, MembersType DEF RootUIDs
  <2>10. DirtyOK'
    <3> DEFINE healthChanged == defErr # inventory.err
               changed == {kind \in Kinds : ~SameDefinition(defs[kind], next[kind])}
               objects == IF healthChanged THEN {Rescan} ELSE DefinitionWork(next, changed)
               members == UNION {EnqueueRootAndMembers(u) :
                            u \in {v \in RootUIDs : healthChanged \/ KindOfObject[v[1]] \in changed}}
               selected == {SelectedJob(k[1], k[2]) :
                            k \in {x \in SelectedKeys : Tracked(x[1], x[2]) /\ KindOf[x[1]] \in changed}}
               work == objects \cup members \cup selected
    <3>1. dirty' = dirty \/ dirty' = dirty \cup work
      BY <1>1, Zenon DEF RefreshDefinitions
    <3>2. work \subseteq AllJobs \cup {Rescan}
      <4>1. DefinitionWork(next, changed) \subseteq AllJobs
        BY <2>8
      <4> HIDE DEF healthChanged, changed, next
      <4>2. objects \subseteq AllJobs \cup {Rescan}
        BY <4>1
      <4>3. members \subseteq AllJobs
        BY <2>9, Zenon
      <4>4. selected \subseteq AllJobs
        BY JobTypes, Zenon
      <4> HIDE DEF objects, members, selected
      <4> QED
        BY <4>2, <4>3, <4>4
    <3> HIDE DEF work
    <3> QED
      BY <1>0, <3>1, <3>2 DEF DirtyOK
  <2> QED
    BY <1>0, <1>1, <2>6, <2>7, <2>10, Frame DEF RefreshDefinitions, TypeInv, environmentVars
<1>2. CASE \E g \in GVKs : SyncWatch(g)
  <2>1. PICK g \in GVKs : SyncWatch(g)
    BY <1>2
  <2>2. WatchOK'
    BY <1>0, <2>1, EnsureWatchType DEF SyncWatch
  <2>3. DefOK'
    BY <1>0, <2>1 DEF SyncWatch, DefOK
  <2> QED
    BY <1>0, <2>1, <2>2, <2>3, Frame DEF SyncWatch, TypeInv, environmentVars
<1>3. CASE SyncReturns
  <2>1. DefOK'
    BY <1>0, <1>3 DEF SyncReturns, DefOK, IdleSync
  <2> QED
    BY <1>0, <1>3, <2>1, Frame DEF SyncReturns, TypeInv, environmentVars
<1> QED
  BY <1>1, <1>2, <1>3 DEF Syncing

\* The inventory and the REST mapper.
LEMMA ExternalType ==
  ASSUME TypeInv, External
  PROVE  TypeInv'
<1>0. EnvOK /\ WatchOK /\ PosOK /\ MemberOK /\ DefOK /\ DirtyOK /\ JobOK /\ StoreOK
  BY DEF TypeInv
<1>1. CASE \E s \in scenario.snapshots : InventoryChanges(s)
  <2>1. PICK s \in scenario.snapshots : InventoryChanges(s)
    BY <1>1
  <2>2. scenario \in Scenarios /\ scenario.changes \in Nat /\ inventoryLeft \in 0..scenario.changes
    BY <1>0, ControllerAssumption DEF EnvOK
  <2>3. inventoryLeft' \in 0..scenario.changes
    BY <2>1, <2>2 DEF InventoryChanges
  <2>4. EnvOK'
    BY <1>0, <2>1, <2>3 DEF EnvOK, InventoryChanges
  <2>5. DefOK'
    BY <1>0, <2>1 DEF DefOK, InventoryChanges
  <2> QED
    BY <1>0, <2>1, <2>4, <2>5, Frame DEF InventoryChanges, TypeInv
<1>2. CASE \E g \in GVKs : Install(g)
  <2>1. PICK g \in GVKs : Install(g)
    BY <1>2
  <2>2. EnvOK'
    BY <1>0, <2>1 DEF EnvOK, Install
  <2> QED
    BY <1>0, <2>1, <2>2, Frame DEF Install, TypeInv
<1> QED
  BY <1>1, <1>2 DEF External

\* An object that was read is the current one of its UID.
LEMMA ReadIsCurrent ==
  ASSUME EnvOK, WatchOK, PosOK, NEW x \in SelectedKeys, NEW full \in BOOLEAN,
         Lookup(Ref(x[1], x[2], 0), full) = "none"
  PROVE  /\ CachedRef(<<x[1], x[2][1]>>) = Ref(x[1], x[2], pos[<<x[1], x[2][1]>>])
         /\ CachedRef(<<x[1], x[2][1]>>) \in KeyRefs /\ Current(CachedRef(<<x[1], x[2][1]>>))
         /\ pos[<<x[1], x[2][1]>>] \in Nat
<1> DEFINE g == x[1]
           u == x[2]
           ref == Ref(g, u, 0)
<1>1. ref \in KeyRefs /\ ref.gvk = g /\ ref.uid = u /\ ref.rv = 0
  BY DEF SelectedKeys, Ref, KeyRefs, Refs
<1>2. Current(ref)
  BY <1>1 DEF Current, Lookup
<1>3. /\ u = <<u[1], Object(g, u[1]).inc>>
      /\ <<g, u[1]>> \in Keys /\ pos[<<g, u[1]>>] \in Nat
  BY <1>1, <1>2, CurrentObject DEF ObjectAt
<1>4. CachedRef(<<g, u[1]>>) = Ref(g, u, pos[<<g, u[1]>>])
  BY <1>3 DEF CachedRef
<1>5. CachedRef(<<g, u[1]>>) \in KeyRefs
  BY <1>1, <1>3, <1>4 DEF Ref, KeyRefs, Refs
<1>6. Current(CachedRef(<<g, u[1]>>))
  BY <1>2, <1>4 DEF Current, Lookup, Ref
<1> QED
  BY <1>3, <1>4, <1>5, <1>6

\* The last object of a walk.
LEMMA WalkEnd ==
  ASSUME NEW path \in Seq(KeyRefs), path # <<>>
  PROVE  /\ Last(path) \in KeyRefs /\ Last(path) \in Refs
         /\ Last(path).gvk \in GVKs /\ Last(path).uid \in UIDs /\ Last(path).uid[1] \in Objects
         /\ KindOf[Last(path).gvk] = KindOfObject[Last(path).uid[1]]
         /\ KindOf[Last(path).gvk] \in Kinds
         /\ <<Last(path).gvk, Last(path).uid>> \in SelectedKeys
<1>1. Last(path) \in KeyRefs
  BY DEF Last
<1> QED
  BY <1>1, ControllerAssumption DEF KeyRefs, Refs, UIDs, SelectedKeys

\* A path of Walks is one of the paths of well-formed references.
LEMMA WalkType ==
  ASSUME EnvOK, WatchOK, PosOK, NEW x \in SelectedKeys, NEW full \in BOOLEAN,
         Lookup(Ref(x[1], x[2], 0), full) = "none",
         NEW path \in Walks(CachedRef(<<x[1], x[2][1]>>))
  PROVE  path \in Seq(KeyRefs) /\ path \in Seq(Refs) /\ path # <<>>
           /\ WalkOK(CachedRef(<<x[1], x[2][1]>>), path)
           /\ (WalkErr(path) = "none" => EndsChain(ObjectAt(Last(path))))
<1>1. CachedRef(<<x[1], x[2][1]>>) \in KeyRefs /\ Current(CachedRef(<<x[1], x[2][1]>>))
  BY ReadIsCurrent
<1>2. /\ WalkOK(CachedRef(<<x[1], x[2][1]>>), path)
      /\ (WalkErr(path) = "none" => EndsChain(ObjectAt(Last(path))))
  BY <1>1, WalksAreWalks
<1>3. path \in Seq(KeyRefs) /\ path # <<>>
  BY <1>2 DEF WalkOK
<1>4. path \in Seq(Refs)
  <2>1. KeyRefs \subseteq Refs
    BY DEF KeyRefs
  <2> QED
    BY <1>3, <2>1
<1> QED
  BY <1>2, <1>3, <1>4

\* The version a root is read in is one of its kind.
LEMMA SelectedVersion ==
  ASSUME NEW g \in GVKs, NEW def \in Definition \cup {None}, def # None => KindOf[def.gvk] = KindOf[g]
  PROVE  SelectedGVK(g, def) \in GVKs /\ KindOf[SelectedGVK(g, def)] = KindOf[g]
BY DEF SelectedGVK, Definition

\* Every error of a read has a reason.
LEMMA ReasonType ==
  ASSUME EnvOK, WatchOK, NEW ref, ref.gvk \in GVKs, NEW full \in BOOLEAN
  PROVE  /\ FailureReason(Lookup(ref, full)) \in Errors
         /\ Lookup(ref, full) \in {"none", "pending", "stale", "notfound"} \cup WatchErrors
<1>1. watches[ref.gvk] # None => watches[ref.gvk].err \in {"none"} \cup WatchErrors
  BY DEF WatchOK, WatchRecord
<1>2. Lookup(ref, full) \in {"none", "pending", "stale", "notfound"} \cup WatchErrors
  BY <1>1 DEF Lookup
<1> QED
  BY <1>2, ControllerAssumption DEF FailureReason, Errors

\* lookupDefinition's errors.
LEMMA DefinitionErrType ==
  ASSUME DefOK, NEW kind
  PROVE  DefinitionErr(kind) \in Errors
BY DEF DefOK, DefinitionErr, Errors

\* The reason a walk ends with is an error of Store.
LEMMA WalkErrType ==
  ASSUME EnvOK, WatchOK, PosOK, NEW ref \in KeyRefs, Current(ref), NEW path, WalkOK(ref, path)
  PROVE  /\ WalkErr(path) \in Errors
         /\ NamesOwner(ObjectAt(Last(path))) => OwnerRef(path).gvk \in GVKs
<1>1. Last(path) \in KeyRefs /\ Current(Last(path))
  <2>1. Len(path) \in 1..Len(path)
    BY DEF WalkOK
  <2> QED
    BY <2>1, WalkCurrent DEF Last
<1>2. NamesOwner(ObjectAt(Last(path))) => OwnerRef(path).gvk \in GVKs
  BY <1>1, CurrentObject, OwnersAssumption DEF OwnerRef, Ref, SelectedKeys
<1>3. NamesOwner(ObjectAt(Last(path))) => FailureReason(Lookup(OwnerRef(path), FALSE)) \in Errors
  BY <1>2, ReasonType
<1> QED
  BY <1>2, <1>3 DEF WalkErr, Errors

-------------------------------------------------------------------------------
(* Pod jobs *)

\* The failure a Pod job writes, and its return.
LEMMA FailPodType ==
  ASSUME StoreOK, DirtyOK, JobOK, NEW u \in PodUIDs, NEW taken, NEW reason \in Errors,
         NEW root \in Refs \cup {None}, FailPod(u, taken, reason, root),
         UNCHANGED <<workloads, failures>>
  PROVE  StoreOK' /\ DirtyOK' /\ JobOK'
<1>1. FailedPod(u, reason, root) \in PodResult \cup {None}
  <2>1. pods[u] # None => [pods[u] EXCEPT !.error = reason] \in PodResult
    BY DEF StoreOK, PodResult
  <2>2. [hasValue |-> FALSE, ref |-> root, karta |-> None, error |-> reason] \in PodResult
    BY DEF PodResult
  <2> QED
    BY <2>1, <2>2 DEF FailedPod
<1>2. StoreOK'
  BY <1>1 DEF FailPod, StoreOK
<1>3. PodJob(u) \in AllJobs
  BY JobTypes
<1> QED
  BY <1>2, <1>3, ReturnType DEF FailPod

\* What a handler that has learned nothing but its next step holds.
LEMMA LocalRecord ==
  ASSUME NEW pc \in Steps
  PROVE  /\ Local(pc) \in JobRecord
         /\ Local(pc).pc = pc /\ Local(pc).path = <<>> /\ Local(pc).def = None
BY DEF Local, JobRecord, Errors

\* It may withdraw, remove or unregister without knowing more.
LEMMA LocalType ==
  ASSUME NEW k, NEW pc \in {"unregister", "withdraw", "remove"}
  PROVE  LocalOK(k, Local(pc))
<1>1. Local(pc) \in JobRecord
  BY DEF Local, JobRecord, Steps, Errors
<1> QED
  BY <1>1 DEF LocalOK, Local

\* Pod keys and selected keys.
LEMMA PodKeyType ==
  ASSUME NEW u \in PodUIDs
  PROVE  u \in UIDs /\ <<PodGVK, u>> \in SelectedKeys /\ PodGVK \in GVKs
BY ControllerAssumption DEF PodUIDs, SelectedKeys

\* The step that reads the Pod and discovers its root.
LEMMA ResolvePodType ==
  ASSUME TypeInv, NEW u \in PodUIDs, ResolvePod(u)
  PROVE  TypeInv'
<1> DEFINE k == PodJob(u)
           err == Lookup(Ref(PodGVK, u, 0), TRUE)
           start == CachedRef(<<PodGVK, u[1]>>)
<1>0. EnvOK /\ WatchOK /\ PosOK /\ MemberOK /\ DefOK /\ DirtyOK /\ JobOK /\ StoreOK
  BY DEF TypeInv
<1>1. k \in AllJobs /\ <<PodGVK, u>> \in SelectedKeys /\ PodGVK \in GVKs
  BY JobTypes, PodKeyType
<1>2. UNCHANGED <<environmentVars, pos, definitionVars, membershipVars, workloads, failures>>
  BY DEF ResolvePod
<1>3. EnvOK' /\ PosOK' /\ DefOK' /\ MemberOK'
  BY <1>0, <1>2, Frame DEF environmentVars
<1>4. CASE Continue(k, {k}, Local("unregister")) /\ UNCHANGED <<watchVars, pods>>
  <2>1. DirtyOK' /\ JobOK'
    BY <1>0, <1>1, <1>4, LocalType, ContinueType
  <2> QED
    BY <1>0, <1>2, <1>3, <1>4, <2>1, Frame DEF TypeInv, storeVars
<1>5. CASE FailPod(u, {k}, FailureReason(err), None) /\ UNCHANGED watchVars
  <2>1. FailureReason(err) \in Errors
    BY <1>0, <1>1, ReasonType DEF Ref
  <2>2. StoreOK' /\ DirtyOK' /\ JobOK'
    BY <1>0, <1>2, <1>5, <2>1, FailPodType
  <2> QED
    BY <1>0, <1>3, <1>5, <2>2, Frame DEF TypeInv
<1>6. ASSUME NEW path \in Walks(start), err = "none",
             LET root == Last(path)
                 def == defs[KindOf[root.gvk]]
                 g == SelectedGVK(root.gvk, def)
             IN  \/ FailPod(u, {k}, WalkErr(path), None) /\ WalkEnsures(path)
                 \/ FailPod(u, {k}, "unavailable", [root EXCEPT !.gvk = g]) /\ UNCHANGED watchVars
                 \/ /\ Continue(k, {k}, [pc |-> "register", path |-> path, def |-> def, ref |-> None,
                            err |-> DefinitionErr(KindOf[root.gvk]), version |-> defVersion])
                    /\ UNCHANGED <<watchVars, pods>>
      PROVE  TypeInv'
  <2> DEFINE root == Last(path)
             def == defs[KindOf[root.gvk]]
             g == SelectedGVK(root.gvk, def)
  <2>0. start = CachedRef(<<(<<PodGVK, u>>)[1], (<<PodGVK, u>>)[2][1]>>)
    OBVIOUS
  <2>1. /\ path \in Seq(KeyRefs) /\ path \in Seq(Refs) /\ path # <<>> /\ WalkOK(start, path)
        /\ start \in KeyRefs /\ Current(start)
    BY <1>0, <1>1, <1>6, <2>0, WalkType, ReadIsCurrent
  <2> HIDE DEF start
  <2>2. root \in Refs /\ root.gvk \in GVKs /\ KindOf[root.gvk] \in Kinds
    BY <2>1, WalkEnd
  <2>3. def \in Definition \cup {None} /\ (def # None => KindOf[def.gvk] = KindOf[root.gvk])
    BY <1>0, <2>2 DEF DefOK
  <2>4. g \in GVKs
    BY <2>2, <2>3, SelectedVersion
  <2>5. [root EXCEPT !.gvk = g] \in Refs
    BY <2>2, <2>4 DEF Refs
  <2>6. ASSUME FailPod(u, {k}, WalkErr(path), None), WalkEnsures(path) PROVE TypeInv'
    <3>1. WalkErr(path) \in Errors /\ (NamesOwner(ObjectAt(Last(path))) => OwnerRef(path).gvk \in GVKs)
      BY <1>0, <2>1, WalkErrType
    <3>2. WatchOK'
      BY <1>0, <2>6, <3>1, EnsureWatchType, Frame DEF WalkEnsures
    <3>3. StoreOK' /\ DirtyOK' /\ JobOK'
      BY <1>0, <1>2, <2>6, <3>1, FailPodType
    <3> QED
      BY <1>3, <3>2, <3>3 DEF TypeInv
  <2>7. ASSUME FailPod(u, {k}, "unavailable", [root EXCEPT !.gvk = g]), UNCHANGED watchVars PROVE TypeInv'
    <3>1. StoreOK' /\ DirtyOK' /\ JobOK'
      BY <1>0, <1>2, <2>5, <2>7, FailPodType DEF Errors
    <3> QED
      BY <1>0, <1>3, <2>7, <3>1, Frame DEF TypeInv
  <2>8. ASSUME Continue(k, {k}, [pc |-> "register", path |-> path, def |-> def, ref |-> None,
                            err |-> DefinitionErr(KindOf[root.gvk]), version |-> defVersion]),
               UNCHANGED <<watchVars, pods>>
        PROVE  TypeInv'
    <3> DEFINE local == [pc |-> "register", path |-> path, def |-> def, ref |-> None,
                         err |-> DefinitionErr(KindOf[root.gvk]), version |-> defVersion]
    <3>1. DefinitionErr(KindOf[root.gvk]) \in Errors /\ defVersion \in Nat
      BY <1>0, DefinitionErrType DEF DefOK
    <3>2. LocalOK(k, local)
      BY <2>1, <2>3, <3>1 DEF LocalOK, JobRecord, Steps
    <3>3. DirtyOK' /\ JobOK'
      BY <1>0, <1>1, <2>8, <3>2, ContinueType
    <3> QED
      BY <1>0, <1>2, <1>3, <2>8, <3>3, Frame DEF TypeInv, storeVars
  <2> QED
    BY <1>6, <2>6, <2>7, <2>8
<1> QED
  BY <1>4, <1>5, <1>6 DEF ResolvePod

\* ensureRoot keeps the members a root has.
LEMMA EnsuredRootType ==
  ASSUME MemberOK, DefOK, NEW root \in KeyRefs
  PROVE  /\ EnsuredRoot(root) \in Root
         /\ KindOf[EnsuredRoot(root).gvk] = KindOfObject[root.uid[1]]
         /\ EnsuredRoot(root).pods = IF roots[root.uid] = None THEN {} ELSE roots[root.uid].pods
         /\ EnsuredRoot(root).selected = IF roots[root.uid] = None THEN {} ELSE roots[root.uid].selected
<1> DEFINE known == IF roots[root.uid] = None
                      THEN [gvk |-> root.gvk, pods |-> {}, selected |-> {}] ELSE roots[root.uid]
           def == defs[KindOf[root.gvk]]
<1>1. root.gvk \in GVKs /\ root.uid \in UIDs /\ KindOf[root.gvk] = KindOfObject[root.uid[1]]
        /\ KindOf[root.gvk] \in Kinds
  BY ControllerAssumption DEF KeyRefs, Refs
<1>2. known \in Root /\ KindOf[known.gvk] = KindOfObject[root.uid[1]]
  BY <1>1 DEF MemberOK, Root
<1>3. def # None => def.gvk \in GVKs /\ KindOf[def.gvk] = KindOf[root.gvk]
  BY <1>1 DEF DefOK, Definition
<1>4. \/ EnsuredRoot(root) = [known EXCEPT !.gvk = def.gvk] /\ def # None
      \/ EnsuredRoot(root) = [known EXCEPT !.gvk = root.gvk]
      \/ EnsuredRoot(root) = known
  BY DEF EnsuredRoot
<1>5. EnsuredRoot(root) \in Root /\ KindOf[EnsuredRoot(root).gvk] = KindOfObject[root.uid[1]]
        /\ EnsuredRoot(root).pods = known.pods /\ EnsuredRoot(root).selected = known.selected
  <2> HIDE DEF known, def
  <2> QED
    BY <1>1, <1>2, <1>3, <1>4 DEF Root
<1> QED
  BY <1>5

\* Leaving a root takes the Pod from its members.
LEMMA RootsWithoutPodType ==
  ASSUME MemberOK, NEW u \in PodUIDs
  PROVE  /\ RootsWithoutPod(u) \in [UIDs -> Root \cup {None}]
         /\ \A r \in UIDs : /\ RootsWithoutPod(u)[r] = None <=> roots[r] = None
                            /\ roots[r] # None => RootsWithoutPod(u)[r].gvk = roots[r].gvk
         /\ LeftRoot(u) \subseteq AllJobs
<1>1. CASE podRoots[u] # None /\ roots[podRoots[u]] # None
  <2>1. podRoots[u] \in UIDs /\ roots[podRoots[u]] \in Root
    BY <1>1 DEF MemberOK
  <2>2. [roots[podRoots[u]] EXCEPT !.pods = @ \ {u}] \in Root
    BY <2>1 DEF Root
  <2>3. RootsWithoutPod(u) = [roots EXCEPT ![podRoots[u]] = [roots[podRoots[u]] EXCEPT !.pods = @ \ {u}]]
    BY <1>1 DEF RootsWithoutPod
  <2>4. LeftRoot(u) \subseteq AllJobs
    BY <2>1, JobTypes DEF LeftRoot
  <2> QED
    BY <2>1, <2>2, <2>3, <2>4, NoneAssumption DEF MemberOK, Root
<1>2. CASE ~(podRoots[u] # None /\ roots[podRoots[u]] # None)
  BY <1>2 DEF RootsWithoutPod, LeftRoot, MemberOK
<1> QED
  BY <1>1, <1>2

\* The Pods of a path.
LEMMA PathPodsType ==
  ASSUME NEW path \in Seq(KeyRefs)
  PROVE  PathPods(path) \subseteq PodUIDs
BY DEF PathPods, KeyRefs, Refs, PodUIDs

\* registerPodRoot.
LEMMA RegisterPodRootType ==
  ASSUME TypeInv, NEW u \in PodUIDs, RegisterPodRoot(u)
  PROVE  TypeInv'
<1> DEFINE k == PodJob(u)
           root == RootOf(k)
           ensured == EnsuredRoot(root)
<1>0. EnvOK /\ WatchOK /\ PosOK /\ MemberOK /\ DefOK /\ DirtyOK /\ JobOK /\ StoreOK
  BY DEF TypeInv
<1>1. k \in AllJobs /\ k \in DOMAIN job /\ job[k].pc = "register"
  BY JobTypes DEF RegisterPodRoot, At, Busy
<1>2. LocalOK(k, job[k]) /\ job[k].path \in Seq(KeyRefs) /\ job[k].path # <<>>
  BY <1>0, <1>1 DEF JobOK, LocalOK
<1>3. root \in KeyRefs /\ root \in Refs /\ root.uid \in UIDs
  BY <1>2, WalkEnd DEF RootOf
<1>4. UNCHANGED <<environmentVars, watchVars, pos, definitionVars, workloads, failures>>
  BY DEF RegisterPodRoot
<1>5. EnvOK' /\ WatchOK' /\ PosOK' /\ DefOK'
  BY <1>0, <1>4, Frame DEF environmentVars
<1>6. CASE Return(k, {}, {}, TRUE) /\ UNCHANGED <<membershipVars, pods>>
  <2>1. DirtyOK' /\ JobOK'
    BY <1>0, <1>1, <1>6, ReturnType
  <2> QED
    BY <1>0, <1>4, <1>5, <1>6, <2>1, Frame DEF TypeInv, storeVars
<1>7. CASE FailPod(u, {}, "unresolved", root) /\ UNCHANGED membershipVars
  <2>1. StoreOK' /\ DirtyOK' /\ JobOK'
    BY <1>0, <1>3, <1>4, <1>7, FailPodType DEF Errors
  <2> QED
    BY <1>0, <1>5, <1>7, <2>1, Frame DEF TypeInv
<1>8. CASE /\ ancestorPods' = ancestorPods \cup PathPods(job[k].path)
           /\ podRoots' = [podRoots EXCEPT ![u] = root.uid]
           /\ roots' = IF podRoots[u] = root.uid
                              THEN [roots EXCEPT ![root.uid] = ensured]
                              ELSE [RootsWithoutPod(u) EXCEPT
                                      ![root.uid] = [ensured EXCEPT !.pods = @ \cup {u}]]
           /\ job' = [job EXCEPT ![k].pc = "readRoot"]
           /\ \E rekeyed \in SUBSET {RootJob(root.uid)} : dirty' = dirty \cup rekeyed
                     \cup IF podRoots[u] = root.uid THEN {} ELSE LeftRoot(u) \cup {RootJob(root.uid)}
           /\ UNCHANGED <<selectedRoots, pods>>
  <2>1. /\ ensured \in Root /\ KindOf[ensured.gvk] = KindOfObject[root.uid[1]]
    BY <1>0, <1>3, EnsuredRootType
  <2>2. /\ RootsWithoutPod(u) \in [UIDs -> Root \cup {None}]
        /\ \A r \in UIDs : /\ RootsWithoutPod(u)[r] = None <=> roots[r] = None
                           /\ roots[r] # None => RootsWithoutPod(u)[r].gvk = roots[r].gvk
        /\ LeftRoot(u) \subseteq AllJobs
    BY <1>0, RootsWithoutPodType
  <2>3. MemberOK'
    <3> HIDE DEF ensured, root, k
    <3>1. [ensured EXCEPT !.pods = @ \cup {u}] \in Root
            /\ [ensured EXCEPT !.pods = @ \cup {u}].gvk = ensured.gvk
      BY <2>1 DEF Root
    <3>2. roots' \in [UIDs -> Root \cup {None}]
      BY <1>0, <1>3, <1>8, <2>1, <2>2, <3>1 DEF MemberOK
    <3>3. \A r \in UIDs : roots'[r] # None => KindOf[roots'[r].gvk] = KindOfObject[r[1]]
      BY <1>0, <1>3, <1>8, <2>1, <2>2, <3>1 DEF MemberOK
    <3>4. ancestorPods' \subseteq PodUIDs
      BY <1>0, <1>2, <1>8, PathPodsType DEF MemberOK
    <3> QED
      BY <1>0, <1>3, <1>8, <3>2, <3>3, <3>4 DEF MemberOK
  <2>4. JobOK'
    <3>1. LocalOK(k, [job[k] EXCEPT !.pc = "readRoot"])
      BY <1>1, <1>2 DEF LocalOK, JobRecord, Steps
    <3>2. job' = [x \in DOMAIN job |-> IF x = k THEN [job[k] EXCEPT !.pc = "readRoot"] ELSE job[x]]
      BY <1>0, <1>1, <1>8 DEF JobOK
    <3> HIDE DEF k
    <3> QED
      BY <1>0, <3>1, <3>2 DEF JobOK
  <2>5. DirtyOK'
    <3>1. RootJob(root.uid) \in AllJobs
      BY <1>3, JobTypes
    <3> HIDE DEF root
    <3> QED
      BY <1>0, <1>8, <2>2, <3>1 DEF DirtyOK
  <2> QED
    BY <1>0, <1>4, <1>5, <1>8, <2>3, <2>4, <2>5, Frame DEF TypeInv, storeVars
<1> QED
  <2>1. ASSUME NEW c PROVE (IF c THEN {RootJob(root.uid)} ELSE {}) \in SUBSET {RootJob(root.uid)}
    OBVIOUS
  <2> QED
    BY <1>6, <1>7, <1>8, <2>1 DEF RegisterPodRoot

\* Reading the full root.
LEMMA ReadPodRootType ==
  ASSUME TypeInv, NEW u \in PodUIDs, ReadPodRoot(u)
  PROVE  TypeInv'
<1> DEFINE k == PodJob(u)
           g == SelectedGVK(RootOf(k).gvk, job[k].def)
           ref == Ref(g, RootOf(k).uid, 0)
           err == Lookup(ref, TRUE)
           read == [job[k] EXCEPT !.ref = [ref EXCEPT !.rv = pos[<<g, ref.uid[1]>>]]]
<1>0. EnvOK /\ WatchOK /\ PosOK /\ MemberOK /\ DefOK /\ DirtyOK /\ JobOK /\ StoreOK
  BY DEF TypeInv
<1>1. k \in AllJobs /\ k \in DOMAIN job /\ job[k].pc = "readRoot"
  BY JobTypes DEF ReadPodRoot, At, Busy
<1>2. /\ LocalOK(k, job[k]) /\ job[k].path \in Seq(KeyRefs) /\ job[k].path # <<>>
      /\ job[k].def \in Definition \cup {None}
      /\ job[k].def # None => KindOf[job[k].def.gvk] = KindOf[RootOf(k).gvk]
  BY <1>0, <1>1 DEF JobOK, LocalOK, JobRecord, RootOf
<1>3. /\ RootOf(k) \in Refs /\ RootOf(k).gvk \in GVKs /\ RootOf(k).uid \in UIDs
      /\ RootOf(k).uid[1] \in Objects /\ KindOf[RootOf(k).gvk] = KindOfObject[RootOf(k).uid[1]]
  BY <1>2, WalkEnd DEF RootOf
<1>4. g \in GVKs /\ KindOf[g] = KindOfObject[RootOf(k).uid[1]]
  BY <1>2, <1>3, SelectedVersion
<1>5. UNCHANGED <<environmentVars, pos, definitionVars, membershipVars, workloads, failures>>
  BY DEF ReadPodRoot
<1>6. EnvOK' /\ PosOK' /\ DefOK' /\ MemberOK'
  BY <1>0, <1>5, Frame DEF environmentVars
<1>7. WatchOK'
  <2>1. EnsureWatch(g, TRUE, "job") \/ UNCHANGED watchVars
    BY DEF ReadPodRoot
  <2> HIDE DEF g
  <2> QED
    BY <1>0, <1>4, <2>1, EnsureWatchType, Frame
<1>8. ASSUME NEW reason \in Errors, FailPod(u, {}, reason, RootOf(k)) PROVE TypeInv'
  <2>1. StoreOK' /\ DirtyOK' /\ JobOK'
    BY <1>0, <1>3, <1>5, <1>8, FailPodType
  <2> QED
    BY <1>6, <1>7, <2>1 DEF TypeInv
<1>9. FailureReason(err) \in Errors /\ "unavailable" \in Errors
  BY <1>0, <1>4, ReasonType DEF Ref, Errors
<1>10. ASSUME NEW local, LocalOK(k, local), UNCHANGED pods, Continue(k, {}, local) PROVE TypeInv'
  <2>1. DirtyOK' /\ JobOK'
    BY <1>0, <1>1, <1>10, ContinueType
  <2> QED
    BY <1>0, <1>5, <1>6, <1>7, <1>10, <2>1, Frame DEF TypeInv, storeVars
<1>11. /\ LocalOK(k, Local("unregister"))
       /\ LocalOK(k, [read EXCEPT !.pc = "failEvaluation"])
       /\ LocalOK(k, [read EXCEPT !.pc = "failEvaluation", !.err = "evaluation"])
       /\ LocalOK(k, [read EXCEPT !.pc = "publish"])
  <2>1. [ref EXCEPT !.rv = pos[<<g, ref.uid[1]>>]] \in KeyRefs
    <3>1. ref \in KeyRefs /\ ref.uid = RootOf(k).uid /\ ref.gvk = g
      BY <1>3, <1>4 DEF Ref, KeyRefs, Refs
    <3>2. pos[<<g, ref.uid[1]>>] \in Nat
      BY <1>0, <1>3, <1>4, <3>1, ObjectType
    <3> HIDE DEF ref, g
    <3> QED
      BY <3>1, <3>2 DEF KeyRefs, Refs
  <2>2. KeyRefs \subseteq Refs
    BY DEF KeyRefs
  <2>3. k[1] # "root"
    BY DEF PodJob
  <2> HIDE DEF ref, g, k
  <2> QED
    BY <1>2, <2>1, <2>2, <2>3, LocalType DEF LocalOK, JobRecord, Steps, Errors
<1> QED
  BY <1>8, <1>9, <1>10, <1>11 DEF ReadPodRoot

\* failPodEvaluation.
LEMMA FailPodEvaluationType ==
  ASSUME TypeInv, NEW u \in PodUIDs, FailPodEvaluation(u)
  PROVE  TypeInv'
<1> DEFINE k == PodJob(u)
<1>0. EnvOK /\ WatchOK /\ PosOK /\ MemberOK /\ DefOK /\ DirtyOK /\ JobOK /\ StoreOK
  BY DEF TypeInv
<1>1. k \in AllJobs /\ k \in DOMAIN job /\ job[k].err \in Errors /\ job[k].ref \in Refs \cup {None}
  BY <1>0, JobTypes DEF FailPodEvaluation, At, Busy, JobOK, LocalOK, JobRecord
<1>2. UNCHANGED <<environmentVars, watchVars, pos, definitionVars, membershipVars, workloads, failures>>
  BY DEF FailPodEvaluation
<1>3. EnvOK' /\ WatchOK' /\ PosOK' /\ DefOK' /\ MemberOK'
  BY <1>0, <1>2, Frame DEF environmentVars
<1>4. CASE FailPod(u, {}, job[k].err, job[k].ref)
  BY <1>0, <1>1, <1>2, <1>3, <1>4, FailPodType DEF TypeInv
<1>5. CASE Return(k, {}, {}, TRUE) /\ UNCHANGED pods
  <2>1. DirtyOK' /\ JobOK'
    BY <1>0, <1>1, <1>5, ReturnType
  <2> QED
    BY <1>0, <1>2, <1>3, <1>5, <2>1, Frame DEF TypeInv, storeVars
<1> QED
  BY <1>4, <1>5 DEF FailPodEvaluation

\* publishPod.
LEMMA PublishPodType ==
  ASSUME TypeInv, NEW u \in PodUIDs, PublishPod(u)
  PROVE  TypeInv'
<1> DEFINE k == PodJob(u)
           karta == IF job[k].def = None THEN None ELSE job[k].def.origin
           fresh == [hasValue |-> TRUE, ref |-> job[k].ref, karta |-> karta, error |-> "none"]
<1>0. EnvOK /\ WatchOK /\ PosOK /\ MemberOK /\ DefOK /\ DirtyOK /\ JobOK /\ StoreOK
  BY DEF TypeInv
<1>1. k \in AllJobs /\ k \in DOMAIN job /\ LocalOK(k, job[k])
  BY <1>0, JobTypes DEF PublishPod, At, Busy, JobOK
<1>2. fresh \in PodResult
  <2>1. karta \in STRING \cup {None} /\ job[k].ref \in Refs \cup {None}
    BY <1>1 DEF LocalOK, JobRecord, Definition
  <2> HIDE DEF karta
  <2> QED
    BY <2>1 DEF PodResult, Errors
<1>3. /\ [fresh EXCEPT !.error = "evaluation"] \in PodResult
      /\ pods[u] # None => [pods[u] EXCEPT !.error = "evaluation"] \in PodResult
  <2> HIDE DEF fresh
  <2> QED
    BY <1>0, <1>2 DEF PodResult, Errors, StoreOK
<1>4. UNCHANGED <<environmentVars, watchVars, pos, definitionVars, membershipVars, workloads, failures>>
  BY DEF PublishPod
<1>5. EnvOK' /\ WatchOK' /\ PosOK' /\ DefOK' /\ MemberOK'
  BY <1>0, <1>4, Frame DEF environmentVars
<1>6. pods' = pods \/ (\E result \in PodResult : pods' = [pods EXCEPT ![u] = result])
  BY <1>2, <1>3 DEF PublishPod
<1>7. StoreOK'
  BY <1>0, <1>4, <1>6 DEF StoreOK
<1>8. \E retry \in BOOLEAN : Return(k, {}, {}, retry)
  BY DEF PublishPod
<1>9. DirtyOK' /\ JobOK'
  BY <1>0, <1>1, <1>8, ReturnType
<1> QED
  BY <1>5, <1>7, <1>9 DEF TypeInv

\* unregisterPod.
LEMMA UnregisterPodType ==
  ASSUME TypeInv, NEW u \in PodUIDs, UnregisterPod(u)
  PROVE  TypeInv'
<1>0. EnvOK /\ WatchOK /\ PosOK /\ MemberOK /\ DefOK /\ DirtyOK /\ JobOK /\ StoreOK
  BY DEF TypeInv
<1>1. PodJob(u) \in AllJobs
  BY JobTypes
<1>2. /\ RootsWithoutPod(u) \in [UIDs -> Root \cup {None}]
      /\ \A r \in UIDs : /\ RootsWithoutPod(u)[r] = None <=> roots[r] = None
                         /\ roots[r] # None => RootsWithoutPod(u)[r].gvk = roots[r].gvk
      /\ LeftRoot(u) \subseteq AllJobs
  BY <1>0, RootsWithoutPodType
<1>3. UNCHANGED <<environmentVars, watchVars, pos, definitionVars, workloads, failures>>
  BY DEF UnregisterPod
<1>4. EnvOK' /\ WatchOK' /\ PosOK' /\ DefOK'
  BY <1>0, <1>3, Frame DEF environmentVars
<1>5. MemberOK'
  BY <1>0, <1>2 DEF UnregisterPod, MemberOK
<1>6. StoreOK'
  BY <1>0, <1>3 DEF UnregisterPod, StoreOK
<1>7. DirtyOK' /\ JobOK'
  BY <1>0, <1>1, <1>2, ReturnType DEF UnregisterPod
<1> QED
  BY <1>4, <1>5, <1>6, <1>7 DEF TypeInv

\* requeueScope.
LEMMA RequeueScopeType ==
  ASSUME TypeInv, RequeueScope
  PROVE  TypeInv'
<1>0. EnvOK /\ WatchOK /\ PosOK /\ MemberOK /\ DefOK /\ DirtyOK /\ JobOK /\ StoreOK
  BY DEF TypeInv
<1> DEFINE objects == UNION {EnqueueObject(defs, x[1], x[2]) : x \in {y \in Keys : Object(y[1], y[2]) # None}}
           selected == {SelectedJob(x[1], x[2]) : x \in {y \in SelectedKeys : Tracked(y[1], y[2])}}
<1>1. \A x \in Keys : Object(x[1], x[2]) # None => EnqueueObject(defs, x[1], x[2]) \subseteq AllJobs
  BY <1>0, EnqueueObjectType
<1>2. objects \subseteq AllJobs
  BY <1>1, Zenon
<1>3. selected \subseteq AllJobs
  BY JobTypes, Zenon
<1>4. dirty' = (dirty \ {Rescan}) \cup objects \cup selected
  BY DEF RequeueScope
<1>5. DirtyOK'
  <2> HIDE DEF objects, selected
  <2> QED
    BY <1>0, <1>2, <1>3, <1>4 DEF DirtyOK
<1> QED
  BY <1>0, <1>5, Frame DEF RequeueScope, TypeInv, environmentVars

-------------------------------------------------------------------------------
(* Root jobs *)

\* failWorkload.
LEMMA FailWorkloadType ==
  ASSUME StoreOK, DirtyOK, JobOK, NEW u \in UIDs, NEW ref \in Refs, NEW reason \in Errors,
         FailWorkload(u, ref, reason), UNCHANGED <<pods, failures>>
  PROVE  StoreOK' /\ DirtyOK' /\ JobOK'
<1>1. [hasValue |-> FALSE, ref |-> ref, karta |-> None, error |-> reason, statusError |-> "none"]
        \in WorkloadResult
  BY DEF WorkloadResult, Errors
<1>2. workloads[u] # None => [workloads[u] EXCEPT !.error = reason] \in WorkloadResult
  BY DEF StoreOK, WorkloadResult
<1>3. \E result \in WorkloadResult : workloads' = [workloads EXCEPT ![u] = result]
  BY <1>1, <1>2 DEF FailWorkload
<1>4. StoreOK'
  BY <1>3 DEF StoreOK
<1>5. RootJob(u) \in AllJobs
  BY JobTypes
<1>6. PICK taken : Return(RootJob(u), taken, {}, TRUE)
  BY DEF FailWorkload
<1>7. DirtyOK' /\ JobOK'
  BY <1>5, <1>6, ReturnType
<1> QED
  BY <1>4, <1>7

\* The step that reads the root.
LEMMA ReadWorkloadType ==
  ASSUME TypeInv, NEW u \in UIDs, ReadWorkload(u)
  PROVE  TypeInv'
<1> DEFINE k == RootJob(u)
           kind == KindOfObject[u[1]]
           ref == Ref(SelectedGVK(roots[u].gvk, defs[kind]), u, 0)
           err == Lookup(ref, TRUE)
           read == [ref EXCEPT !.rv = pos[<<ref.gvk, u[1]>>]]
           local == [pc |-> "publish", path |-> <<>>, def |-> defs[kind], ref |-> read,
                     err |-> DefinitionErr(kind), version |-> defVersion]
<1>0. EnvOK /\ WatchOK /\ PosOK /\ MemberOK /\ DefOK /\ DirtyOK /\ JobOK /\ StoreOK
  BY DEF TypeInv
<1>1. k \in AllJobs
  BY JobTypes
<1>2. UNCHANGED <<environmentVars, pos, definitionVars, membershipVars, pods, failures>>
  BY DEF ReadWorkload
<1>3. EnvOK' /\ PosOK' /\ DefOK' /\ MemberOK'
  BY <1>0, <1>2, Frame DEF environmentVars
<1>4. CASE roots[u] = None
  <2>1. Return(k, {k}, {}, FALSE) /\ UNCHANGED <<watchVars, workloads>>
    BY <1>4 DEF ReadWorkload
  <2>2. DirtyOK' /\ JobOK'
    <3>1. PICK taken : Return(k, taken, {}, FALSE)
      BY <2>1
    <3> QED
      BY <1>0, <1>1, <3>1, ReturnType
  <2> QED
    BY <1>0, <1>2, <1>3, <2>1, <2>2, Frame DEF TypeInv, storeVars
<1>5. CASE roots[u] # None
  <2>1. kind \in Kinds /\ u[1] \in Objects /\ roots[u].gvk \in GVKs /\ KindOf[roots[u].gvk] = kind
    BY <1>0, <1>5, ControllerAssumption DEF MemberOK, Root, UIDs
  <2>2. defs[kind] \in Definition \cup {None} /\ (defs[kind] # None => KindOf[defs[kind].gvk] = kind)
    BY <1>0, <2>1 DEF DefOK
  <2>3. SelectedGVK(roots[u].gvk, defs[kind]) \in GVKs
          /\ KindOf[SelectedGVK(roots[u].gvk, defs[kind])] = kind
    BY <2>1, <2>2, SelectedVersion
  <2>4. /\ ref \in KeyRefs /\ ref \in Refs /\ ref.uid = u /\ ref.gvk \in GVKs
        /\ ref.gvk = SelectedGVK(roots[u].gvk, defs[kind])
    BY <2>3 DEF Ref, KeyRefs, Refs
  <2>5. pos[<<ref.gvk, u[1]>>] \in Nat
    BY <1>0, <2>1, <2>3, <2>4, ObjectType
  <2>6. read \in KeyRefs /\ read \in Refs
    <3> HIDE DEF ref
    <3> QED
      BY <2>4, <2>5 DEF KeyRefs, Refs
  <2>7. LocalOK(k, local)
    <3>1. DefinitionErr(kind) \in Errors /\ defVersion \in Nat
      BY <1>0, DefinitionErrType DEF DefOK
    <3>2. read.uid = u /\ k[2] = u
      BY <2>4 DEF RootJob
    <3> HIDE DEF read, kind, k
    <3> QED
      BY <2>2, <2>6, <3>1, <3>2 DEF LocalOK, JobRecord, Steps
  <2>8. EnsureWatch(ref.gvk, TRUE, "job")
    BY <1>5 DEF ReadWorkload
  <2>9. WatchOK'
    <3> HIDE DEF ref
    <3> QED
      BY <1>0, <2>4, <2>8, EnsureWatchType
  <2>10. ASSUME NEW r \in Refs, NEW reason \in Errors, FailWorkload(u, r, reason) PROVE TypeInv'
    <3>1. StoreOK' /\ DirtyOK' /\ JobOK'
      BY <1>0, <1>2, <2>10, FailWorkloadType
    <3> QED
      BY <1>3, <2>9, <3>1 DEF TypeInv
  <2>11. ASSUME NEW l, LocalOK(k, l), Continue(k, {k}, l), UNCHANGED workloads PROVE TypeInv'
    <3>1. DirtyOK' /\ JobOK'
      BY <1>0, <1>1, <2>11, ContinueType
    <3> QED
      BY <1>0, <1>2, <1>3, <2>9, <2>11, <3>1, Frame DEF TypeInv, storeVars
  <2>12. FailureReason(err) \in Errors /\ {"unavailable", "unresolved"} \subseteq Errors
    <3>1. FailureReason(err) \in Errors
      <4> HIDE DEF ref
      <4> QED
        BY <1>0, <2>4, ReasonType
    <3> QED
      BY <3>1 DEF Errors
  <2>13. LocalOK(k, Local("withdraw")) /\ LocalOK(k, Local("remove"))
    BY LocalType
  <2>14. \/ \E r \in {ref, read} : FailWorkload(u, r, "unavailable") \/ FailWorkload(u, r, "unresolved")
                                     \/ FailWorkload(u, r, FailureReason(err))
         \/ \E l \in {Local("withdraw"), Local("remove"), local} :
              Continue(k, {k}, l) /\ UNCHANGED workloads
    BY <1>5 DEF ReadWorkload
  <2> HIDE DEF ref, read, local, err
  <2> QED
    BY <2>4, <2>6, <2>7, <2>10, <2>11, <2>12, <2>13, <2>14
<1> QED
  BY <1>4, <1>5

\* withdrawWorkload and Store.RemoveWorkload.
LEMMA WithdrawWorkloadType ==
  ASSUME TypeInv, NEW u \in UIDs, WithdrawWorkload(u) \/ RemoveWorkload(u)
  PROVE  TypeInv'
<1>0. EnvOK /\ WatchOK /\ PosOK /\ MemberOK /\ DefOK /\ DirtyOK /\ JobOK /\ StoreOK
  BY DEF TypeInv
<1>1. RootJob(u) \in AllJobs
  BY JobTypes
<1>2. UNCHANGED <<environmentVars, watchVars, pos, definitionVars, ancestorPods, pods, failures>>
  BY DEF WithdrawWorkload, RemoveWorkload, membershipVars
<1>3. EnvOK' /\ WatchOK' /\ PosOK' /\ DefOK'
  BY <1>0, <1>2, Frame DEF environmentVars
<1>4. StoreOK'
  BY <1>0, <1>2 DEF WithdrawWorkload, RemoveWorkload, RemovedWorkload, StoreOK
<1>5. CASE WithdrawWorkload(u)
  <2>1. NoOutcome \in Outcome
    BY DEF NoOutcome, Outcome
  <2>2. MemberOK'
    BY <1>0, <1>5, <2>1 DEF WithdrawWorkload, MemberOK
  <2>3. (IF roots[u] = None THEN {} ELSE EnqueueMembers(u)) \subseteq AllJobs
    BY <1>0, MembersType
  <2>4. DirtyOK' /\ JobOK'
    BY <1>0, <1>1, <1>5, <2>3, ReturnType DEF WithdrawWorkload
  <2> QED
    BY <1>3, <1>4, <2>2, <2>4 DEF TypeInv
<1>6. CASE RemoveWorkload(u)
  <2>1. DirtyOK' /\ JobOK'
    BY <1>0, <1>1, <1>6, ReturnType DEF RemoveWorkload
  <2> QED
    BY <1>0, <1>3, <1>4, <1>6, <2>1, Frame DEF RemoveWorkload, TypeInv
<1> QED
  BY <1>5, <1>6

\* publishWorkload.
LEMMA PublishWorkloadType ==
  ASSUME TypeInv, NEW u \in UIDs, PublishWorkload(u)
  PROVE  TypeInv'
<1> DEFINE k == RootJob(u)
           ref == job[k].ref
           karta == IF job[k].def = None \/ job[k].err # "none" THEN None ELSE job[k].def.origin
           fresh == [hasValue |-> TRUE, ref |-> ref, error |-> "none", statusError |-> StatusErr(u),
                     karta |-> karta]
           kept == [fresh EXCEPT !.ref = workloads[u].ref, !.karta = workloads[u].karta]
<1>0. EnvOK /\ WatchOK /\ PosOK /\ MemberOK /\ DefOK /\ DirtyOK /\ JobOK /\ StoreOK
  BY DEF TypeInv
<1>1. k \in AllJobs /\ k \in DOMAIN job /\ LocalOK(k, job[k]) /\ job[k].pc = "publish"
  BY <1>0, JobTypes DEF PublishWorkload, At, Busy, JobOK
<1>2. ref \in KeyRefs /\ ref \in Refs /\ job[k].err \in Errors
  BY <1>1 DEF LocalOK, KeyRefs, JobRecord
<1>3. StatusErr(u) \in Errors
  BY <1>2 DEF StatusErr, Errors
<1>4. karta \in STRING \cup {None}
  BY <1>1 DEF LocalOK, JobRecord, Definition
<1>5. fresh \in WorkloadResult
  <2> HIDE DEF karta, ref
  <2> QED
    BY <1>2, <1>3, <1>4 DEF WorkloadResult, Errors
<1>6. workloads[u] # None => kept \in WorkloadResult
  <2> HIDE DEF fresh
  <2> QED
    BY <1>0, <1>5 DEF WorkloadResult, StoreOK
<1>7. UNCHANGED <<environmentVars, watchVars, pos, definitionVars, podRoots, selectedRoots,
                  ancestorPods, pods, failures>>
  BY DEF PublishWorkload
<1>8. EnvOK' /\ WatchOK' /\ PosOK' /\ DefOK'
  BY <1>0, <1>7, Frame DEF environmentVars
<1>9. workloads' = workloads \/ (\E result \in WorkloadResult : workloads' = [workloads EXCEPT ![u] = result])
  <2> HIDE DEF karta
  <2> QED
    BY <1>5, <1>6 DEF PublishWorkload, karta
<1>10. StoreOK'
  BY <1>0, <1>7, <1>9 DEF StoreOK
<1>11. roots' = roots \/ (roots[u] # None /\ roots' = [roots EXCEPT ![u].gvk = ref.gvk])
  BY DEF PublishWorkload
<1>12. MemberOK'
  <2>1. ref.uid = u /\ ref.gvk \in GVKs /\ KindOf[ref.gvk] = KindOfObject[u[1]]
    BY <1>1, <1>2 DEF LocalOK, RootJob, KeyRefs, Refs
  <2>2. CASE roots' = roots
    BY <1>0, <1>7, <2>2 DEF MemberOK
  <2>3. CASE roots[u] # None /\ roots' = [roots EXCEPT ![u].gvk = ref.gvk]
    <3> HIDE DEF ref
    <3>1. [roots[u] EXCEPT !.gvk = ref.gvk] \in Root /\ [roots[u] EXCEPT !.gvk = ref.gvk].gvk = ref.gvk
      BY <1>0, <2>1, <2>3 DEF MemberOK, Root
    <3> QED
      BY <1>0, <1>7, <2>1, <2>3, <3>1 DEF MemberOK
  <2> QED
    BY <1>11, <2>2, <2>3
<1>13. \E retry \in BOOLEAN : Return(k, {}, {}, retry)
  BY DEF PublishWorkload
<1>14. DirtyOK' /\ JobOK'
  BY <1>0, <1>1, <1>13, ReturnType
<1> QED
  BY <1>8, <1>10, <1>12, <1>14 DEF TypeInv

-------------------------------------------------------------------------------
(* Selected-object jobs *)

\* Leaving a root takes the object from its members.
LEMMA RootsWithoutSelectedType ==
  ASSUME MemberOK, NEW x \in SelectedKeys
  PROVE  /\ RootsWithoutSelected(x) \in [UIDs -> Root \cup {None}]
         /\ \A r \in UIDs : /\ RootsWithoutSelected(x)[r] = None <=> roots[r] = None
                            /\ roots[r] # None => RootsWithoutSelected(x)[r].gvk = roots[r].gvk
         /\ LeftSelectedRoot(x) \subseteq AllJobs
<1> DEFINE r0 == selectedRoots[x].root
<1>1. CASE selectedRoots[x] # None /\ r0 # None /\ roots[r0] # None
  <2>1. r0 \in UIDs /\ roots[r0] \in Root
    BY <1>1 DEF MemberOK, Outcome
  <2>2. [roots[r0] EXCEPT !.selected = @ \ {x}] \in Root
    BY <2>1 DEF Root
  <2>3. RootsWithoutSelected(x) = [roots EXCEPT ![r0] = [roots[r0] EXCEPT !.selected = @ \ {x}]]
    BY <1>1 DEF RootsWithoutSelected
  <2>4. LeftSelectedRoot(x) \subseteq AllJobs
    BY <2>1, JobTypes DEF LeftSelectedRoot
  <2> HIDE DEF r0
  <2> QED
    BY <2>1, <2>2, <2>3, <2>4, NoneAssumption DEF MemberOK, Root
<1>2. CASE ~(selectedRoots[x] # None /\ r0 # None /\ roots[r0] # None)
  BY <1>2 DEF RootsWithoutSelected, LeftSelectedRoot, MemberOK
<1> QED
  BY <1>1, <1>2

\* failSelectedObjectDiscovery.
LEMMA FailSelectedType ==
  ASSUME StoreOK, DirtyOK, JobOK, NEW x \in SelectedKeys, FailSelected(x), UNCHANGED <<pods, workloads>>
  PROVE  StoreOK' /\ DirtyOK' /\ JobOK'
<1>1. StoreOK'
  BY DEF StoreOK, FailSelected, SelectedKeys
<1>2. PICK taken : Return(JobOf(x), taken, {}, TRUE)
  BY DEF FailSelected
<1>3. JobOf(x) \in AllJobs
  BY JobTypes
<1> QED
  BY <1>1, <1>2, <1>3, ReturnType

\* The step that reads the object and discovers its root.
LEMMA ResolveSelectedType ==
  ASSUME TypeInv, NEW x \in SelectedKeys, ResolveSelectedObject(x)
  PROVE  TypeInv'
<1> DEFINE k == JobOf(x)
           def == defs[KindOf[x[1]]]
           outcome == IF selectedRoots[x] = None THEN NoOutcome ELSE selectedRoots[x]
           swapErr == Lookup(Ref(def.gvk, x[2], 0), TRUE)
           err == Lookup(Ref(x[1], x[2], 0), FALSE)
           start == CachedRef(<<x[1], x[2][1]>>)
<1>0. EnvOK /\ WatchOK /\ PosOK /\ MemberOK /\ DefOK /\ DirtyOK /\ JobOK /\ StoreOK
  BY DEF TypeInv
<1>1. /\ k \in AllJobs /\ x[1] \in GVKs /\ x[2] \in UIDs /\ KindOf[x[1]] \in Kinds
      /\ KindOf[x[1]] = KindOfObject[x[2][1]]
  BY JobTypes, ControllerAssumption DEF SelectedKeys
<1>2. UNCHANGED <<environmentVars, pos, definitionVars, roots, podRoots, ancestorPods, pods, workloads>>
  BY DEF ResolveSelectedObject
<1>3. EnvOK' /\ PosOK' /\ DefOK'
  BY <1>0, <1>2, Frame DEF environmentVars
<1>4. MemberOK'
  <2>1. outcome \in Outcome
    BY <1>0 DEF MemberOK, NoOutcome, Outcome
  <2>2. [outcome EXCEPT !.exclusion = None] \in Outcome
    <3> HIDE DEF outcome
    <3> QED
      BY <2>1 DEF Outcome
  <2>3. selectedRoots' = [selectedRoots EXCEPT ![x] = [outcome EXCEPT !.exclusion = None]]
    BY DEF ResolveSelectedObject
  <2> HIDE DEF outcome
  <2> QED
    BY <1>0, <1>2, <2>2, <2>3 DEF MemberOK
<1>5. ASSUME FailSelected(x), WatchOK' PROVE TypeInv'
  <2>1. StoreOK' /\ DirtyOK' /\ JobOK'
    BY <1>0, <1>2, <1>5, FailSelectedType
  <2> QED
    BY <1>3, <1>4, <1>5, <2>1 DEF TypeInv
<1>6. ASSUME NEW local, LocalOK(k, local), Continue(k, {k}, local), UNCHANGED failures, WatchOK'
      PROVE  TypeInv'
  <2>1. DirtyOK' /\ JobOK'
    BY <1>0, <1>1, <1>6, ContinueType
  <2> QED
    BY <1>0, <1>2, <1>3, <1>4, <1>6, <2>1, Frame DEF TypeInv, storeVars
<1>7. UNCHANGED watchVars => WatchOK'
  BY <1>0, Frame
<1>8. defVersion \in Nat /\ def \in Definition \cup {None} /\ (def # None => KindOf[def.gvk] = KindOf[x[1]])
  BY <1>0, <1>1 DEF DefOK
<1>9. CASE FailSelected(x) /\ UNCHANGED watchVars
  BY <1>5, <1>7, <1>9
<1>10. ASSUME def # None, def.gvk # x[1], EnsureWatch(def.gvk, TRUE, "job"),
              \/ Return(k, {k}, {}, TRUE) /\ UNCHANGED failures
              \/ /\ Continue(k, {k}, [Local("replace") EXCEPT !.version = defVersion, !.def = def,
                                     !.ref = IF swapErr = "none" THEN Ref(def.gvk, x[2], 0) ELSE None])
                 /\ UNCHANGED failures
       PROVE  TypeInv'
  <2> DEFINE ref == IF swapErr = "none" THEN Ref(def.gvk, x[2], 0) ELSE None
             local == [Local("replace") EXCEPT !.version = defVersion, !.def = def, !.ref = ref]
  <2>1. def.gvk \in GVKs
    BY <1>8, <1>10 DEF Definition
  <2>2. WatchOK'
    <3> HIDE DEF def
    <3> QED
      BY <1>0, <1>10, <2>1, EnsureWatchType
  <2>3. ref \in Refs \cup {None}
    BY <1>1, <2>1 DEF Ref, Refs
  <2>4. LocalOK(k, local)
    <3>1. k[2] = x[1]
      BY DEF JobOf, SelectedJob
    <3> HIDE DEF ref, def, k
    <3>2. Local("replace") \in JobRecord /\ Local("replace").path = <<>> /\ Local("replace").pc = "replace"
      BY LocalRecord DEF Steps
    <3>3. local \in JobRecord
      BY <1>8, <2>3, <3>2 DEF JobRecord
    <3>4. local.pc = "replace" /\ local.path = <<>> /\ local.def = def
      BY <3>2 DEF JobRecord
    <3> HIDE DEF local
    <3> QED
      BY <1>8, <1>10, <3>1, <3>3, <3>4 DEF LocalOK
  <2>5. CASE Continue(k, {k}, local) /\ UNCHANGED failures
    BY <1>6, <2>2, <2>4, <2>5
  <2>6. CASE Return(k, {k}, {}, TRUE) /\ UNCHANGED failures
    <3>1. PICK taken : Return(k, taken, {}, TRUE)
      BY <2>6
    <3>2. DirtyOK' /\ JobOK'
      BY <1>0, <1>1, <3>1, ReturnType
    <3> QED
      BY <1>0, <1>2, <1>3, <1>4, <2>2, <2>6, <3>2, Frame DEF TypeInv, storeVars
  <2> QED
    BY <1>10, <2>5, <2>6
<1>11. CASE Continue(k, {k}, Local("unregister")) /\ UNCHANGED failures /\ UNCHANGED watchVars
  BY <1>6, <1>7, <1>11, LocalType
<1>12. ASSUME err = "none", NEW path \in Walks(start), NEW pc \in {"register", "exclude"},
              \/ FailSelected(x) /\ WalkEnsures(path)
              \/ /\ Continue(k, {k}, [Local(pc) EXCEPT !.path = path, !.version = defVersion])
                 /\ UNCHANGED failures /\ UNCHANGED watchVars
       PROVE  TypeInv'
  <2>1. /\ path \in Seq(KeyRefs) /\ path \in Seq(Refs) /\ path # <<>> /\ WalkOK(start, path)
        /\ start \in KeyRefs /\ Current(start)
    BY <1>0, <1>12, WalkType, ReadIsCurrent
  <2>2. CASE FailSelected(x) /\ WalkEnsures(path)
    <3>1. NamesOwner(ObjectAt(Last(path))) => OwnerRef(path).gvk \in GVKs
      <4> HIDE DEF start
      <4> QED
        BY <1>0, <2>1, WalkErrType
    <3>2. WatchOK'
      BY <1>0, <2>2, <3>1, EnsureWatchType, Frame DEF WalkEnsures
    <3> QED
      BY <1>5, <2>2, <3>2
  <2>3. CASE /\ Continue(k, {k}, [Local(pc) EXCEPT !.path = path, !.version = defVersion])
             /\ UNCHANGED failures /\ UNCHANGED watchVars
    <3> DEFINE local == [Local(pc) EXCEPT !.path = path, !.version = defVersion]
    <3>1. Local(pc) \in JobRecord /\ Local(pc).def = None /\ Local(pc).pc = pc
      BY LocalRecord DEF Steps
    <3>2. LocalOK(k, local)
      <4> HIDE DEF k
      <4> QED
        BY <1>8, <2>1, <3>1 DEF LocalOK, JobRecord
    <3> HIDE DEF local
    <3> QED
      BY <1>6, <1>7, <2>3, <3>2 DEF local
  <2> QED
    BY <1>12, <2>2, <2>3
<1>13. \/ FailSelected(x) /\ UNCHANGED watchVars
       \/ /\ def # None /\ def.gvk # x[1] /\ EnsureWatch(def.gvk, TRUE, "job")
          /\ \/ Return(k, {k}, {}, TRUE) /\ UNCHANGED failures
             \/ /\ Continue(k, {k}, [Local("replace") EXCEPT !.version = defVersion, !.def = def,
                                     !.ref = IF swapErr = "none" THEN Ref(def.gvk, x[2], 0) ELSE None])
                /\ UNCHANGED failures
       \/ Continue(k, {k}, Local("unregister")) /\ UNCHANGED failures /\ UNCHANGED watchVars
       \/ /\ err = "none"
          /\ \E path \in Walks(start), pc \in {"register", "exclude"} :
               \/ FailSelected(x) /\ WalkEnsures(path)
               \/ /\ Continue(k, {k}, [Local(pc) EXCEPT !.path = path, !.version = defVersion])
                  /\ UNCHANGED failures /\ UNCHANGED watchVars
  <2>1. Ref(def.gvk, x[2], 0).gvk = def.gvk
    BY DEF Ref
  <2> QED
    BY <2>1 DEF ResolveSelectedObject
<1> HIDE DEF k, def, swapErr, err, start
<1> QED
  BY <1>9, <1>10, <1>11, <1>12, <1>13

\* A selected object that keeps no root, or none but its exclusion.
LEMMA LeaveRootType ==
  ASSUME MemberOK, NEW x \in SelectedKeys, NEW result \in Outcome \cup {None},
         roots' = RootsWithoutSelected(x), selectedRoots' = [selectedRoots EXCEPT ![x] = result],
         UNCHANGED <<podRoots, ancestorPods>>
  PROVE  MemberOK'
BY RootsWithoutSelectedType DEF MemberOK

\* replaceSelectedObjectTracking, excludeSelectedObject and unregisterSelectedObject.
LEMMA LeaveSelectedType ==
  ASSUME TypeInv, NEW x \in SelectedKeys,
         ReplaceSelectedObjectTracking(x) \/ ExcludeSelectedObject(x) \/ UnregisterSelectedObject(x)
  PROVE  TypeInv'
<1> DEFINE k == JobOf(x)
           y == <<job[k].def.gvk, x[2]>>
           queued == IF job[k].ref = None THEN {} ELSE {JobOf(y)}
           exclusion == [path |-> job[k].path, version |-> job[k].version]
<1>0. EnvOK /\ WatchOK /\ PosOK /\ MemberOK /\ DefOK /\ DirtyOK /\ JobOK /\ StoreOK
  BY DEF TypeInv
<1>1. k \in AllJobs /\ k \in DOMAIN job /\ LocalOK(k, job[k]) /\ x[1] \in GVKs /\ x[2] \in UIDs
        /\ KindOf[x[1]] = KindOfObject[x[2][1]]
  BY <1>0, JobTypes
     DEF ReplaceSelectedObjectTracking, ExcludeSelectedObject, UnregisterSelectedObject,
         At, Busy, JobOK, SelectedKeys
<1>2. UNCHANGED <<environmentVars, watchVars, pos, definitionVars, podRoots, ancestorPods, pods, workloads>>
  BY DEF ReplaceSelectedObjectTracking, ExcludeSelectedObject, UnregisterSelectedObject
<1>3. EnvOK' /\ WatchOK' /\ PosOK' /\ DefOK'
  BY <1>0, <1>2, Frame DEF environmentVars
<1>4. [root |-> None, exclusion |-> exclusion] \in Outcome
  <2>1. exclusion \in Exclusion
    BY <1>1 DEF LocalOK, JobRecord, Exclusion
  <2> HIDE DEF exclusion
  <2> QED
    BY <2>1 DEF Outcome
<1>5. LeftSelectedRoot(x) \subseteq AllJobs
  BY <1>0, RootsWithoutSelectedType
<1>6. ReplaceSelectedObjectTracking(x) => queued \subseteq AllJobs
  <2>1. SUFFICES ASSUME ReplaceSelectedObjectTracking(x) PROVE queued \subseteq AllJobs
    OBVIOUS
  <2>2. job[k].pc = "replace" /\ k[2] = x[1]
    BY <2>1 DEF ReplaceSelectedObjectTracking, At, JobOf, SelectedJob
  <2>3. job[k].def.gvk \in GVKs /\ KindOf[job[k].def.gvk] = KindOf[x[1]]
    BY <1>1, <2>2 DEF LocalOK, JobRecord, Definition
  <2>4. y \in SelectedKeys
    BY <1>1, <2>3 DEF SelectedKeys
  <2>5. JobOf(y) \in AllJobs
    <3> HIDE DEF y
    <3> QED
      BY <2>4, JobTypes
  <2> QED
    BY <2>5
<1>7. ASSUME NEW work, work \subseteq AllJobs, NEW retry, Return(k, {}, work, retry)
      PROVE  DirtyOK' /\ JobOK'
  <2> HIDE DEF k
  <2> QED
    BY <1>0, <1>1, <1>7, ReturnType
<1>8. DirtyOK' /\ JobOK'
  <2>1. CASE ReplaceSelectedObjectTracking(x)
    <3>1. \/ Return(k, {}, {}, TRUE) \/ Return(k, {}, queued, TRUE)
          \/ Return(k, {}, queued \cup LeftSelectedRoot(x), FALSE)
      BY <2>1, Zenon DEF ReplaceSelectedObjectTracking
    <3>2. queued \subseteq AllJobs /\ queued \cup LeftSelectedRoot(x) \subseteq AllJobs
      BY <1>5, <1>6, <2>1
    <3> HIDE DEF queued, k
    <3> QED
      BY <1>7, <3>1, <3>2
  <2>2. CASE ExcludeSelectedObject(x)
    <3>1. Return(k, {}, {}, TRUE) \/ Return(k, {}, LeftSelectedRoot(x), FALSE)
      BY <2>2 DEF ExcludeSelectedObject
    <3> HIDE DEF k
    <3> QED
      BY <1>5, <1>7, <3>1
  <2>3. CASE UnregisterSelectedObject(x)
    <3>1. Return(k, {}, LeftSelectedRoot(x), FALSE)
      BY <2>3 DEF UnregisterSelectedObject
    <3> HIDE DEF k
    <3> QED
      BY <1>5, <1>7, <3>1
  <2> QED
    BY <2>1, <2>2, <2>3
<1>9. StoreOK'
  <2>1. failures' \subseteq failures
    BY DEF ReplaceSelectedObjectTracking, ExcludeSelectedObject, UnregisterSelectedObject
  <2> QED
    BY <1>0, <1>2, <2>1 DEF StoreOK
<1>10. MemberOK'
  <2>1. \/ roots' = roots /\ selectedRoots' = selectedRoots
        \/ /\ roots' = RootsWithoutSelected(x)
           /\ \E result \in {None, [root |-> None, exclusion |-> exclusion]} :
                selectedRoots' = [selectedRoots EXCEPT ![x] = result]
    BY DEF ReplaceSelectedObjectTracking, ExcludeSelectedObject, UnregisterSelectedObject
  <2> HIDE DEF exclusion
  <2> QED
    BY <1>0, <1>2, <1>4, <2>1, LeaveRootType, Frame DEF membershipVars
<1> QED
  BY <1>3, <1>8, <1>9, <1>10 DEF TypeInv

\* registerSelectedObjectRoot.
LEMMA RegisterSelectedType ==
  ASSUME TypeInv, NEW x \in SelectedKeys, RegisterSelectedObjectRoot(x)
  PROVE  TypeInv'
<1> DEFINE k == JobOf(x)
           root == RootOf(k)
           ensured == EnsuredRoot(root)
           previous == IF selectedRoots[x] = None THEN None ELSE selectedRoots[x].root
           left == IF previous = root.uid THEN roots ELSE RootsWithoutSelected(x)
           work == {RootJob(root.uid)} \cup IF previous = root.uid THEN {} ELSE LeftSelectedRoot(x)
<1>0. EnvOK /\ WatchOK /\ PosOK /\ MemberOK /\ DefOK /\ DirtyOK /\ JobOK /\ StoreOK
  BY DEF TypeInv
<1>1. k \in AllJobs /\ k \in DOMAIN job /\ job[k].pc = "register"
  BY JobTypes DEF RegisterSelectedObjectRoot, At, Busy
<1>2. LocalOK(k, job[k]) /\ job[k].path \in Seq(KeyRefs) /\ job[k].path # <<>>
  BY <1>0, <1>1 DEF JobOK, LocalOK
<1>3. root \in KeyRefs /\ root.uid \in UIDs
  BY <1>2, WalkEnd DEF RootOf
<1>4. UNCHANGED <<environmentVars, watchVars, pos, definitionVars, pods, workloads>>
  BY DEF RegisterSelectedObjectRoot
<1>5. EnvOK' /\ WatchOK' /\ PosOK' /\ DefOK'
  BY <1>0, <1>4, Frame DEF environmentVars
<1>6. /\ RootsWithoutSelected(x) \in [UIDs -> Root \cup {None}]
      /\ \A r \in UIDs : /\ RootsWithoutSelected(x)[r] = None <=> roots[r] = None
                         /\ roots[r] # None => RootsWithoutSelected(x)[r].gvk = roots[r].gvk
      /\ LeftSelectedRoot(x) \subseteq AllJobs
  BY <1>0, RootsWithoutSelectedType
<1>7. CASE Return(k, {}, {}, TRUE) /\ UNCHANGED <<membershipVars, failures>>
  <2>1. DirtyOK' /\ JobOK'
    BY <1>0, <1>1, <1>7, ReturnType
  <2> QED
    BY <1>0, <1>4, <1>5, <1>7, <2>1, Frame DEF TypeInv, storeVars
<1>8. CASE /\ ancestorPods' = ancestorPods \cup PathPods(job[k].path)
           /\ roots' = [left EXCEPT ![root.uid] = [ensured EXCEPT !.selected = @ \cup {x}]]
           /\ selectedRoots' = [selectedRoots EXCEPT ![x] = [root |-> root.uid, exclusion |-> None]]
           /\ failures' = failures \ {x[2]}
           /\ Return(k, {}, work, FALSE)
           /\ UNCHANGED podRoots
  <2>1. ensured \in Root /\ KindOf[ensured.gvk] = KindOfObject[root.uid[1]]
    BY <1>0, <1>3, EnsuredRootType
  <2>2. MemberOK'
    <3>1. [root |-> root.uid, exclusion |-> None] \in Outcome
      BY <1>3 DEF Outcome
    <3>2. /\ left \in [UIDs -> Root \cup {None}]
          /\ \A r \in UIDs : left[r] # None => KindOf[left[r].gvk] = KindOfObject[r[1]]
      BY <1>0, <1>6 DEF MemberOK
    <3> HIDE DEF ensured, root, k, left
    <3>3. [ensured EXCEPT !.selected = @ \cup {x}] \in Root
            /\ [ensured EXCEPT !.selected = @ \cup {x}].gvk = ensured.gvk
      BY <2>1 DEF Root
    <3>4. roots' \in [UIDs -> Root \cup {None}]
      BY <1>3, <1>8, <3>2, <3>3
    <3>5. \A r \in UIDs : roots'[r] # None => KindOf[roots'[r].gvk] = KindOfObject[r[1]]
      BY <1>3, <1>8, <2>1, <3>2, <3>3
    <3>6. ancestorPods' \subseteq PodUIDs
      BY <1>0, <1>2, <1>8, PathPodsType DEF MemberOK
    <3> QED
      BY <1>0, <1>8, <3>1, <3>4, <3>5, <3>6 DEF MemberOK
  <2>3. work \subseteq AllJobs \cup {Rescan}
    BY <1>3, <1>6, JobTypes
  <2>4. DirtyOK' /\ JobOK'
    <3> HIDE DEF work, k
    <3> QED
      BY <1>0, <1>1, <1>8, <2>3, ReturnType
  <2>5. StoreOK'
    BY <1>0, <1>4, <1>8 DEF StoreOK
  <2> QED
    BY <1>5, <2>2, <2>4, <2>5 DEF TypeInv
<1> QED
  BY <1>7, <1>8 DEF RegisterSelectedObjectRoot

-------------------------------------------------------------------------------

\* Every step of the controller preserves the invariant.
LEMMA NextType ==
  ASSUME TypeInv, [Next]_vars
  PROVE  TypeInv'
<1>1. CASE UNCHANGED vars
  BY <1>1, Frame DEF TypeInv, vars, environmentVars
<1>2. CASE Watching
  <2>1. PICK g \in GVKs :
          \/ \E o \in Objects : WatchEvent(g, o)
          \/ Listing(g)
          \/ \E slot \in {s \in Slots : WatchIn(g, s) # None} :
               \/ \E listing \in BOOLEAN : WatchStarts(g, slot, listing)
               \/ failuresLeft > 0 /\ \E err \in WatchErrors : WatchFails(g, slot, err)
    BY <1>2 DEF Watching
  <2> QED
    BY <2>1, WatchEventType, ListingType, WatchHealthType
<1>3. CASE Syncing
  BY <1>3, SyncingType
<1>4. CASE External
  BY <1>4, ExternalType
<1>5. CASE \E u \in PodUIDs : PodStep(u)
  BY <1>5, ResolvePodType, RegisterPodRootType, ReadPodRootType, FailPodEvaluationType,
     PublishPodType, UnregisterPodType DEF PodStep
<1>6. CASE RequeueScope
  BY <1>6, RequeueScopeType
<1>7. CASE \E u \in UIDs : RootStep(u)
  BY <1>7, ReadWorkloadType, WithdrawWorkloadType, PublishWorkloadType DEF RootStep
<1>8. CASE \E x \in SelectedKeys : SelectedStep(x)
  BY <1>8, ResolveSelectedType, LeaveSelectedType, RegisterSelectedType DEF SelectedStep
<1> QED
  BY <1>1, <1>2, <1>3, <1>4, <1>5, <1>6, <1>7, <1>8 DEF Next

\* The strengthened type invariant, which the other proofs about the controller use.
LEMMA ControllerTypeInv == Spec => []TypeInv
BY InitType, NextType, PTL DEF Spec

\* Every reference, key, root and result of the controller is well formed in
\* every reachable state, whatever the lives of the objects, the definitions of
\* the inventory and the failures of the watches.
THEOREM ControllerTypeOK == Spec => []TypeOK
BY ControllerTypeInv, TypeInvImpliesTypeOK, PTL

-------------------------------------------------------------------------------
(* Health of sources *)

\* A replacement that has listed takes over in the same step, so none is ready.
ReplacementListing == \A g \in GVKs : replacements[g] # None => ~replacements[g].ready

HealthInv == ReplacementListing /\ HealthHonest

\* A watch changes only where ensureWatch, setWatchHealth, recordWatchStart and
\* Replace change it.
LEMMA WatchFrame ==
  ASSUME [Next]_vars
  PROVE  \/ UNCHANGED <<watches, replacements, health>>
         \/ \E g, full, scope : EnsureWatch(g, full, scope)
         \/ \E g \in GVKs, slot \in Slots :
              /\ WatchIn(g, slot) # None
              /\ \/ \E at : Replace(g, slot, at)
                 \/ \E err \in WatchErrors : WatchFails(g, slot, err)
                 \/ \E listing \in BOOLEAN : WatchStarts(g, slot, listing)
<1>1. CASE UNCHANGED vars
  BY <1>1 DEF vars, watchVars
<1>2. CASE Watching
  <2>1. PICK g \in GVKs :
          \/ \E o \in Objects : WatchEvent(g, o)
          \/ Listing(g)
          \/ \E slot \in {s \in Slots : WatchIn(g, s) # None} :
               \/ \E listing \in BOOLEAN : WatchStarts(g, slot, listing)
               \/ \E err \in WatchErrors : WatchFails(g, slot, err)
    BY <1>2 DEF Watching
  <2>2. CASE \E o \in Objects : WatchEvent(g, o)
    BY <2>2 DEF WatchEvent, watchVars
  <2>3. CASE Listing(g)
    BY <2>3 DEF Listing, Owes
  <2> QED
    BY <2>1, <2>2, <2>3
<1>3. CASE Syncing
  BY <1>3 DEF Syncing, RefreshDefinitions, SyncWatch, SyncReturns, watchVars
<1>4. CASE External
  BY <1>4 DEF External, InventoryChanges, Install, watchVars
<1>5. CASE \E u \in PodUIDs : PodStep(u)
  <2>1. PICK u \in PodUIDs : PodStep(u)
    BY <1>5
  <2>2. CASE ResolvePod(u)
    BY <2>2 DEF ResolvePod, WalkEnsures, watchVars
  <2>3. CASE ReadPodRoot(u)
    BY <2>3 DEF ReadPodRoot, watchVars
  <2>4. CASE RegisterPodRoot(u) \/ FailPodEvaluation(u) \/ PublishPod(u) \/ UnregisterPod(u)
    BY <2>4 DEF RegisterPodRoot, FailPodEvaluation, PublishPod, UnregisterPod, watchVars
  <2> QED
    BY <2>1, <2>2, <2>3, <2>4 DEF PodStep
<1>6. CASE RequeueScope
  BY <1>6 DEF RequeueScope, watchVars
<1>7. CASE \E u \in UIDs : RootStep(u)
  BY <1>7 DEF RootStep, ReadWorkload, WithdrawWorkload, RemoveWorkload, PublishWorkload, watchVars
<1>8. CASE \E x \in SelectedKeys : SelectedStep(x)
  <2>1. PICK x \in SelectedKeys : SelectedStep(x)
    BY <1>8
  <2>2. CASE ResolveSelectedObject(x)
    BY <2>2 DEF ResolveSelectedObject, WalkEnsures, watchVars
  <2>3. CASE ReplaceSelectedObjectTracking(x) \/ RegisterSelectedObjectRoot(x)
               \/ ExcludeSelectedObject(x) \/ UnregisterSelectedObject(x)
    BY <2>3 DEF ReplaceSelectedObjectTracking, RegisterSelectedObjectRoot, ExcludeSelectedObject,
                UnregisterSelectedObject, watchVars
  <2> QED
    BY <2>1, <2>2, <2>3 DEF SelectedStep
<1> QED
  BY <1>1, <1>2, <1>3, <1>4, <1>5, <1>6, <1>7, <1>8 DEF Next

\* Every change of a watch keeps Store's health honest.
LEMMA NextHealth ==
  ASSUME TypeInv, HealthInv, [Next]_vars
  PROVE  HealthInv'
<1>0. WatchOK
  BY DEF TypeInv
<1>1. CASE UNCHANGED <<watches, replacements, health>>
  BY <1>1 DEF HealthInv, ReplacementListing, HealthHonest
<1>2. CASE \E g, full, scope : EnsureWatch(g, full, scope)
  <2>1. PICK g, full, scope : EnsureWatch(g, full, scope)
    BY <1>2
  <2>2. NewWatch(full).ready = FALSE
    BY DEF NewWatch
  <2>3. ReplacementListing'
    BY <1>0, <2>1, <2>2 DEF HealthInv, ReplacementListing, EnsureWatch, WatchOK
  <2>4. HealthHonest'
    BY <1>0, <2>1 DEF HealthInv, HealthHonest, EnsureWatch, WatchOK, StartsWatch, StartsReplacement
  <2> QED
    BY <2>3, <2>4 DEF HealthInv
<1>3. ASSUME NEW g \in GVKs, NEW slot \in Slots, WatchIn(g, slot) # None, NEW at, Replace(g, slot, at)
      PROVE  HealthInv'
  <2> DEFINE w == [WatchIn(g, slot) EXCEPT !.ready = TRUE, !.err = "none", !.listing = FALSE]
  <2>1. w.ready = TRUE /\ w.err = "none" /\ w # None
    <3>1. WatchIn(g, slot) \in WatchRecord
      BY <1>0, <1>3 DEF WatchOK, WatchIn
    <3>2. w \in WatchRecord
      BY <3>1 DEF WatchRecord
    <3> QED
      BY <3>1, <3>2, NoneAssumption DEF WatchRecord
  <2>2. /\ watches' = [watches EXCEPT ![g] = w]
        /\ replacements' = IF slot = "replacement" THEN [replacements EXCEPT ![g] = None]
                                                   ELSE replacements
        /\ health' = IF replacements'[g] = None
                       THEN [health EXCEPT ![g] = [synced |-> TRUE, err |-> "none"]] ELSE health
    BY <1>3 DEF Replace
  <2> HIDE DEF w
  <2>3. ReplacementListing'
    BY <1>0, <2>2 DEF HealthInv, ReplacementListing, WatchOK
  <2>4. HealthHonest'
    BY <1>0, <2>1, <2>2 DEF HealthInv, HealthHonest, WatchOK
  <2> QED
    BY <2>3, <2>4 DEF HealthInv
<1>4. ASSUME NEW g \in GVKs, NEW slot \in Slots, NEW w \in WatchRecord,
             w.ready = WatchIn(g, slot).ready, WatchIn(g, slot) # None,
             SetWatch(g, slot, w), PublishHealth(g, slot, w)
      PROVE  HealthInv'
  <2>1. w # None /\ w.ready \in BOOLEAN
    BY NoneAssumption DEF WatchRecord
  <2>2. CASE slot = "current"
    <3>1. /\ watches' = [watches EXCEPT ![g] = w] /\ replacements' = replacements
          /\ health' = IF replacements[g] = None
                         THEN [health EXCEPT ![g] = [synced |-> w.ready, err |-> w.err]] ELSE health
      BY <1>4, <2>2 DEF SetWatch, PublishHealth
    <3>2. ReplacementListing'
      BY <3>1 DEF HealthInv, ReplacementListing
    <3>3. HealthHonest'
      BY <1>0, <2>1, <3>1 DEF HealthInv, HealthHonest, WatchOK
    <3> QED
      BY <3>2, <3>3 DEF HealthInv
  <2>3. CASE slot # "current"
    <3>1. /\ replacements' = [replacements EXCEPT ![g] = w] /\ watches' = watches
          /\ health' = [health EXCEPT ![g] = [synced |-> w.ready, err |-> w.err]]
          /\ ~w.ready
      BY <1>4, <2>3 DEF SetWatch, PublishHealth, Slots, WatchIn, HealthInv, ReplacementListing
    <3>2. ReplacementListing'
      BY <1>0, <3>1 DEF HealthInv, ReplacementListing, WatchOK
    <3>3. HealthHonest'
      BY <1>0, <2>1, <3>1 DEF HealthInv, HealthHonest, WatchOK
    <3> QED
      BY <3>2, <3>3 DEF HealthInv
  <2> QED
    BY <2>2, <2>3
<1>5. ASSUME NEW g \in GVKs, NEW slot \in Slots, WatchIn(g, slot) # None,
             \/ \E err \in WatchErrors : WatchFails(g, slot, err)
             \/ \E listing \in BOOLEAN : WatchStarts(g, slot, listing)
      PROVE  HealthInv'
  <2>1. WatchIn(g, slot) \in WatchRecord
    BY <1>0, <1>5 DEF WatchOK, WatchIn
  <2>2. \A err \in WatchErrors :
          LET w == [WatchIn(g, slot) EXCEPT !.err = err, !.listing = TRUE]
          IN  w \in WatchRecord /\ w.ready = WatchIn(g, slot).ready
    BY <2>1 DEF WatchRecord
  <2>3. \A listing \in BOOLEAN :
          LET w == [WatchIn(g, slot) EXCEPT !.err = "none", !.listing = listing]
          IN  w \in WatchRecord /\ w.ready = WatchIn(g, slot).ready
    BY <2>1 DEF WatchRecord
  <2> QED
    BY <1>4, <1>5, <2>2, <2>3 DEF WatchFails, WatchStarts
<1> QED
  BY <1>1, <1>2, <1>3, <1>5, WatchFrame

\* Store reports a source as synchronized and healthy only when the watch that
\* serves reads is, and no replacement is still to take over from it, whatever
\* watches are requested, upgraded, fail and recover (updateWatchHealth).
THEOREM ControllerHealthHonest == Spec => []HealthHonest
<1>1. Init => HealthInv
  <2>1. [synced |-> TRUE, err |-> "none"] \in HealthRecord
    BY DEF HealthRecord
  <2>2. None # [synced |-> TRUE, err |-> "none"]
    BY <2>1, NoneAssumption
  <2> QED
    BY <2>2 DEF Init, HealthInv, ReplacementListing, HealthHonest
<1>2. TypeInv /\ HealthInv /\ [Next]_vars => HealthInv'
  BY NextHealth
<1>3. HealthInv => HealthHonest
  BY DEF HealthInv
<1> QED
  BY <1>1, <1>2, <1>3, ControllerTypeInv, PTL DEF Spec

-------------------------------------------------------------------------------
(* Membership *)

\* The Pods and the selected objects of root r in R, and the root of x in S.
PodsOf(R, r) == IF R[r] = None THEN {} ELSE R[r].pods
SelectedOf(R, r) == IF R[r] = None THEN {} ELSE R[r].selected
MemberOf(S, x) == IF S[x] = None THEN None ELSE S[x].root

\* MembershipMirror of any roots and memberships.
Mirror(R, P, S) ==
  /\ \A p \in PodUIDs, r \in UIDs : P[p] = r <=> p \in PodsOf(R, r)
  /\ \A x \in SelectedKeys, r \in UIDs : MemberOf(S, x) = r <=> x \in SelectedOf(R, r)

\* The two forms of the invariant, in a state and in its successor.
LEMMA MirrorForms ==
  /\ MembershipMirror => Mirror(roots, podRoots, selectedRoots)
  /\ Mirror(roots', podRoots', selectedRoots') => MembershipMirror'
<1>1. \A x \in SelectedKeys : x = <<x[1], x[2]>>
  BY DEF SelectedKeys
<1>2. None \notin UIDs
  BY NoneAssumption
<1> QED
  BY <1>1, <1>2 DEF MembershipMirror, Mirror, PodsOf, SelectedOf, MemberOf, Tracked

\* A Pod leaves the root it is registered under, and nothing else moves.
LEMMA RootsWithoutPodMembers ==
  ASSUME MemberOK, NEW u \in PodUIDs, NEW r \in UIDs
  PROVE  /\ PodsOf(RootsWithoutPod(u), r) =
              IF podRoots[u] = r THEN PodsOf(roots, r) \ {u} ELSE PodsOf(roots, r)
         /\ SelectedOf(RootsWithoutPod(u), r) = SelectedOf(roots, r)
<1> DEFINE s == podRoots[u]
           less == [roots[s] EXCEPT !.pods = @ \ {u}]
<1>1. CASE s # None /\ roots[s] # None
  <2>1. s \in UIDs /\ roots[s] \in Root
    BY <1>1 DEF MemberOK
  <2>2. less \in Root /\ less.pods = roots[s].pods \ {u} /\ less.selected = roots[s].selected
    BY <2>1 DEF Root
  <2>3. RootsWithoutPod(u) = [roots EXCEPT ![s] = less]
    BY <1>1 DEF RootsWithoutPod
  <2>4. less # None
    BY <2>2, NoneAssumption
  <2> HIDE DEF less, s
  <2>5. RootsWithoutPod(u)[r] = IF r = s THEN less ELSE roots[r]
    BY <2>1, <2>3 DEF MemberOK
  <2> QED
    BY <1>1, <2>2, <2>4, <2>5 DEF PodsOf, SelectedOf, s
<1>2. CASE ~(s # None /\ roots[s] # None)
  <2>1. RootsWithoutPod(u) = roots
    BY <1>2 DEF RootsWithoutPod
  <2>2. s = r => roots[r] = None
    BY <1>2, NoneAssumption
  <2> QED
    BY <2>1, <2>2 DEF PodsOf, SelectedOf
<1> QED
  BY <1>1, <1>2

\* An object leaves its root, and nothing else moves.
LEMMA RootsWithoutSelectedMembers ==
  ASSUME MemberOK, NEW x \in SelectedKeys, NEW r \in UIDs
  PROVE  /\ SelectedOf(RootsWithoutSelected(x), r) =
              IF MemberOf(selectedRoots, x) = r THEN SelectedOf(roots, r) \ {x} ELSE SelectedOf(roots, r)
         /\ PodsOf(RootsWithoutSelected(x), r) = PodsOf(roots, r)
<1> DEFINE s == selectedRoots[x].root
           less == [roots[s] EXCEPT !.selected = @ \ {x}]
<1>1. CASE selectedRoots[x] # None /\ s # None /\ roots[s] # None
  <2>1. s \in UIDs /\ roots[s] \in Root
    BY <1>1 DEF MemberOK, Outcome
  <2>2. less \in Root /\ less.pods = roots[s].pods /\ less.selected = roots[s].selected \ {x}
    BY <2>1 DEF Root
  <2>3. RootsWithoutSelected(x) = [roots EXCEPT ![s] = less]
    BY <1>1 DEF RootsWithoutSelected
  <2>4. less # None /\ MemberOf(selectedRoots, x) = s
    BY <1>1, <2>2, NoneAssumption DEF MemberOf
  <2> HIDE DEF less, s
  <2>5. RootsWithoutSelected(x)[r] = IF r = s THEN less ELSE roots[r]
    BY <2>1, <2>3 DEF MemberOK
  <2>6. roots[s] # None
    BY <1>1
  <2> QED
    BY <2>2, <2>4, <2>5, <2>6 DEF PodsOf, SelectedOf
<1>2. CASE ~(selectedRoots[x] # None /\ s # None /\ roots[s] # None)
  <2>1. RootsWithoutSelected(x) = roots
    BY <1>2 DEF RootsWithoutSelected
  <2>2. MemberOf(selectedRoots, x) = r => roots[r] = None
    BY <1>2, NoneAssumption DEF MemberOf
  <2> QED
    BY <2>1, <2>2 DEF PodsOf, SelectedOf
<1> QED
  BY <1>1, <1>2

\* Moving a Pod from its root to another one, or to none, keeps the mirror.
LEMMA MirrorMovesPod ==
  ASSUME NEW R, NEW P \in [PodUIDs -> UIDs \cup {None}], NEW S, Mirror(R, P, S),
         NEW R2, NEW new \in UIDs \cup {None}, NEW u \in PodUIDs,
         \A r \in UIDs : /\ PodsOf(R2, r) = IF r = new THEN PodsOf(R, r) \cup {u} ELSE PodsOf(R, r) \ {u}
                         /\ SelectedOf(R2, r) = SelectedOf(R, r)
  PROVE  Mirror(R2, [P EXCEPT ![u] = new], S)
BY NoneAssumption DEF Mirror

\* Moving a selected object from its root to another one, or to none, does too.
LEMMA MirrorMovesSelected ==
  ASSUME NEW R, NEW P, NEW S, Mirror(R, P, S), NEW R2, NEW S2, NEW new \in UIDs \cup {None},
         NEW x \in SelectedKeys, MemberOf(S2, x) = new,
         \A y \in SelectedKeys \ {x} : MemberOf(S2, y) = MemberOf(S, y),
         \A r \in UIDs : /\ SelectedOf(R2, r) = IF r = new THEN SelectedOf(R, r) \cup {x}
                                                           ELSE SelectedOf(R, r) \ {x}
                         /\ PodsOf(R2, r) = PodsOf(R, r)
  PROVE  Mirror(R2, P, S2)
BY NoneAssumption DEF Mirror

\* Membership changes only where a root is registered, left or withdrawn; a
\* workload result that appears elsewhere is one of a tracked root.
LEMMA MembershipFrame ==
  ASSUME TypeInv, [Next]_vars
  PROVE  \/ /\ UNCHANGED <<roots, podRoots, selectedRoots>>
            /\ \A u \in UIDs : workloads'[u] # None => workloads[u] # None \/ roots[u] # None
         \/ \E u \in PodUIDs : RegisterPodRoot(u) \/ UnregisterPod(u)
         \/ \E u \in UIDs : WithdrawWorkload(u) \/ PublishWorkload(u)
         \/ \E x \in SelectedKeys : SelectedStep(x)
<1>1. CASE UNCHANGED vars
  BY <1>1 DEF vars, membershipVars, storeVars
<1>2. CASE Watching
  <2>1. PICK g \in GVKs :
          \/ \E o \in Objects : WatchEvent(g, o)
          \/ Listing(g)
          \/ \E slot \in Slots :
               \/ \E listing \in BOOLEAN : WatchStarts(g, slot, listing)
               \/ \E err \in WatchErrors : WatchFails(g, slot, err)
    BY <1>2 DEF Watching
  <2> QED
    BY <2>1 DEF WatchEvent, Listing, Replace, WatchStarts, WatchFails, membershipVars, storeVars
<1>3. CASE Syncing \/ External
  BY <1>3 DEF Syncing, External, RefreshDefinitions, SyncWatch, SyncReturns, InventoryChanges, Install,
              membershipVars, storeVars
<1>4. CASE \E u \in PodUIDs : PodStep(u)
  BY <1>4 DEF PodStep, ResolvePod, ReadPodRoot, FailPodEvaluation, PublishPod, membershipVars
<1>5. CASE RequeueScope
  BY <1>5 DEF RequeueScope, membershipVars, storeVars
<1>6. CASE \E u \in UIDs : RootStep(u)
  <2>1. PICK u \in UIDs : RootStep(u)
    BY <1>6
  <2>2. workloads \in [UIDs -> WorkloadResult \cup {None}]
    BY DEF TypeInv, StoreOK
  <2>3. CASE ReadWorkload(u)
    <3>1. UNCHANGED membershipVars
      BY <2>3 DEF ReadWorkload
    <3>2. \/ UNCHANGED workloads
          \/ roots[u] # None /\ \E ref, reason : FailWorkload(u, ref, reason)
      BY <2>3 DEF ReadWorkload
    <3> QED
      BY <2>2, <3>1, <3>2 DEF FailWorkload, membershipVars
  <2>4. CASE RemoveWorkload(u)
    BY <2>2, <2>4 DEF RemoveWorkload, RemovedWorkload, membershipVars
  <2> QED
    BY <2>1, <2>3, <2>4 DEF RootStep
<1> QED
  BY <1>1, <1>2, <1>3, <1>4, <1>5, <1>6 DEF Next

\* registerPodRoot moves the Pod in both directions, and forgets no root.
LEMMA RegisterPodRootMirror ==
  ASSUME TypeInv, MembershipMirror, NEW u \in PodUIDs, RegisterPodRoot(u)
  PROVE  MembershipMirror' /\ \A r \in UIDs : roots[r] # None => roots'[r] # None
<1> DEFINE k == PodJob(u)
           root == RootOf(k)
           ensured == EnsuredRoot(root)
<1>0. MemberOK /\ DefOK /\ JobOK
  BY DEF TypeInv
<1>1. k \in DOMAIN job /\ job[k].pc = "register"
  BY DEF RegisterPodRoot, At, Busy
<1>2. job[k].path \in Seq(KeyRefs) /\ job[k].path # <<>>
  BY <1>0, <1>1 DEF JobOK, LocalOK
<1>3. root \in KeyRefs /\ root.uid \in UIDs
  BY <1>2, WalkEnd DEF RootOf
<1>4. Mirror(roots, podRoots, selectedRoots)
  BY MirrorForms
<1>5. CASE UNCHANGED membershipVars
  BY <1>4, <1>5, MirrorForms DEF membershipVars
<1>6. CASE /\ podRoots' = [podRoots EXCEPT ![u] = root.uid]
           /\ roots' = IF podRoots[u] = root.uid
                         THEN [roots EXCEPT ![root.uid] = ensured]
                         ELSE [RootsWithoutPod(u) EXCEPT
                                 ![root.uid] = [ensured EXCEPT !.pods = @ \cup {u}]]
           /\ UNCHANGED selectedRoots
  <2> DEFINE joined == [ensured EXCEPT !.pods = @ \cup {u}]
  <2>1. /\ ensured \in Root /\ ensured.pods = PodsOf(roots, root.uid)
        /\ ensured.selected = SelectedOf(roots, root.uid)
    BY <1>0, <1>3, EnsuredRootType DEF PodsOf, SelectedOf
  <2>2. /\ joined \in Root /\ joined.pods = PodsOf(roots, root.uid) \cup {u}
        /\ joined.selected = SelectedOf(roots, root.uid)
    <3> HIDE DEF ensured, root
    <3> QED
      BY <2>1 DEF Root
  <2>3. ensured # None /\ joined # None
    BY <2>1, <2>2, NoneAssumption
  <2>4. /\ RootsWithoutPod(u) \in [UIDs -> Root \cup {None}]
        /\ \A r \in UIDs : RootsWithoutPod(u)[r] = None <=> roots[r] = None
    BY <1>0, RootsWithoutPodType
  <2>5. podRoots \in [PodUIDs -> UIDs \cup {None}] /\ roots \in [UIDs -> Root \cup {None}]
    BY <1>0 DEF MemberOK
  <2>6. ASSUME NEW r \in UIDs
        PROVE  /\ PodsOf(roots', r) = IF r = root.uid THEN PodsOf(roots, r) \cup {u}
                                                      ELSE PodsOf(roots, r) \ {u}
               /\ SelectedOf(roots', r) = SelectedOf(roots, r)
               /\ roots[r] # None => roots'[r] # None
    <3>1. podRoots[u] = r <=> u \in PodsOf(roots, r)
      BY <1>4 DEF Mirror
    <3>2. /\ PodsOf(RootsWithoutPod(u), r) =
               IF podRoots[u] = r THEN PodsOf(roots, r) \ {u} ELSE PodsOf(roots, r)
          /\ SelectedOf(RootsWithoutPod(u), r) = SelectedOf(roots, r)
      BY <1>0, RootsWithoutPodMembers
    <3> HIDE DEF ensured, joined, root
    <3>3. CASE podRoots[u] = root.uid
      BY <1>3, <1>6, <2>1, <2>3, <2>5, <3>1, <3>3 DEF PodsOf, SelectedOf
    <3>4. CASE podRoots[u] # root.uid
      <4>1. roots' = [RootsWithoutPod(u) EXCEPT ![root.uid] = joined]
        BY <1>6, <3>4 DEF joined
      <4>2. CASE r = root.uid
        <5>1. roots'[r] = joined
          BY <1>3, <2>4, <4>1, <4>2
        <5> QED
          BY <2>2, <2>3, <4>2, <5>1 DEF PodsOf, SelectedOf
      <4>3. CASE r # root.uid
        <5>1. roots'[r] = RootsWithoutPod(u)[r]
          BY <1>3, <2>4, <4>1, <4>3
        <5>2. PodsOf(roots', r) = PodsOf(RootsWithoutPod(u), r)
                /\ SelectedOf(roots', r) = SelectedOf(RootsWithoutPod(u), r)
          BY <5>1 DEF PodsOf, SelectedOf
        <5> QED
          BY <2>4, <3>1, <3>2, <4>3, <5>1, <5>2
      <4> QED
        BY <4>2, <4>3
    <3> QED
      BY <3>3, <3>4
  <2>7. Mirror(roots', podRoots', selectedRoots')
    <3> HIDE DEF root
    <3> QED
      BY <1>3, <1>4, <1>6, <2>5, <2>6, MirrorMovesPod
  <2> QED
    BY <2>6, <2>7, MirrorForms
<1> QED
  BY <1>5, <1>6 DEF RegisterPodRoot

\* unregisterPod removes the Pod in both directions.
LEMMA UnregisterPodMirror ==
  ASSUME TypeInv, MembershipMirror, NEW u \in PodUIDs, UnregisterPod(u)
  PROVE  MembershipMirror' /\ \A r \in UIDs : roots[r] # None => roots'[r] # None
<1>0. MemberOK
  BY DEF TypeInv
<1>1. Mirror(roots, podRoots, selectedRoots)
  BY MirrorForms
<1>2. /\ roots' = RootsWithoutPod(u) /\ podRoots' = [podRoots EXCEPT ![u] = None]
      /\ selectedRoots' = selectedRoots
  BY DEF UnregisterPod
<1>3. ASSUME NEW r \in UIDs
      PROVE  /\ PodsOf(roots', r) = IF r = None THEN PodsOf(roots, r) \cup {u} ELSE PodsOf(roots, r) \ {u}
             /\ SelectedOf(roots', r) = SelectedOf(roots, r)
             /\ roots[r] # None => roots'[r] # None
  <2>1. podRoots[u] = r <=> u \in PodsOf(roots, r)
    BY <1>1 DEF Mirror
  <2>2. r # None
    BY NoneAssumption
  <2> QED
    BY <1>0, <1>2, <2>1, <2>2, RootsWithoutPodMembers, RootsWithoutPodType
<1>4. podRoots \in [PodUIDs -> UIDs \cup {None}]
  BY <1>0 DEF MemberOK
<1>5. Mirror(roots', podRoots', selectedRoots')
  BY <1>1, <1>2, <1>3, <1>4, MirrorMovesPod
<1> QED
  BY <1>3, <1>5, MirrorForms

\* withdrawWorkload removes the root from all its members.
LEMMA WithdrawWorkloadMirror ==
  ASSUME TypeInv, MembershipMirror, NEW u \in UIDs, WithdrawWorkload(u)
  PROVE  MembershipMirror'
<1>0. MemberOK
  BY DEF TypeInv
<1>1. Mirror(roots, podRoots, selectedRoots)
  BY MirrorForms
<1>2. /\ roots' = [roots EXCEPT ![u] = None]
      /\ podRoots' = [p \in PodUIDs |-> IF p \in PodsOf(roots, u) THEN None ELSE podRoots[p]]
      /\ selectedRoots' = [x \in SelectedKeys |-> IF x \in SelectedOf(roots, u)
                                                    THEN NoOutcome ELSE selectedRoots[x]]
  BY DEF WithdrawWorkload, PodsOf, SelectedOf
<1>3. \A r \in UIDs : /\ PodsOf(roots', r) = IF r = u THEN {} ELSE PodsOf(roots, r)
                      /\ SelectedOf(roots', r) = IF r = u THEN {} ELSE SelectedOf(roots, r)
  BY <1>0, <1>2 DEF PodsOf, SelectedOf, MemberOK
<1>4. ASSUME NEW x \in SelectedKeys
      PROVE  MemberOf(selectedRoots', x) =
               IF x \in SelectedOf(roots, u) THEN None ELSE MemberOf(selectedRoots, x)
  <2>1. NoOutcome.root = None
    BY DEF NoOutcome
  <2> QED
    BY <1>2, <2>1 DEF MemberOf
<1>5. Mirror(roots', podRoots', selectedRoots')
  <2>1. \A p \in PodUIDs, r \in UIDs : podRoots'[p] = r <=> p \in PodsOf(roots', r)
    BY <1>1, <1>2, <1>3, NoneAssumption DEF Mirror
  <2>2. \A x \in SelectedKeys, r \in UIDs : MemberOf(selectedRoots', x) = r <=> x \in SelectedOf(roots', r)
    BY <1>1, <1>3, <1>4, NoneAssumption DEF Mirror
  <2> QED
    BY <2>1, <2>2 DEF Mirror
<1> QED
  BY <1>5, MirrorForms

\* publishWorkload changes no membership.
LEMMA PublishWorkloadMirror ==
  ASSUME TypeInv, MembershipMirror, NEW u \in UIDs, PublishWorkload(u)
  PROVE  /\ MembershipMirror'
         /\ \A r \in UIDs : roots[r] # None => roots'[r] # None
         /\ \A r \in UIDs : workloads'[r] # None => workloads[r] # None \/ roots[r] # None
<1>0. MemberOK /\ StoreOK /\ JobOK
  BY DEF TypeInv
<1>1. Mirror(roots, podRoots, selectedRoots)
  BY MirrorForms
<1>2. UNCHANGED <<podRoots, selectedRoots>>
  BY DEF PublishWorkload
<1>3. CASE UNCHANGED <<roots, workloads>>
  BY <1>1, <1>2, <1>3, MirrorForms
<1>4. CASE /\ roots[u] # None
           /\ roots' = [roots EXCEPT ![u].gvk = job[RootJob(u)].ref.gvk]
           /\ \E result : workloads' = [workloads EXCEPT ![u] = result]
  <2> DEFINE new == [roots[u] EXCEPT !.gvk = job[RootJob(u)].ref.gvk]
  <2>1. roots[u] \in Root
    BY <1>0, <1>4 DEF MemberOK
  <2>2. new.pods = roots[u].pods /\ new.selected = roots[u].selected
    BY <2>1 DEF Root
  <2>3. new # None
    <3>1. LocalOK(RootJob(u), job[RootJob(u)]) /\ job[RootJob(u)].pc = "publish"
      BY <1>0 DEF PublishWorkload, At, Busy, JobOK
    <3>2. job[RootJob(u)].ref.gvk \in GVKs
      BY <3>1 DEF LocalOK, KeyRefs, Refs
    <3>3. new \in Root
      BY <2>1, <3>2 DEF Root
    <3> QED
      BY <3>3, NoneAssumption
  <2>4. roots' = [roots EXCEPT ![u] = new]
    BY <1>4
  <2> HIDE DEF new
  <2>5. \A r \in UIDs : /\ PodsOf(roots', r) = PodsOf(roots, r)
                        /\ SelectedOf(roots', r) = SelectedOf(roots, r)
                        /\ roots[r] # None => roots'[r] # None
    BY <1>0, <1>4, <2>2, <2>3, <2>4 DEF PodsOf, SelectedOf, MemberOK
  <2>6. \A r \in UIDs : workloads'[r] # None => workloads[r] # None \/ roots[r] # None
    BY <1>0, <1>4 DEF StoreOK
  <2>7. Mirror(roots', podRoots', selectedRoots')
    BY <1>1, <1>2, <2>5 DEF Mirror
  <2> QED
    BY <2>5, <2>6, <2>7, MirrorForms
<1> QED
  BY <1>3, <1>4 DEF PublishWorkload

\* Leaving a root, with any outcome that names none, keeps the mirror.
LEMMA LeaveRootMirror ==
  ASSUME MemberOK, MembershipMirror, NEW x \in SelectedKeys, NEW result,
         result = None \/ result.root = None,
         roots' = RootsWithoutSelected(x), selectedRoots' = [selectedRoots EXCEPT ![x] = result],
         UNCHANGED podRoots
  PROVE  MembershipMirror' /\ \A r \in UIDs : roots[r] # None => roots'[r] # None
<1>1. Mirror(roots, podRoots, selectedRoots)
  BY MirrorForms
<1>2. MemberOf(selectedRoots', x) = None
  BY DEF MemberOf, MemberOK
<1>3. \A y \in SelectedKeys \ {x} : MemberOf(selectedRoots', y) = MemberOf(selectedRoots, y)
  BY DEF MemberOf, MemberOK
<1>4. ASSUME NEW r \in UIDs
      PROVE  /\ SelectedOf(roots', r) = IF r = None THEN SelectedOf(roots, r) \cup {x}
                                                    ELSE SelectedOf(roots, r) \ {x}
             /\ PodsOf(roots', r) = PodsOf(roots, r)
             /\ roots[r] # None => roots'[r] # None
  <2>1. MemberOf(selectedRoots, x) = r <=> x \in SelectedOf(roots, r)
    BY <1>1 DEF Mirror
  <2>2. r # None
    BY NoneAssumption
  <2> QED
    BY <2>1, <2>2, RootsWithoutSelectedMembers, RootsWithoutSelectedType
<1>5. Mirror(roots', podRoots', selectedRoots')
  <2>1. \A p \in PodUIDs, r \in UIDs : podRoots'[p] = r <=> p \in PodsOf(roots', r)
    BY <1>1, <1>4 DEF Mirror
  <2>2. \A y \in SelectedKeys, r \in UIDs : MemberOf(selectedRoots', y) = r <=> y \in SelectedOf(roots', r)
    <3>1. SUFFICES ASSUME NEW y \in SelectedKeys, NEW r \in UIDs
                   PROVE  MemberOf(selectedRoots', y) = r <=> y \in SelectedOf(roots', r)
      BY Zenon
    <3>2. r # None /\ SelectedOf(roots', r) = SelectedOf(roots, r) \ {x}
      BY <1>4, NoneAssumption
    <3>3. CASE y = x
      BY <1>2, <3>2, <3>3
    <3>4. CASE y # x
      BY <1>1, <1>3, <3>2, <3>4 DEF Mirror
    <3> QED
      BY <3>3, <3>4
  <2> QED
    BY <2>1, <2>2 DEF Mirror
<1> QED
  BY <1>4, <1>5, MirrorForms

\* registerSelectedObjectRoot moves the object in both directions.
LEMMA RegisterSelectedMirror ==
  ASSUME TypeInv, MembershipMirror, NEW x \in SelectedKeys, RegisterSelectedObjectRoot(x)
  PROVE  MembershipMirror' /\ \A r \in UIDs : roots[r] # None => roots'[r] # None
<1> DEFINE k == JobOf(x)
           root == RootOf(k)
           ensured == EnsuredRoot(root)
           joined == [ensured EXCEPT !.selected = @ \cup {x}]
           left == IF MemberOf(selectedRoots, x) = root.uid THEN roots ELSE RootsWithoutSelected(x)
           outcome == [root |-> root.uid, exclusion |-> None]
<1>0. MemberOK /\ DefOK /\ JobOK
  BY DEF TypeInv
<1>1. k \in DOMAIN job /\ job[k].pc = "register"
  BY DEF RegisterSelectedObjectRoot, At, Busy
<1>2. job[k].path \in Seq(KeyRefs) /\ job[k].path # <<>>
  BY <1>0, <1>1 DEF JobOK, LocalOK
<1>3. root \in KeyRefs /\ root.uid \in UIDs
  BY <1>2, WalkEnd DEF RootOf
<1>4. Mirror(roots, podRoots, selectedRoots)
  BY MirrorForms
<1>5. CASE UNCHANGED membershipVars
  BY <1>4, <1>5, MirrorForms DEF membershipVars
<1>6. CASE /\ roots' = [left EXCEPT ![root.uid] = joined]
           /\ selectedRoots' = [selectedRoots EXCEPT ![x] = outcome]
           /\ UNCHANGED podRoots
  <2>1. /\ ensured \in Root /\ ensured.pods = PodsOf(roots, root.uid)
        /\ ensured.selected = SelectedOf(roots, root.uid)
    BY <1>0, <1>3, EnsuredRootType DEF PodsOf, SelectedOf
  <2>2. /\ joined \in Root /\ joined.pods = PodsOf(roots, root.uid)
        /\ joined.selected = SelectedOf(roots, root.uid) \cup {x}
    <3> HIDE DEF ensured, root
    <3> QED
      BY <2>1 DEF Root
  <2>3. joined # None
    BY <2>2, NoneAssumption
  <2>4. /\ left \in [UIDs -> Root \cup {None}]
        /\ \A r \in UIDs : left[r] = None <=> roots[r] = None
    BY <1>0, RootsWithoutSelectedType DEF MemberOK
  <2>5. outcome \in Outcome /\ outcome # None /\ outcome.root = root.uid
    <3>1. outcome \in Outcome
      BY <1>3 DEF Outcome
    <3> QED
      BY <3>1, NoneAssumption
  <2>6. ASSUME NEW r \in UIDs
        PROVE  /\ SelectedOf(roots', r) = IF r = root.uid THEN SelectedOf(roots, r) \cup {x}
                                                          ELSE SelectedOf(roots, r) \ {x}
               /\ PodsOf(roots', r) = PodsOf(roots, r)
               /\ roots[r] # None => roots'[r] # None
    <3>1. MemberOf(selectedRoots, x) = r <=> x \in SelectedOf(roots, r)
      BY <1>4 DEF Mirror
    <3>2. /\ SelectedOf(RootsWithoutSelected(x), r) =
               IF MemberOf(selectedRoots, x) = r THEN SelectedOf(roots, r) \ {x} ELSE SelectedOf(roots, r)
          /\ PodsOf(RootsWithoutSelected(x), r) = PodsOf(roots, r)
      BY <1>0, RootsWithoutSelectedMembers
    <3>3. r # root.uid => /\ SelectedOf(left, r) = SelectedOf(roots, r) \ {x}
                          /\ PodsOf(left, r) = PodsOf(roots, r)
      BY <3>1, <3>2
    <3> HIDE DEF joined, left, root
    <3>4. CASE r = root.uid
      <4>1. roots'[r] = joined
        BY <1>3, <1>6, <2>4, <3>4
      <4> QED
        BY <2>2, <2>3, <3>4, <4>1 DEF PodsOf, SelectedOf
    <3>5. CASE r # root.uid
      <4>1. roots'[r] = left[r]
        BY <1>3, <1>6, <2>4, <3>5
      <4>2. PodsOf(roots', r) = PodsOf(left, r) /\ SelectedOf(roots', r) = SelectedOf(left, r)
        BY <4>1 DEF PodsOf, SelectedOf
      <4> QED
        BY <2>4, <3>3, <3>5, <4>1, <4>2
    <3> QED
      BY <3>4, <3>5
  <2>7. MemberOf(selectedRoots', x) = root.uid
    BY <1>0, <1>6, <2>5 DEF MemberOf, MemberOK
  <2>8. \A y \in SelectedKeys \ {x} : MemberOf(selectedRoots', y) = MemberOf(selectedRoots, y)
    BY <1>0, <1>6 DEF MemberOf, MemberOK
  <2>9. Mirror(roots', podRoots', selectedRoots')
    <3> HIDE DEF root
    <3>1. Mirror(roots', podRoots, selectedRoots')
      BY <1>3, <1>4, <2>6, <2>7, <2>8, MirrorMovesSelected
    <3> QED
      BY <1>6, <3>1
  <2> QED
    BY <2>6, <2>9, MirrorForms
<1> QED
  BY <1>5, <1>6 DEF RegisterSelectedObjectRoot, MemberOf

\* What the other steps of a selected-object job do to membership.
LEMMA SelectedStepMirror ==
  ASSUME TypeInv, MembershipMirror, NEW x \in SelectedKeys, SelectedStep(x)
  PROVE  MembershipMirror' /\ \A r \in UIDs : roots[r] # None => roots'[r] # None
<1>0. MemberOK
  BY DEF TypeInv
<1>1. Mirror(roots, podRoots, selectedRoots)
  BY MirrorForms
<1>2. CASE ResolveSelectedObject(x)
  <2> DEFINE outcome == IF selectedRoots[x] = None THEN NoOutcome ELSE selectedRoots[x]
             cleared == [outcome EXCEPT !.exclusion = None]
  <2>1. /\ selectedRoots' = [selectedRoots EXCEPT ![x] = cleared]
        /\ UNCHANGED <<roots, podRoots>>
    BY <1>2 DEF ResolveSelectedObject
  <2>2. outcome \in Outcome /\ outcome.root = MemberOf(selectedRoots, x)
    BY <1>0 DEF MemberOK, Outcome, NoOutcome, MemberOf
  <2>3. cleared \in Outcome /\ cleared.root = MemberOf(selectedRoots, x)
    <3> HIDE DEF outcome
    <3> QED
      BY <2>2 DEF Outcome
  <2>4. cleared # None
    BY <2>3, NoneAssumption
  <2> HIDE DEF cleared
  <2>5. \A y \in SelectedKeys : MemberOf(selectedRoots', y) = MemberOf(selectedRoots, y)
    BY <1>0, <2>1, <2>3, <2>4 DEF MemberOf, MemberOK
  <2>6. Mirror(roots', podRoots', selectedRoots')
    BY <1>1, <2>1, <2>5 DEF Mirror
  <2> QED
    BY <2>1, <2>6, MirrorForms
<1>3. CASE ReplaceSelectedObjectTracking(x) \/ ExcludeSelectedObject(x) \/ UnregisterSelectedObject(x)
  <2>1. UNCHANGED podRoots
    BY <1>3 DEF ReplaceSelectedObjectTracking, ExcludeSelectedObject, UnregisterSelectedObject
  <2>2. \/ UNCHANGED <<roots, selectedRoots>>
        \/ /\ roots' = RootsWithoutSelected(x)
           /\ \E result : /\ result = None \/ result.root = None
                          /\ selectedRoots' = [selectedRoots EXCEPT ![x] = result]
    BY <1>3 DEF ReplaceSelectedObjectTracking, ExcludeSelectedObject, UnregisterSelectedObject
  <2>3. CASE UNCHANGED <<roots, selectedRoots>>
    BY <1>1, <2>1, <2>3, MirrorForms
  <2> QED
    BY <1>0, <2>1, <2>2, <2>3, LeaveRootMirror
<1>4. CASE RegisterSelectedObjectRoot(x)
  BY <1>4, RegisterSelectedMirror
<1> QED
  BY <1>2, <1>3, <1>4 DEF SelectedStep

\* Every step keeps membership in both directions the same, and a workload
\* result tracked.
LEMMA NextMembership ==
  ASSUME TypeInv, MembershipMirror, StoredWorkloadTracked, [Next]_vars
  PROVE  MembershipMirror' /\ StoredWorkloadTracked'
<1>0. MemberOK /\ StoreOK
  BY DEF TypeInv
<1>1. CASE /\ UNCHANGED <<roots, podRoots, selectedRoots>>
           /\ \A u \in UIDs : workloads'[u] # None => workloads[u] # None \/ roots[u] # None
  <2>1. Mirror(roots', podRoots', selectedRoots')
    BY <1>1, MirrorForms
  <2> QED
    BY <1>1, <2>1, MirrorForms DEF StoredWorkloadTracked
<1>2. CASE \E u \in PodUIDs : RegisterPodRoot(u) \/ UnregisterPod(u)
  <2>1. UNCHANGED workloads
    BY <1>2 DEF RegisterPodRoot, UnregisterPod
  <2> QED
    BY <1>2, <2>1, RegisterPodRootMirror, UnregisterPodMirror DEF StoredWorkloadTracked
<1>3. ASSUME NEW u \in UIDs, WithdrawWorkload(u) PROVE MembershipMirror' /\ StoredWorkloadTracked'
  <2>1. roots' = [roots EXCEPT ![u] = None] /\ workloads' = [workloads EXCEPT ![u] = None]
    BY <1>3 DEF WithdrawWorkload, RemovedWorkload
  <2> QED
    BY <1>0, <1>3, <2>1, WithdrawWorkloadMirror DEF StoredWorkloadTracked, MemberOK, StoreOK
<1>4. ASSUME NEW u \in UIDs, PublishWorkload(u) PROVE MembershipMirror' /\ StoredWorkloadTracked'
  BY <1>4, PublishWorkloadMirror DEF StoredWorkloadTracked
<1>5. ASSUME NEW x \in SelectedKeys, SelectedStep(x) PROVE MembershipMirror' /\ StoredWorkloadTracked'
  <2>1. UNCHANGED workloads
    BY <1>5 DEF SelectedStep, ResolveSelectedObject, ReplaceSelectedObjectTracking,
                RegisterSelectedObjectRoot, ExcludeSelectedObject, UnregisterSelectedObject
  <2> QED
    BY <1>5, <2>1, SelectedStepMirror DEF StoredWorkloadTracked
<1> QED
  BY <1>1, <1>2, <1>3, <1>4, <1>5, MembershipFrame

\* Nobody is a member of anything at first.
LEMMA InitMembership == Init => MembershipMirror /\ StoredWorkloadTracked
<1> SUFFICES ASSUME Init PROVE MembershipMirror /\ StoredWorkloadTracked
  OBVIOUS
<1>1. \A x \in SelectedKeys : x = <<x[1], x[2]>>
  BY DEF SelectedKeys
<1>2. MembershipMirror
  BY <1>1, NoneAssumption DEF Init, MembershipMirror, Tracked
<1> QED
  BY <1>2 DEF Init, StoredWorkloadTracked

\* Membership agrees in both directions in every reachable state, whichever of
\* registration, re-parenting, exclusion and withdrawal interleave
\* (registerPodRoot, registerSelectedObjectRoot, removeRoot).
THEOREM ControllerMembershipMirror == Spec => []MembershipMirror
BY InitMembership, NextMembership, ControllerTypeInv, PTL DEF Spec

\* A workload result in Store always belongs to a root that is still tracked
\* (failWorkload, publishWorkload, withdrawWorkload).
THEOREM ControllerStoredWorkloadTracked == Spec => []StoredWorkloadTracked
BY InitMembership, NextMembership, ControllerTypeInv, PTL DEF Spec

-------------------------------------------------------------------------------
(* Work that is not forgotten *)

Pending(k) == k \in dirty \/ Busy(k)

\* A step of key k takes no other key out of the queues or from its worker.
KeepsOthers(k) == dirty \ {k} \subseteq dirty' /\ DOMAIN job \ {k} \subseteq DOMAIN job'

\* A handler that goes on keeps its key, and every other one.
LEMMA ContinueKeeps ==
  ASSUME NEW k, NEW local, NEW taken \in SUBSET {k}, Continue(k, taken, local)
  PROVE  KeepsOthers(k) /\ Pending(k)'
BY DEF Continue, KeepsOthers, Pending, Busy

\* A handler that returns keeps every other key, queues its work, and its own
\* key again when it failed.
LEMMA ReturnKeeps ==
  ASSUME NEW k, NEW work, NEW retry \in BOOLEAN, NEW taken \in SUBSET {k}, Return(k, taken, work, retry)
  PROVE  KeepsOthers(k) /\ work \subseteq dirty' /\ (retry => Pending(k)')
<1>1. DOMAIN job' = DOMAIN job \ {k}
  BY DEF Return, Restrict
<1> QED
  BY <1>1 DEF Return, KeepsOthers, Pending, Busy

\* A failed Pod job or workload job keeps every other key.
LEMMA FailKeeps ==
  /\ \A u, reason, root : \A taken \in SUBSET {PodJob(u)} :
       FailPod(u, taken, reason, root) => KeepsOthers(PodJob(u))
  /\ \A u, ref, reason : FailWorkload(u, ref, reason) => KeepsOthers(RootJob(u))
<1>1. ASSUME NEW u, NEW reason, NEW root, NEW taken \in SUBSET {PodJob(u)}, FailPod(u, taken, reason, root)
      PROVE  KeepsOthers(PodJob(u))
  <2>1. PICK retry \in BOOLEAN : Return(PodJob(u), taken, {}, retry)
    BY <1>1 DEF FailPod
  <2> QED
    BY <1>1, <2>1, ReturnKeeps
<1>2. ASSUME NEW u, NEW ref, NEW reason, FailWorkload(u, ref, reason)
      PROVE  KeepsOthers(RootJob(u))
  <2>1. PICK taken \in SUBSET {RootJob(u)} : Return(RootJob(u), taken, {}, TRUE)
    BY <1>2 DEF FailWorkload
  <2> QED
    BY <2>1, ReturnKeeps
<1> QED
  BY <1>1, <1>2

\* The steps of a Pod job keep every other key.
LEMMA PodStepKeeps ==
  ASSUME TypeInv, NEW u \in PodUIDs, PodStep(u)
  PROVE  KeepsOthers(PodJob(u))
<1> DEFINE k == PodJob(u)
<1>1. ASSUME NEW taken \in SUBSET {k}, NEW local, Continue(k, taken, local) PROVE KeepsOthers(k)
  BY <1>1, ContinueKeeps
<1>2. ASSUME NEW taken \in SUBSET {k}, NEW work, NEW retry \in BOOLEAN, Return(k, taken, work, retry)
      PROVE  KeepsOthers(k)
  BY <1>2, ReturnKeeps
<1>3. ASSUME NEW taken \in SUBSET {k}, NEW reason, NEW root, FailPod(u, taken, reason, root)
      PROVE  KeepsOthers(k)
  BY <1>3, FailKeeps
<1>4. {k} \in SUBSET {k} /\ {} \in SUBSET {k}
  OBVIOUS
<1> HIDE DEF k
<1>5. CASE ResolvePod(u)
  BY <1>1, <1>3, <1>4, <1>5 DEF ResolvePod, k
<1>6. CASE RegisterPodRoot(u)
  <2>1. \/ Return(k, {}, {}, TRUE)
        \/ FailPod(u, {}, "unresolved", RootOf(k))
        \/ dirty \subseteq dirty' /\ job' = [job EXCEPT ![k].pc = "readRoot"]
    BY <1>6 DEF RegisterPodRoot, k
  <2>2. CASE dirty \subseteq dirty' /\ job' = [job EXCEPT ![k].pc = "readRoot"]
    BY <2>2 DEF KeepsOthers
  <2>3. CASE Return(k, {}, {}, TRUE)
    BY <1>2, <1>4, <2>3 DEF k
  <2>4. CASE FailPod(u, {}, "unresolved", RootOf(k))
    BY <1>3, <1>4, <2>4 DEF k
  <2> QED
    BY <2>1, <2>2, <2>3, <2>4
<1>7. CASE ReadPodRoot(u)
  BY <1>1, <1>3, <1>4, <1>7 DEF ReadPodRoot, k
<1>8. CASE FailPodEvaluation(u)
  BY <1>2, <1>3, <1>4, <1>8 DEF FailPodEvaluation, k
<1>9. CASE PublishPod(u) \/ UnregisterPod(u)
  BY <1>2, <1>4, <1>9 DEF PublishPod, UnregisterPod, k
<1> QED
  BY <1>5, <1>6, <1>7, <1>8, <1>9 DEF PodStep, k

\* The steps of a workload job keep every other key.
LEMMA RootStepKeeps ==
  ASSUME TypeInv, NEW u \in UIDs, RootStep(u)
  PROVE  KeepsOthers(RootJob(u))
<1> DEFINE k == RootJob(u)
<1>1. ASSUME NEW taken \in SUBSET {k}, NEW local, Continue(k, taken, local) PROVE KeepsOthers(k)
  BY <1>1, ContinueKeeps
<1>2. ASSUME NEW taken \in SUBSET {k}, NEW work, NEW retry \in BOOLEAN, Return(k, taken, work, retry)
      PROVE  KeepsOthers(k)
  BY <1>2, ReturnKeeps
<1>3. ASSUME NEW ref, NEW reason, FailWorkload(u, ref, reason) PROVE KeepsOthers(k)
  BY <1>3, FailKeeps
<1>4. {k} \in SUBSET {k} /\ {} \in SUBSET {k}
  OBVIOUS
<1> HIDE DEF k
<1>5. CASE ReadWorkload(u)
  BY <1>1, <1>2, <1>3, <1>4, <1>5 DEF ReadWorkload, k
<1>6. CASE WithdrawWorkload(u) \/ RemoveWorkload(u) \/ PublishWorkload(u)
  BY <1>2, <1>4, <1>6 DEF WithdrawWorkload, RemoveWorkload, PublishWorkload, k
<1> QED
  BY <1>5, <1>6 DEF RootStep, k

\* A selected-object job changes the outcome of its own object only.  Unless its
\* key stays pending, the object gets an outcome or is no longer tracked, and its
\* failure is cleared.
LEMMA SelectedStepKeeps ==
  ASSUME TypeInv, NEW x \in SelectedKeys, SelectedStep(x)
  PROVE  /\ KeepsOthers(JobOf(x))
         /\ \A y \in SelectedKeys \ {x} : selectedRoots'[y] = selectedRoots[y]
         /\ \/ Pending(JobOf(x))' /\ failures' \subseteq failures \cup {x[2]}
            \/ /\ failures' = failures \ {x[2]}
               /\ selectedRoots'[x] # None => selectedRoots'[x] # NoOutcome
<1> DEFINE k == JobOf(x)
<1>0. /\ selectedRoots \in [SelectedKeys -> Outcome \cup {None}] /\ failures \subseteq UIDs
      /\ JobOK /\ {k} \in SUBSET {k} /\ {} \in SUBSET {k}
  BY DEF TypeInv, MemberOK, StoreOK
<1>1. ASSUME NEW taken \in SUBSET {k}, NEW local, Continue(k, taken, local)
      PROVE  KeepsOthers(k) /\ Pending(k)'
  BY <1>1, ContinueKeeps
<1>2. ASSUME NEW taken \in SUBSET {k}, NEW work, Return(k, taken, work, TRUE)
      PROVE  KeepsOthers(k) /\ Pending(k)'
  BY <1>2, ReturnKeeps
<1>3. ASSUME NEW work, Return(k, {}, work, FALSE)
      PROVE  KeepsOthers(k)
  BY <1>0, <1>3, ReturnKeeps
<1>4. ASSUME FailSelected(x)
      PROVE  KeepsOthers(k) /\ Pending(k)' /\ failures' \subseteq failures \cup {x[2]}
  BY <1>0, <1>2, <1>4 DEF FailSelected
<1> HIDE DEF k
<1>5. CASE ResolveSelectedObject(x)
  <2>1. \A y \in SelectedKeys \ {x} : selectedRoots'[y] = selectedRoots[y]
    BY <1>0, <1>5 DEF ResolveSelectedObject
  <2>2. \/ FailSelected(x)
        \/ Return(k, {k}, {}, TRUE) /\ UNCHANGED failures
        \/ \E local : Continue(k, {k}, local) /\ UNCHANGED failures
    BY <1>5 DEF ResolveSelectedObject, k
  <2>3. KeepsOthers(k) /\ Pending(k)' /\ failures' \subseteq failures \cup {x[2]}
    BY <1>0, <1>1, <1>2, <1>4, <2>2
  <2> QED
    BY <2>1, <2>3 DEF k
<1>6. CASE Return(k, {}, {}, TRUE) /\ UNCHANGED <<selectedRoots, failures>>
  BY <1>0, <1>2, <1>6 DEF k
<1>7. ASSUME NEW result, result # None => result # NoOutcome, NEW work,
             selectedRoots' = [selectedRoots EXCEPT ![x] = result],
             failures' = failures \ {x[2]}, Return(k, {}, work, FALSE)
      PROVE  /\ KeepsOthers(k)
             /\ \A y \in SelectedKeys \ {x} : selectedRoots'[y] = selectedRoots[y]
             /\ failures' = failures \ {x[2]}
             /\ selectedRoots'[x] # None => selectedRoots'[x] # NoOutcome
  BY <1>0, <1>3, <1>7
<1>8. CASE ReplaceSelectedObjectTracking(x)
  <2>1. \/ \E work : Return(k, {}, work, TRUE) /\ UNCHANGED <<selectedRoots, failures>>
        \/ \E work : /\ selectedRoots' = [selectedRoots EXCEPT ![x] = None]
                     /\ failures' = failures \ {x[2]}
                     /\ Return(k, {}, work, FALSE)
    BY <1>8 DEF ReplaceSelectedObjectTracking, k
  <2>2. CASE \E work : Return(k, {}, work, TRUE) /\ UNCHANGED <<selectedRoots, failures>>
    BY <1>0, <1>2, <2>2 DEF k
  <2> QED
    BY <1>7, <2>1, <2>2 DEF k
<1>9. CASE RegisterSelectedObjectRoot(x)
  <2> DEFINE result == [root |-> RootOf(k).uid, exclusion |-> None]
  <2>1. result.root \in UIDs /\ result # NoOutcome
    <3>1. job[k].path \in Seq(KeyRefs) /\ job[k].path # <<>>
      BY <1>0, <1>9 DEF RegisterSelectedObjectRoot, At, Busy, JobOK, LocalOK, k
    <3>2. RootOf(k).uid \in UIDs
      BY <3>1, WalkEnd DEF RootOf
    <3> QED
      BY <3>2, NoneAssumption DEF NoOutcome
  <2>2. \/ Return(k, {}, {}, TRUE) /\ UNCHANGED <<selectedRoots, failures>>
        \/ \E work : /\ selectedRoots' = [selectedRoots EXCEPT ![x] = result]
                     /\ failures' = failures \ {x[2]}
                     /\ Return(k, {}, work, FALSE)
    BY <1>9 DEF RegisterSelectedObjectRoot, k, membershipVars
  <2> HIDE DEF result
  <2> QED
    BY <1>6, <1>7, <2>1, <2>2 DEF k
<1>10. CASE ExcludeSelectedObject(x)
  <2> DEFINE result == [root |-> None, exclusion |-> [path |-> job[k].path, version |-> job[k].version]]
  <2>1. result # NoOutcome
    <3>1. job[k] \in JobRecord
      BY <1>0, <1>10 DEF ExcludeSelectedObject, At, Busy, JobOK, LocalOK, k
    <3>2. result.exclusion \in Exclusion
      BY <3>1 DEF JobRecord, Exclusion
    <3> QED
      BY <3>2, NoneAssumption DEF NoOutcome
  <2>2. \/ Return(k, {}, {}, TRUE) /\ UNCHANGED <<selectedRoots, failures>>
        \/ \E work : /\ selectedRoots' = [selectedRoots EXCEPT ![x] = result]
                     /\ failures' = failures \ {x[2]}
                     /\ Return(k, {}, work, FALSE)
    BY <1>10 DEF ExcludeSelectedObject, k
  <2> HIDE DEF result
  <2> QED
    BY <1>6, <1>7, <2>1, <2>2 DEF k
<1>11. CASE UnregisterSelectedObject(x)
  <2>1. \E work : /\ selectedRoots' = [selectedRoots EXCEPT ![x] = None]
                  /\ failures' = failures \ {x[2]}
                  /\ Return(k, {}, work, FALSE)
    BY <1>11 DEF UnregisterSelectedObject, k
  <2> QED
    BY <1>7, <2>1 DEF k
<1> QED
  BY <1>5, <1>8, <1>9, <1>10, <1>11 DEF SelectedStep

\* The keys of the three kinds of jobs differ.
LEMMA JobsDiffer ==
  /\ \A x, y \in SelectedKeys : JobOf(x) = JobOf(y) => x = y
  /\ \A x \in SelectedKeys : \A u : JobOf(x) # PodJob(u) /\ JobOf(x) # RootJob(u) /\ JobOf(x) # Rescan
BY DEF SelectedKeys, JobOf, SelectedJob, PodJob, RootJob, Rescan

\* A step keeps the pending selected-object jobs pending, except the one it
\* belongs to; only it changes the failure and outcome of its object, except
\* that withdrawing a root takes the outcome of its members.
LEMMA PendingFrame ==
  ASSUME TypeInv, [Next]_vars
  PROVE  \/ /\ \A x \in SelectedKeys : Pending(JobOf(x)) => Pending(JobOf(x))'
            /\ failures' = failures
            /\ \/ selectedRoots' = selectedRoots
               \/ \E u \in UIDs : WithdrawWorkload(u)
         \/ \E x \in SelectedKeys : SelectedStep(x)
<1>0. ASSUME NEW k, KeepsOthers(k), \A x \in SelectedKeys : JobOf(x) # k
      PROVE  \A x \in SelectedKeys : Pending(JobOf(x)) => Pending(JobOf(x))'
  BY <1>0 DEF KeepsOthers, Pending, Busy
<1>1. CASE UNCHANGED vars
  BY <1>1 DEF vars, membershipVars, storeVars, Pending, Busy
<1>2. CASE Watching
  <2>1. PICK g \in GVKs :
          \/ \E o \in Objects : WatchEvent(g, o)
          \/ Listing(g)
          \/ \E slot \in Slots :
               \/ \E listing \in BOOLEAN : WatchStarts(g, slot, listing)
               \/ \E err \in WatchErrors : WatchFails(g, slot, err)
    BY <1>2 DEF Watching
  <2>2. UNCHANGED <<job, selectedRoots, failures>> /\ dirty \subseteq dirty'
    BY <2>1 DEF WatchEvent, Listing, Replace, WatchStarts, WatchFails, membershipVars, storeVars
  <2> QED
    BY <2>2 DEF Pending, Busy
<1>3. CASE Syncing \/ External
  <2>1. UNCHANGED <<job, selectedRoots, failures>> /\ dirty \subseteq dirty'
    BY <1>3 DEF Syncing, External, RefreshDefinitions, SyncWatch, SyncReturns, InventoryChanges, Install,
                membershipVars, storeVars
  <2> QED
    BY <2>1 DEF Pending, Busy
<1>4. ASSUME NEW u \in PodUIDs, PodStep(u)
      PROVE  /\ \A x \in SelectedKeys : Pending(JobOf(x)) => Pending(JobOf(x))'
             /\ UNCHANGED <<failures, selectedRoots>>
  <2>1. UNCHANGED <<failures, selectedRoots>>
    BY <1>4 DEF PodStep, ResolvePod, RegisterPodRoot, ReadPodRoot, FailPodEvaluation, PublishPod,
                UnregisterPod, membershipVars
  <2> QED
    BY <1>0, <1>4, <2>1, PodStepKeeps, JobsDiffer
<1>5. CASE RequeueScope
  <2>1. KeepsOthers(Rescan)
    BY <1>5 DEF RequeueScope, KeepsOthers
  <2>2. UNCHANGED <<failures, selectedRoots>>
    BY <1>5 DEF RequeueScope, membershipVars, storeVars
  <2> QED
    BY <1>0, <2>1, <2>2, JobsDiffer
<1>6. ASSUME NEW u \in UIDs, RootStep(u)
      PROVE  /\ \A x \in SelectedKeys : Pending(JobOf(x)) => Pending(JobOf(x))'
             /\ UNCHANGED failures /\ (UNCHANGED selectedRoots \/ WithdrawWorkload(u))
  <2>1. UNCHANGED failures /\ (UNCHANGED selectedRoots \/ WithdrawWorkload(u))
    BY <1>6 DEF RootStep, ReadWorkload, WithdrawWorkload, RemoveWorkload, PublishWorkload, membershipVars
  <2> QED
    BY <1>0, <1>6, <2>1, RootStepKeeps, JobsDiffer
<1> QED
  BY <1>1, <1>2, <1>3, <1>4, <1>5, <1>6 DEF Next

\* No step strands an object without an outcome or a failure without a job.
LEMMA NextPending ==
  ASSUME TypeInv, NoOutcomeIsPending, FailureIsPending, [Next]_vars
  PROVE  NoOutcomeIsPending' /\ FailureIsPending'
<1>0. MemberOK
  BY DEF TypeInv
<1>1. \A x \in SelectedKeys : /\ x = <<x[1], x[2]>>
                              /\ selectedRoots[x] # None /\ selectedRoots[x] = NoOutcome => Pending(JobOf(x))
  <2>1. \A x \in SelectedKeys : x = <<x[1], x[2]>>
    BY DEF SelectedKeys
  <2> QED
    BY <2>1 DEF NoOutcomeIsPending, Pending, Tracked
<1>2. \A u \in failures : \E x \in SelectedKeys : x[2] = u /\ Pending(JobOf(x))
  BY DEF FailureIsPending, Pending
<1>3. SUFFICES /\ \A x \in SelectedKeys :
                    selectedRoots'[x] # None /\ selectedRoots'[x] = NoOutcome => Pending(JobOf(x))'
               /\ \A u \in failures' : \E x \in SelectedKeys : x[2] = u /\ Pending(JobOf(x))'
  BY <1>1 DEF NoOutcomeIsPending, FailureIsPending, Pending, Tracked, JobOf, Busy
<1>4. CASE /\ \A x \in SelectedKeys : Pending(JobOf(x)) => Pending(JobOf(x))'
           /\ failures' = failures
           /\ selectedRoots' = selectedRoots
  BY <1>1, <1>2, <1>4
<1>5. ASSUME NEW u \in UIDs, WithdrawWorkload(u),
             \A x \in SelectedKeys : Pending(JobOf(x)) => Pending(JobOf(x))', failures' = failures
      PROVE  /\ \A x \in SelectedKeys :
                  selectedRoots'[x] # None /\ selectedRoots'[x] = NoOutcome => Pending(JobOf(x))'
             /\ \A v \in failures' : \E x \in SelectedKeys : x[2] = v /\ Pending(JobOf(x))'
  <2>1. \A v \in failures' : \E x \in SelectedKeys : x[2] = v /\ Pending(JobOf(x))'
    BY <1>2, <1>5
  <2>2. ASSUME NEW x \in SelectedKeys, selectedRoots'[x] # None, selectedRoots'[x] = NoOutcome
        PROVE  Pending(JobOf(x))'
    <3>1. CASE roots[u] # None /\ x \in roots[u].selected
      <4>1. Return(RootJob(u), {}, EnqueueMembers(u), FALSE)
        BY <1>5, <3>1 DEF WithdrawWorkload
      <4>2. EnqueueMembers(u) \subseteq dirty'
        BY <4>1 DEF Return
      <4>3. JobOf(x) \in EnqueueMembers(u)
        BY <3>1 DEF EnqueueMembers, JobOf
      <4> QED
        BY <4>2, <4>3 DEF Pending
    <3>2. CASE ~(roots[u] # None /\ x \in roots[u].selected)
      <4>1. selectedRoots'[x] = selectedRoots[x]
        BY <1>5, <3>2 DEF WithdrawWorkload
      <4> QED
        BY <1>1, <1>5, <2>2, <4>1
    <3> QED
      BY <3>1, <3>2
  <2> QED
    BY <2>1, <2>2
<1>6. ASSUME NEW x \in SelectedKeys, SelectedStep(x)
      PROVE  /\ \A y \in SelectedKeys :
                  selectedRoots'[y] # None /\ selectedRoots'[y] = NoOutcome => Pending(JobOf(y))'
             /\ \A u \in failures' : \E y \in SelectedKeys : y[2] = u /\ Pending(JobOf(y))'
  <2>1. /\ KeepsOthers(JobOf(x))
        /\ \A y \in SelectedKeys \ {x} : selectedRoots'[y] = selectedRoots[y]
        /\ \/ Pending(JobOf(x))' /\ failures' \subseteq failures \cup {x[2]}
           \/ /\ failures' = failures \ {x[2]}
              /\ selectedRoots'[x] # None => selectedRoots'[x] # NoOutcome
    BY <1>6, SelectedStepKeeps
  <2>2. \A y \in SelectedKeys \ {x} : Pending(JobOf(y)) => Pending(JobOf(y))'
    BY <2>1, JobsDiffer DEF KeepsOthers, Pending, Busy
  <2>3. ASSUME NEW y \in SelectedKeys, selectedRoots'[y] # None, selectedRoots'[y] = NoOutcome
        PROVE  Pending(JobOf(y))'
    <3>1. CASE y = x
      BY <2>1, <2>3, <3>1
    <3>2. CASE y # x
      BY <1>1, <2>1, <2>2, <2>3, <3>2
    <3> QED
      BY <3>1, <3>2
  <2>4. ASSUME NEW u \in failures'
        PROVE  \E y \in SelectedKeys : y[2] = u /\ Pending(JobOf(y))'
    <3>1. CASE Pending(JobOf(x))' /\ u = x[2]
      BY <3>1
    <3>2. CASE u \in failures /\ (Pending(JobOf(x))' \/ u # x[2])
      <4>1. PICK y \in SelectedKeys : y[2] = u /\ Pending(JobOf(y))
        BY <1>2, <3>2
      <4>2. Pending(JobOf(y))'
        BY <2>2, <3>2, <4>1
      <4> QED
        BY <4>1, <4>2
    <3> QED
      BY <2>1, <2>4, <3>1, <3>2
  <2> QED
    BY <2>3, <2>4
<1> QED
  BY <1>4, <1>5, <1>6, PendingFrame

\* Nothing is tracked and nothing has failed at first.
LEMMA InitPending == Init => NoOutcomeIsPending /\ FailureIsPending
<1>1. \A x \in SelectedKeys : x = <<x[1], x[2]>>
  BY DEF SelectedKeys
<1> QED
  BY <1>1 DEF Init, NoOutcomeIsPending, FailureIsPending, Tracked

\* An object that is tracked without a root or an exclusion always has a job
\* queued or running that will find one: withdrawing a root strands no member
\* (removeRoot, enqueueRootMembers).
THEOREM ControllerNoOutcomeIsPending == Spec => []NoOutcomeIsPending
BY InitPending, NextPending, ControllerTypeInv, PTL DEF Spec

\* Store keeps a discovery failure only while a job that can clear it is queued
\* or running (failSelectedObjectDiscovery, replaceSelectedObjectTracking).
THEOREM ControllerFailureIsPending == Spec => []FailureIsPending
BY InitPending, NextPending, ControllerTypeInv, PTL DEF Spec
===============================================================================
