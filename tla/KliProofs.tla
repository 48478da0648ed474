------------------------------ MODULE KliProofs ------------------------------
(***************************************************************************)
(* What the owner walks of `kli get --all-types` and `kli describe` find,  *)
(* for every cluster and every change of it during the run: a match is an  *)
(* owner by UID, the end of a chain is its end unless an owner has been    *)
(* deleted, and objects with one controller are judged alike.  And for a   *)
(* cluster that holds still: every object asked for shows up somewhere.    *)
(***************************************************************************)
EXTENDS Kli, FiniteSetTheorems, NaturalsInduction, TLAPS

-------------------------------------------------------------------------------
(* Owners in a set of objects *)

OwnersIn(B, o) == {p \in B : o.controller # Null /\ p.uid = o.controller.uid}
AllOwnersIn(B) == UNION {OwnersIn(B, o) : o \in B}
AncestorsIn(B, o) ==
  {p \in AllOwnersIn(B) :
     \A S \in {T \in SUBSET AllOwnersIn(B) : OwnersIn(B, o) \subseteq T /\ \A q \in T : OwnersIn(B, q) \subseteq T} :
       p \in S}

\* Owners and Ancestors are these for all objects there have been.
LEMMA OwnersNow ==
  /\ \A o : Owners(o) = OwnersIn(born, o) /\ Owners(o)' = OwnersIn(born', o)
  /\ \A o : Ancestors(o) = AncestorsIn(born, o) /\ Ancestors(o)' = AncestorsIn(born', o)
BY DEF Owners, OwnersIn, AllOwners, AllOwnersIn, Ancestors, AncestorsIn

\* An object's ancestors hold its owners and the owners of their members.
LEMMA AncestorsClosed ==
  ASSUME NEW B, NEW o \in B
  PROVE  /\ AncestorsIn(B, o) \subseteq B
         /\ OwnersIn(B, o) \subseteq AncestorsIn(B, o)
         /\ \A p \in AncestorsIn(B, o) : OwnersIn(B, p) \subseteq AncestorsIn(B, o)
<1>1. \A p \in B : OwnersIn(B, p) \subseteq AllOwnersIn(B) /\ OwnersIn(B, p) \subseteq B
  BY Zenon DEF AllOwnersIn, OwnersIn
<1>2. AllOwnersIn(B) \subseteq B
  BY Zenon DEF AllOwnersIn, OwnersIn
<1>3. AncestorsIn(B, o) \subseteq B /\ OwnersIn(B, o) \subseteq AncestorsIn(B, o)
  BY <1>1, <1>2 DEF AncestorsIn
<1>4. ASSUME NEW p \in AncestorsIn(B, o), NEW q \in OwnersIn(B, p) PROVE q \in AncestorsIn(B, o)
  <2>1. q \in AllOwnersIn(B)
    BY <1>1, <1>3
  <2>2. ASSUME NEW S \in SUBSET AllOwnersIn(B), OwnersIn(B, o) \subseteq S,
               \A r \in S : OwnersIn(B, r) \subseteq S
        PROVE  q \in S
    <3>1. p \in S
      BY <2>2 DEF AncestorsIn
    <3> QED
      BY <2>2, <3>1
  <2> QED
    BY <2>1, <2>2 DEF AncestorsIn
<1> QED
  BY <1>3, <1>4

\* They are the least such set.
LEMMA AncestorsLeast ==
  ASSUME NEW B, NEW o \in B, NEW S,
         OwnersIn(B, o) \subseteq S, \A p \in S \cap B : OwnersIn(B, p) \subseteq S
  PROVE  AncestorsIn(B, o) \subseteq S
<1> DEFINE T == S \cap AllOwnersIn(B)
<1>1. \A p \in B : OwnersIn(B, p) \subseteq AllOwnersIn(B)
  BY Zenon DEF AllOwnersIn, OwnersIn
<1>2. AllOwnersIn(B) \subseteq B
  BY Zenon DEF AllOwnersIn, OwnersIn
<1>3. T \in SUBSET AllOwnersIn(B) /\ OwnersIn(B, o) \subseteq T /\ \A q \in T : OwnersIn(B, q) \subseteq T
  BY <1>1, <1>2
<1> HIDE DEF T
<1>4. AncestorsIn(B, o) \subseteq T
  BY <1>3 DEF AncestorsIn
<1> QED
  BY <1>4 DEF T

\* A new object that nothing names as its owner changes nobody's ancestors.
LEMMA AncestorsStay ==
  ASSUME NEW B, NEW x, \A o \in B : o.controller # Null => o.controller.uid # x.uid
  PROVE  \A o \in B : /\ OwnersIn(B \cup {x}, o) = OwnersIn(B, o)
                      /\ AncestorsIn(B \cup {x}, o) = AncestorsIn(B, o)
<1> DEFINE C == B \cup {x}
<1>1. \A o \in B : OwnersIn(C, o) = OwnersIn(B, o)
  BY DEF OwnersIn
<1>2. ASSUME NEW o \in B PROVE AncestorsIn(C, o) = AncestorsIn(B, o)
  <2>0. o \in C /\ B \subseteq C
    OBVIOUS
  <2> HIDE DEF C
  <2>1. AncestorsIn(C, o) \subseteq AncestorsIn(B, o)
    <3>1. AncestorsIn(B, o) \subseteq B /\ OwnersIn(C, o) \subseteq AncestorsIn(B, o)
      BY <1>1, AncestorsClosed
    <3>2. \A p \in AncestorsIn(B, o) \cap C : OwnersIn(C, p) \subseteq AncestorsIn(B, o)
      BY <1>1, <3>1, AncestorsClosed
    <3> QED
      BY <2>0, <3>1, <3>2, AncestorsLeast
  <2>2. AncestorsIn(B, o) \subseteq AncestorsIn(C, o)
    <3>1. OwnersIn(B, o) \subseteq AncestorsIn(C, o)
      BY <1>1, <2>0, AncestorsClosed
    <3>2. \A p \in AncestorsIn(C, o) \cap B : OwnersIn(B, p) \subseteq AncestorsIn(C, o)
      BY <1>1, <2>0, AncestorsClosed
    <3> QED
      BY <3>1, <3>2, AncestorsLeast
  <2> QED
    BY <2>1, <2>2
<1> QED
  BY <1>1, <1>2

-------------------------------------------------------------------------------
(* The invariant *)

\* UIDs are never reused, and an object is served while it exists.
BornInv ==
  /\ IsFiniteSet(born) /\ objects \subseteq born /\ born \subseteq Object(Cardinality(born))
  /\ \A o, p \in born : o.uid = p.uid => o = p
  /\ \A o, p \in born : o.controller # Null /\ o.controller.uid = p.uid => o.controller = Ref(p)
  /\ \A o \in objects : served[o.slot.kind] # {}

Walk == [object : born, refs : born, depth : 0..MaxOwnerDepth]

\* The walks start when everything is listed, and the caches are theirs.
CommandInv ==
  /\ pc \in {"load", "discover", "lookup", "list", "walk", "done", "failed"}
  /\ pc \in {"load", "discover", "lookup", "list"} =>
       walk = Null /\ DOMAIN lists = {} /\ DOMAIN named = {} /\ DOMAIN verdict = {}
  /\ queue \in Seq(born)
  /\ walk # Null => walk \in Walk
  /\ DOMAIN verdict \subseteq {o.uid : o \in born}

\* The objects whose owners are looked for.
Seen ==
  {queue[i] : i \in 1..Len(queue)} \cup {o \in born : walk # Null /\ o = walk.object}
    \cup {o \in born : o.uid \in DOMAIN verdict}

\* What was read of objs is complete as far as the walks go: an object it lacks was
\* created since, so no object listed before owes its existence to it.
Complete(read, objs) ==
  /\ read.objs \subseteq born
  /\ read.answer = "ok" => \A q \in objs \ read.objs, o \in Seen : q \notin Ancestors(o)
CacheInv ==
  /\ \A kind \in DOMAIN lists : Complete(lists[kind], OfKind(kind))
  /\ \A slot \in DOMAIN named : Complete(named[slot], At(slot))

\* The objects climbed from o: owners of o without a match, each with its own owner
\* among them unless that has been deleted; the pending one is still to be judged.
Climbed(S, o, pending) ==
  /\ o \in S /\ S \subseteq {o} \cup Ancestors(o)
  /\ \A p \in S \ pending : ~Matches(p) /\ (Owners(p) \subseteq S \/ ~(Owners(p) \subseteq objects))
WalkInv ==
  walk # Null => \E S \in SUBSET born : walk.refs \in S /\ Climbed(S, walk.object, {walk.refs})
EndedInv ==
  \A o \in Walked("ended") : \E S \in SUBSET born : Climbed(S, o, {})

OwnerInv == BornInv /\ CommandInv /\ CacheInv /\ WalkInv /\ EndedInv /\ MatchedIsOwned

-------------------------------------------------------------------------------
(* What the caches say of a walk *)

Cached(ref) ==
  /\ ref.slot.kind \in DOMAIN lists
  /\ lists[ref.slot.kind].answer = "forbidden" => ref.slot \in DOMAIN named
ReadOf(ref) ==
  IF lists[ref.slot.kind].answer = "forbidden" THEN named[ref.slot] ELSE lists[ref.slot.kind]
FoundIn(read, ref) == {o \in read.objs : SameObject(o, ref)}

\* The owner of an object at a depth has to be read, and what the caches then say.
Reads(p, depth) ==
  ~Matches(p) /\ p.controller # Null /\ depth # MaxOwnerDepth /\ mapper[p.controller.slot.kind] # {}
Known(p, depth) == Reads(p, depth) => Cached(p.controller)
Judged(p, depth) ==
  IF Matches(p) THEN "matched"
  ELSE IF p.controller = Null THEN "ended"
  ELSE IF ~Reads(p, depth) \/ ReadOf(p.controller).answer # "ok" THEN "failed"
  ELSE IF FoundIn(ReadOf(p.controller), p.controller) = {} THEN "ended"
  ELSE "climbs"
Up(p) == CHOOSE o \in FoundIn(ReadOf(p.controller), p.controller) : TRUE

\* The caches lead from f[0] to f[n].
Trail(f, n) ==
  /\ f \in [0..n -> born]
  /\ \A i \in 0..(n - 1) : Known(f[i], i) /\ Judged(f[i], i) = "climbs" /\ f[i + 1] = Up(f[i])
JudgedInv ==
  /\ walk # Null =>
       \E f \in [0..walk.depth -> born] :
         f[0] = walk.object /\ f[walk.depth] = walk.refs /\ Trail(f, walk.depth)
  /\ \A o \in {q \in born : q.uid \in DOMAIN verdict} :
       \E n \in 0..MaxOwnerDepth : \E f \in [0..n -> born] :
         /\ f[0] = o /\ Trail(f, n) /\ Known(f[n], n)
         /\ verdict[o.uid] = Judged(f[n], n) /\ verdict[o.uid] # "climbs"

-------------------------------------------------------------------------------
(* Changes of the cluster *)

\* A deleted object stays among those there have been, and a new one has a UID that
\* no reference has.
LEMMA ClusterFrame ==
  ASSUME BornInv, ClusterStep
  PROVE  /\ BornInv'
         /\ UNCHANGED <<fixedVars, commandVars>>
         /\ born \subseteq born' /\ \A o \in objects' : o \in objects \/ o \notin born
         /\ \A o \in born : Owners(o)' = Owners(o) /\ Ancestors(o)' = Ancestors(o)
         /\ \A o \in born' \ born : \A p \in born : o.uid # p.uid
<1>0. UNCHANGED <<fixedVars, commandVars>>
  BY DEF ClusterStep
<1>1. CASE \/ \E o \in objects : Delete(o)
           \/ \E kind \in Kinds : Uninstall(kind)
  <2>1. /\ born' = born /\ objects' \subseteq objects
        /\ \A o \in objects' : served'[o.slot.kind] # {}
    <3>1. ASSUME NEW o \in objects, Delete(o)
          PROVE  born' = born /\ objects' \subseteq objects /\ \A p \in objects' : served'[p.slot.kind] # {}
      BY <3>1 DEF Delete, BornInv
    <3>2. ASSUME NEW kind \in Kinds, Uninstall(kind)
          PROVE  born' = born /\ objects' \subseteq objects /\ \A p \in objects' : served'[p.slot.kind] # {}
      <4>1. /\ born' = born /\ objects' = objects \ OfKind(kind)
            /\ served' = [served EXCEPT ![kind] = {}]
        BY <3>2 DEF Uninstall
      <4>2. \A p \in objects' : p.slot.kind # kind /\ p \in objects
        BY <4>1 DEF OfKind
      <4> QED
        BY <4>1, <4>2 DEF BornInv
    <3> QED
      BY <1>1, <3>1, <3>2
  <2>2. BornInv'
    BY <2>1 DEF BornInv
  <2> QED
    BY <1>0, <2>1, <2>2, OwnersNow
<1>2. ASSUME NEW slot \in Slots, Create(slot) PROVE
             /\ BornInv'
             /\ born \subseteq born' /\ \A o \in objects' : o \in objects \/ o \notin born
             /\ \A o \in born : Owners(o)' = Owners(o) /\ Ancestors(o)' = Ancestors(o)
             /\ \A o \in born' \ born : \A p \in born : o.uid # p.uid
  <2> DEFINE n == Cardinality(born)
  <2>1. PICK owner \in {Null} \cup {Ref(o) : o \in {p \in objects : p.slot.kind # PodKind}} :
          LET x == NewObject(slot, n + 1, owner, {})
          IN  objects' = objects \cup {x} /\ born' = born \cup {x}
    BY <1>2 DEF Create
  <2> DEFINE x == NewObject(slot, n + 1, owner, {})
  <2>2. n \in Nat /\ IsFiniteSet(born)
    BY FS_CardinalityType DEF BornInv
  <2> HIDE DEF n
  <2>3. \A o \in born : /\ o.uid \in 1..n /\ o.slot \in Slots /\ o.others \in SUBSET Nat
                        /\ o.controller = Null \/ (o.controller \in [slot : Slots, uid : 0..n])
    BY DEF BornInv, Object, n
  <2>4. x.uid = n + 1 /\ x.slot = slot /\ x.controller = owner /\ x.others = {}
    BY DEF NewObject
  <2>5. owner = Null \/ (owner \in [slot : Slots, uid : 1..n] /\ \E o \in born : owner = Ref(o))
    <3>1. CASE owner # Null
      <4>1. PICK o \in objects : owner = Ref(o)
        BY <2>1, <3>1
      <4> QED
        BY <2>3, <4>1 DEF Ref, BornInv
    <3> QED
      BY <3>1
  <2>6. /\ objects' = objects \cup {x} /\ born' = born \cup {x} /\ served' = served
        /\ served[slot.kind] # {}
    BY <1>2, <2>1 DEF Create
  <2>7. \A o \in born : o.uid # x.uid /\ (o.controller # Null => o.controller.uid # x.uid)
    BY <2>2, <2>3, <2>4
  <2>8. x \notin born
    BY <2>7
  <2>9. Cardinality(born') = n + 1 /\ IsFiniteSet(born')
    BY <2>2, <2>6, <2>8, FS_AddElement DEF n
  <2>10. born' \subseteq Object(n + 1)
    <3>1. born \subseteq Object(n)
      BY DEF BornInv, n
    <3>2. Object(n) \subseteq Object(n + 1)
      BY <2>2 DEF Object
    <3>3. x \in Object(n + 1)
      BY <2>2, <2>5 DEF Object, NewObject
    <3> QED
      BY <2>6, <3>1, <3>2, <3>3
  <2> HIDE DEF x
  <2>11. \A o, p \in born' : o.uid = p.uid => o = p
    BY <2>6, <2>7 DEF BornInv
  <2>12. \A o, p \in born' : o.controller # Null /\ o.controller.uid = p.uid => o.controller = Ref(p)
    <3> TAKE o, p \in born'
    <3>1. CASE o \in born /\ p \in born
      BY <3>1 DEF BornInv
    <3>2. CASE p = x /\ o \in born
      BY <2>7, <3>2
    <3>3. CASE o = x /\ p \in born
      <4> SUFFICES ASSUME x.controller # Null, x.controller.uid = p.uid PROVE x.controller = Ref(p)
        BY <3>3
      <4>1. PICK q \in born : owner = Ref(q)
        BY <2>4, <2>5
      <4>2. q.uid = p.uid
        BY <2>4, <4>1 DEF Ref
      <4>3. q = p
        BY <3>3, <4>2 DEF BornInv
      <4> QED
        BY <2>4, <4>1, <4>3
    <3>4. CASE o = x /\ p = x
      BY <2>2, <2>4, <2>5, <3>4
    <3> QED
      BY <2>6, <3>1, <3>2, <3>3, <3>4
  <2>13. BornInv'
    <3>1. objects' \subseteq born' /\ \A o \in objects' : served'[o.slot.kind] # {}
      BY <2>4, <2>6 DEF BornInv
    <3> QED
      BY <2>9, <2>10, <2>11, <2>12, <3>1 DEF BornInv
  <2>14. \A o \in born : Owners(o)' = Owners(o) /\ Ancestors(o)' = Ancestors(o)
    <3>1. \A o \in born : /\ OwnersIn(born', o) = OwnersIn(born, o)
                          /\ AncestorsIn(born', o) = AncestorsIn(born, o)
      BY <2>6, <2>7, AncestorsStay
    <3> QED
      BY <3>1, OwnersNow
  <2> QED
    BY <2>6, <2>7, <2>8, <2>13, <2>14
<1> QED
  BY <1>0, <1>1, <1>2 DEF ClusterStep

\* What has been read stays complete, and chains stay chains.
LEMMA ClusterKeeps ==
  ASSUME OwnerInv, ClusterStep
  PROVE  OwnerInv'
<1>1. /\ BornInv' /\ UNCHANGED <<fixedVars, commandVars>>
      /\ born \subseteq born' /\ \A o \in objects' : o \in objects \/ o \notin born
      /\ \A o \in born : Owners(o)' = Owners(o) /\ Ancestors(o)' = Ancestors(o)
      /\ \A o \in born' \ born : \A p \in born : o.uid # p.uid
  BY ClusterFrame DEF OwnerInv
<1>2. UNCHANGED <<pc, mode, root, covered, queue, walk, lists, named, verdict>>
  BY <1>1 DEF fixedVars, commandVars
<1>3. CommandInv'
  <2>1. queue \in Seq(born')
    BY <1>1 DEF OwnerInv, CommandInv
  <2> QED
    BY <1>1, <1>2, <2>1 DEF OwnerInv, CommandInv, Walk
<1>4. Seen' = Seen /\ Seen \subseteq born
  BY <1>1, <1>2 DEF Seen, OwnerInv, CommandInv, Walk
<1>5. \A o \in born : Ancestors(o) \subseteq born
  BY OwnersNow, AncestorsClosed
<1>6. ASSUME NEW read, NEW objs, NEW after, Complete(read, objs),
             \A q \in after : q \in objs \/ q \notin born
      PROVE  /\ read.objs \subseteq born'
             /\ read.answer = "ok" => \A q \in after \ read.objs, o \in Seen' : q \notin Ancestors(o)'
  BY <1>1, <1>4, <1>5, <1>6 DEF Complete
<1>7. CacheInv'
  <2>1. \A kind : \A q \in OfKind(kind)' : q \in OfKind(kind) \/ q \notin born
    BY <1>1 DEF OfKind
  <2>2. \A slot : \A q \in At(slot)' : q \in At(slot) \/ q \notin born
    BY <1>1 DEF At
  <2>3. \A kind \in DOMAIN lists : Complete(lists[kind], OfKind(kind))'
    <3> SUFFICES ASSUME NEW kind \in DOMAIN lists PROVE Complete(lists[kind], OfKind(kind))'
      OBVIOUS
    <3>1. Complete(lists[kind], OfKind(kind))
      BY DEF OwnerInv, CacheInv
    <3>2. /\ lists[kind].objs \subseteq born'
          /\ lists[kind].answer = "ok" =>
               \A q \in OfKind(kind)' \ lists[kind].objs, o \in Seen' : q \notin Ancestors(o)'
      BY <1>6, <2>1, <3>1
    <3> QED
      BY <1>2, <3>2 DEF Complete
  <2>4. \A slot \in DOMAIN named : Complete(named[slot], At(slot))'
    <3> SUFFICES ASSUME NEW slot \in DOMAIN named PROVE Complete(named[slot], At(slot))'
      OBVIOUS
    <3>1. Complete(named[slot], At(slot))
      BY DEF OwnerInv, CacheInv
    <3>2. /\ named[slot].objs \subseteq born'
          /\ named[slot].answer = "ok" =>
               \A q \in At(slot)' \ named[slot].objs, o \in Seen' : q \notin Ancestors(o)'
      BY <1>6, <2>2, <3>1
    <3> QED
      BY <1>2, <3>2 DEF Complete
  <2> QED
    BY <1>2, <2>3, <2>4 DEF CacheInv
<1>8. \A p : Matches(p)' = Matches(p)
  BY <1>2 DEF Matches
<1>9. ASSUME NEW S \in SUBSET born, NEW o \in born, NEW pending, Climbed(S, o, pending)
      PROVE  Climbed(S, o, pending)'
  BY <1>1, <1>8, <1>9, <1>5, OwnersNow DEF Climbed, OwnersIn
<1>10. WalkInv'
  <2> SUFFICES ASSUME walk # Null PROVE WalkInv'
    BY <1>2 DEF WalkInv
  <2>1. PICK S \in SUBSET born : walk.refs \in S /\ Climbed(S, walk.object, {walk.refs})
    BY DEF OwnerInv, WalkInv
  <2>2. walk.object \in born /\ walk.refs \in born
    BY DEF OwnerInv, CommandInv, Walk
  <2>3. PICK o \in born, r \in born : o = walk.object /\ r = walk.refs
    BY <2>2
  <2>4. Climbed(S, o, {r})'
    BY <1>9, <2>1, <2>3
  <2> QED
    BY <1>1, <1>2, <2>1, <2>3, <2>4, OwnersNow DEF WalkInv, Climbed
<1>11. \A v : Walked(v)' = Walked(v)
  BY <1>1, <1>2 DEF Walked, OwnerInv, CommandInv
<1>12. EndedInv'
  <2> SUFFICES ASSUME NEW o \in Walked("ended") PROVE \E S \in SUBSET born' : Climbed(S, o, {})'
    BY <1>11 DEF EndedInv
  <2>1. o \in born
    BY DEF Walked
  <2>2. PICK S \in SUBSET born : Climbed(S, o, {})
    BY DEF OwnerInv, EndedInv
  <2> QED
    BY <1>1, <1>9, <2>1, <2>2
<1>13. MatchedIsOwned'
  <2> SUFFICES ASSUME NEW o \in Walked("matched") PROVE TrulyMatches(o)'
    BY <1>11 DEF MatchedIsOwned
  <2>1. o \in born /\ TrulyMatches(o)
    BY DEF Walked, OwnerInv, MatchedIsOwned
  <2> QED
    BY <1>1, <1>8, <2>1 DEF TrulyMatches
<1> QED
  BY <1>1, <1>3, <1>7, <1>10, <1>12, <1>13 DEF OwnerInv

-------------------------------------------------------------------------------
(* Before the walks *)

\* The objects of a list, in some order.
LEMMA SetToSeqType ==
  ASSUME NEW S, IsFiniteSet(S)
  PROVE  SetToSeq(S) \in Seq(S)
<1>1. ExistsBijection(1..Cardinality(S), S) /\ Cardinality(S) \in Nat
  BY FS_CardinalityType
<1>2. \E f \in [1..Cardinality(S) -> S] : IsInjective(f)
  BY <1>1 DEF ExistsBijection, Bijection, Injection
<1>3. SetToSeq(S) \in [1..Cardinality(S) -> S]
  BY <1>2 DEF SetToSeq
<1> QED
  BY <1>1, <1>3

\* Until something is walked there is nothing to be wrong about.
LEMMA EarlyKeeps ==
  ASSUME OwnerInv, pc \in {"load", "discover", "lookup", "list"},
         UNCHANGED <<clusterVars, walk, lists, named, verdict>>,
         pc' \in {"load", "discover", "lookup", "list", "walk", "done", "failed"},
         queue' \in Seq(born)
  PROVE  OwnerInv'
<1>1. /\ walk' = Null /\ DOMAIN lists' = {} /\ DOMAIN named' = {} /\ DOMAIN verdict' = {}
      /\ UNCHANGED <<objects, born, served>>
  BY DEF OwnerInv, CommandInv, clusterVars
<1>2. BornInv' /\ CommandInv'
  BY <1>1 DEF OwnerInv, BornInv, CommandInv
<1>3. CacheInv' /\ WalkInv'
  BY <1>1 DEF CacheInv, WalkInv
<1>4. \A v : Walked(v)' = {}
  BY <1>1 DEF Walked
<1> QED
  BY <1>2, <1>3, <1>4 DEF OwnerInv, EndedInv, MatchedIsOwned

\* The definitions, discovery and the lists.
LEMMA ListingKeeps ==
  ASSUME OwnerInv,
         Load \/ Discover \/ DiscoverKinds \/ LookupType \/ GetRoot \/ ListKind \/ NothingToList
  PROVE  OwnerInv'
<1>0. queue \in Seq(born)
  BY DEF OwnerInv, CommandInv
<1>1. CASE Load
  <2>1. /\ pc = "load" /\ pc' \in {"failed", "discover"} /\ queue' = queue
        /\ UNCHANGED <<clusterVars, walk, lists, named, verdict>>
    BY <1>1 DEF Load
  <2> QED
    BY <1>0, <2>1, EarlyKeeps DEF clusterVars
<1>2. CASE Discover
  BY <1>0, <1>2, EarlyKeeps DEF Discover, clusterVars
<1>3. CASE DiscoverKinds
  BY <1>0, <1>3, EarlyKeeps DEF DiscoverKinds, clusterVars
<1>4. CASE LookupType
  <2>1. /\ pc = "lookup" /\ pc' \in {"failed", "list", "done"} /\ queue' = queue
        /\ UNCHANGED <<clusterVars, walk, lists, named, verdict>>
    BY <1>4 DEF LookupType
  <2> QED
    BY <1>0, <2>1, EarlyKeeps DEF clusterVars
<1>5. CASE GetRoot
  <2>1. /\ pc = "lookup" /\ pc' \in {"failed", "list"} /\ queue' = queue
        /\ UNCHANGED <<clusterVars, walk, lists, named, verdict>>
    BY <1>5 DEF GetRoot
  <2> QED
    BY <1>0, <2>1, EarlyKeeps DEF clusterVars
<1>6. CASE ListKind
  <2>1. /\ pc = "list" /\ UNCHANGED <<clusterVars, walk, lists, named, verdict>>
        /\ \/ \E kind : LeaveOut(kind) \/ Listed(OfKind(kind), Tail(toList))
           \/ Failed
    BY <1>6 DEF ListKind
  <2>2. ASSUME NEW objs \in SUBSET objects, NEW rest, Listed(objs, rest)
        PROVE  pc' \in {"list", "walk", "done"} /\ queue' \in Seq(born)
    <3>1. IsFiniteSet(objs) /\ objs \subseteq born
      BY FS_Subset DEF OwnerInv, BornInv
    <3>2. SetToSeq(objs) \in Seq(born)
      BY <3>1, SetToSeqType
    <3> QED
      BY <1>0, <2>1, <2>2, <3>2 DEF Listed
  <2>3. pc' \in {"list", "walk", "done", "failed"} /\ queue' \in Seq(born)
    <3>1. CASE Failed
      BY <1>0, <3>1 DEF Failed
    <3>2. ASSUME NEW kind, LeaveOut(kind) \/ Listed(OfKind(kind), Tail(toList))
          PROVE  pc' \in {"list", "walk", "done"} /\ queue' \in Seq(born)
      BY <2>2, <3>2 DEF LeaveOut, OfKind
    <3> QED
      BY <2>1, <3>1, <3>2
  <2> QED
    BY <2>1, <2>3, EarlyKeeps DEF clusterVars
<1>7. CASE NothingToList
  BY <1>0, <1>7, EarlyKeeps DEF NothingToList, clusterVars
<1> QED
  BY <1>1, <1>2, <1>3, <1>4, <1>5, <1>6, <1>7

-------------------------------------------------------------------------------
(* The walks *)

\* A walk starts at an object that was listed.
LEMMA StartKeeps ==
  ASSUME OwnerInv, StartWalk
  PROVE  OwnerInv'
<1>1. /\ pc = "walk" /\ walk = Null /\ queue # <<>>
      /\ walk' = [object |-> Head(queue), refs |-> Head(queue), depth |-> 0]
      /\ queue' = Tail(queue)
      /\ UNCHANGED <<objects, born, served, mode, root, covered, pc, lists, named, verdict>>
  BY DEF StartWalk, clusterVars, fixedVars
<1>2. queue \in Seq(born) /\ Head(queue) \in born /\ Tail(queue) \in Seq(born)
      /\ Len(queue) \in Nat \ {0} /\ Head(queue) = queue[1] /\ Len(Tail(queue)) = Len(queue) - 1
      /\ \A i \in 1..Len(Tail(queue)) : Tail(queue)[i] = queue[i + 1]
  BY <1>1 DEF OwnerInv, CommandInv
<1>3. BornInv' /\ CommandInv'
  BY <1>1, <1>2, KliAssumption DEF OwnerInv, BornInv, CommandInv, Walk
<1>4. Seen' \subseteq Seen
  BY <1>1, <1>2 DEF Seen
<1>5. CacheInv'
  <2>1. /\ \A kind : OfKind(kind)' = OfKind(kind)
        /\ \A slot : At(slot)' = At(slot)
    BY <1>1 DEF OfKind, At
  <2>2. ASSUME NEW kind \in DOMAIN lists PROVE Complete(lists[kind], OfKind(kind))'
    BY <1>1, <1>4, <2>1, OwnersNow DEF OwnerInv, CacheInv, Complete
  <2>3. ASSUME NEW slot \in DOMAIN named PROVE Complete(named[slot], At(slot))'
    BY <1>1, <1>4, <2>1, OwnersNow DEF OwnerInv, CacheInv, Complete
  <2> QED
    BY <1>1, <2>2, <2>3 DEF CacheInv
<1>7. WalkInv'
  <2>1. PICK h \in born : h = Head(queue)
    BY <1>2
  <2>2. walk'.object = h /\ walk'.refs = h /\ born' = born
    BY <1>1, <2>1
  <2>3. Climbed({h}, h, {h})'
    BY DEF Climbed
  <2>4. Climbed({h}, walk.object, {walk.refs})'
    BY <2>2, <2>3, OwnersNow DEF Climbed
  <2> QED
    BY <2>2, <2>4 DEF WalkInv
<1>8. EndedInv' /\ MatchedIsOwned'
  BY <1>1, OwnersNow DEF OwnerInv, EndedInv, MatchedIsOwned, Walked, Climbed, TrulyMatches, Matches
<1> QED
  BY <1>3, <1>5, <1>7, <1>8 DEF OwnerInv

\* A list of owners, read now or before, is complete.
LEMMA ListIsComplete ==
  ASSUME OwnerInv, NEW kind, NEW list \in OwnerList(kind)
  PROVE  Complete(list, OfKind(kind))
<1>1. CASE kind \in DOMAIN lists
  BY <1>1 DEF OwnerList, OwnerInv, CacheInv
<1>2. CASE kind \notin DOMAIN lists
  <2>1. PICK a : list = [answer |-> a, objs |-> IF a = "ok" THEN OfKind(kind) ELSE {}]
    BY <1>2 DEF OwnerList
  <2> QED
    BY <2>1 DEF Complete, OfKind, OwnerInv, BornInv
<1> QED
  BY <1>1, <1>2

\* So is an owner read by name: without a kind served there is none.
LEMMA NamedIsComplete ==
  ASSUME OwnerInv, NEW slot, NEW one \in NamedOwner(slot)
  PROVE  Complete(one, At(slot))
<1>1. CASE slot \in DOMAIN named
  BY <1>1 DEF NamedOwner, OwnerInv, CacheInv
<1>2. CASE slot \notin DOMAIN named
  <2>1. PICK a \in Answers(slot.kind, {"list", "get"}) :
          one = [answer |-> IF a = "not_found" THEN "ok" ELSE a, objs |-> IF a = "ok" THEN At(slot) ELSE {}]
    BY <1>2 DEF NamedOwner
  <2>2. a = "not_found" => At(slot) = {}
    <3>1. a = "not_found" => served[slot.kind] = {}
      BY DEF Answers
    <3> QED
      BY <3>1 DEF At, OwnerInv, BornInv
  <2> QED
    BY <2>1, <2>2 DEF Complete, At, OwnerInv, BornInv
<1> QED
  BY <1>1, <1>2

\* The caches stay complete for the objects listed.
LEMMA CachesStay ==
  ASSUME OwnerInv, UNCHANGED <<objects, born>>, Seen' \subseteq Seen,
         \/ lists' = lists
         \/ \E kind : \E list \in OwnerList(kind) : lists' = Set(lists, kind, list),
         \/ named' = named
         \/ \E slot : \E one \in NamedOwner(slot) : named' = Set(named, slot, one)
  PROVE  CacheInv'
<1>1. /\ \A kind : OfKind(kind)' = OfKind(kind)
      /\ \A slot : At(slot)' = At(slot)
  BY DEF OfKind, At
<1>2. ASSUME NEW kind \in DOMAIN lists' PROVE Complete(lists'[kind], OfKind(kind))
  <2>1. CASE lists' = lists
    BY <1>2, <2>1 DEF OwnerInv, CacheInv
  <2>2. ASSUME NEW k, NEW list \in OwnerList(k), lists' = Set(lists, k, list)
        PROVE  Complete(lists'[kind], OfKind(kind))
    <3>0. /\ DOMAIN lists' = DOMAIN lists \cup {k} /\ lists'[k] = list
          /\ \A j \in DOMAIN lists : j # k => lists'[j] = lists[j]
      <4>1. /\ DOMAIN Set(lists, k, list) = DOMAIN lists \cup {k} /\ Set(lists, k, list)[k] = list
            /\ \A j \in DOMAIN lists : j # k => Set(lists, k, list)[j] = lists[j]
        BY DEF Set
      <4> QED
        BY <2>2, <4>1
    <3>1. (kind = k /\ lists'[kind] = list) \/ (kind \in DOMAIN lists /\ lists'[kind] = lists[kind])
      BY <1>2, <3>0
    <3>2. Complete(list, OfKind(k))
      BY ListIsComplete
    <3> QED
      BY <3>1, <3>2 DEF OwnerInv, CacheInv
  <2> QED
    BY <2>1, <2>2
<1>3. ASSUME NEW slot \in DOMAIN named' PROVE Complete(named'[slot], At(slot))
  <2>1. CASE named' = named
    BY <1>3, <2>1 DEF OwnerInv, CacheInv
  <2>2. ASSUME NEW k, NEW one \in NamedOwner(k), named' = Set(named, k, one)
        PROVE  Complete(named'[slot], At(slot))
    <3>0. /\ DOMAIN named' = DOMAIN named \cup {k} /\ named'[k] = one
          /\ \A j \in DOMAIN named : j # k => named'[j] = named[j]
      <4>1. /\ DOMAIN Set(named, k, one) = DOMAIN named \cup {k} /\ Set(named, k, one)[k] = one
            /\ \A j \in DOMAIN named : j # k => Set(named, k, one)[j] = named[j]
        BY DEF Set
      <4> QED
        BY <2>2, <4>1
    <3>1. (slot = k /\ named'[slot] = one) \/ (slot \in DOMAIN named /\ named'[slot] = named[slot])
      BY <1>3, <3>0
    <3>2. Complete(one, At(k))
      BY NamedIsComplete
    <3> QED
      BY <3>1, <3>2 DEF OwnerInv, CacheInv
  <2> QED
    BY <2>1, <2>2
<1>4. ASSUME NEW kind \in DOMAIN lists' PROVE Complete(lists[kind], OfKind(kind))'
  BY <1>1, <1>2, <1>4, OwnersNow DEF Complete
<1>5. ASSUME NEW slot \in DOMAIN named' PROVE Complete(named[slot], At(slot))'
  BY <1>1, <1>3, <1>5, OwnersNow DEF Complete
<1> QED
  BY <1>4, <1>5 DEF CacheInv

\* What a hop of a walk leaves alone.
LEMMA ClimbFrame ==
  ASSUME Climb
  PROVE  /\ pc = "walk" /\ walk # Null
         /\ UNCHANGED <<objects, born, served, mode, root, covered, mapper, queue, pc>>
BY DEF Climb, clusterVars, fixedVars

\* An owner there is and one by UID.
LEMMA OneOwner ==
  ASSUME BornInv, NEW o \in born, NEW q \in Owners(o)
  PROVE  /\ Owners(o) = {q} /\ q \in born /\ o.controller # Null /\ o.controller = Ref(q)
         /\ \A p : SameObject(p, o.controller) /\ p \in born => p = q
BY DEF BornInv, Owners, Ref, SameObject

\* A walk that ends with its reasons.
LEMMA EndKeeps ==
  ASSUME OwnerInv, Climb, CacheInv', NEW v, EndWalk(v),
         v = "matched" => Matches(walk.refs),
         v = "ended" => /\ ~Matches(walk.refs)
                        /\ \A q \in Owners(walk.refs) : q \notin objects
  PROVE  OwnerInv'
<1>1. /\ pc = "walk" /\ walk # Null
      /\ UNCHANGED <<objects, born, served, mode, root, covered, queue, pc>>
  BY ClimbFrame
<1>2. walk' = Null /\ verdict' = Set(verdict, walk.object.uid, v)
  BY DEF EndWalk
<1>3. walk.object \in born /\ walk.refs \in born
  BY <1>1 DEF OwnerInv, CommandInv, Walk
<1>4. BornInv' /\ CommandInv' /\ WalkInv'
  BY <1>1, <1>2, <1>3 DEF OwnerInv, BornInv, CommandInv, WalkInv, Set
<1>5. \A w : /\ w # v => Walked(w)' \subseteq Walked(w)
             /\ Walked(v)' \subseteq Walked(v) \cup {walk.object}
  BY <1>1, <1>2, <1>3 DEF Walked, Set, OwnerInv, BornInv
<1>6. PICK S \in SUBSET born : walk.refs \in S /\ Climbed(S, walk.object, {walk.refs})
  BY <1>1 DEF OwnerInv, WalkInv
<1>7. /\ \A T, o, pending : Climbed(T, o, pending)' <=> Climbed(T, o, pending)
      /\ \A o : TrulyMatches(o)' <=> TrulyMatches(o)
  BY <1>1, OwnersNow DEF Climbed, TrulyMatches, Matches
<1>8. EndedInv'
  <2> SUFFICES ASSUME NEW o \in Walked("ended")' PROVE \E T \in SUBSET born : Climbed(T, o, {})
    BY <1>1, <1>7 DEF EndedInv
  <2>1. CASE o \in Walked("ended")
    BY <2>1 DEF OwnerInv, EndedInv
  <2>2. CASE o = walk.object /\ v = "ended"
    <3>1. Owners(walk.refs) \subseteq S \/ ~(Owners(walk.refs) \subseteq objects)
      BY <2>2
    <3>2. Climbed(S, o, {})
      BY <1>6, <2>2, <3>1 DEF Climbed
    <3> QED
      BY <3>2
  <2> QED
    BY <1>5, <2>1, <2>2
<1>9. MatchedIsOwned'
  <2> SUFFICES ASSUME NEW o \in Walked("matched")' PROVE TrulyMatches(o)
    BY <1>7 DEF MatchedIsOwned
  <2>1. CASE o \in Walked("matched")
    BY <2>1 DEF OwnerInv, MatchedIsOwned
  <2>2. CASE o = walk.object /\ v = "matched"
    BY <1>6, <2>2 DEF Climbed, TrulyMatches
  <2> QED
    BY <1>5, <2>1, <2>2
<1> QED
  BY <1>4, <1>8, <1>9 DEF OwnerInv

\* A walk that goes on to the owner.
LEMMA HopKeeps ==
  ASSUME OwnerInv, Climb, CacheInv', NEW q \in Owners(walk.refs), ~Matches(walk.refs),
         walk.depth # MaxOwnerDepth,
         walk' = [walk EXCEPT !.refs = q, !.depth = @ + 1], UNCHANGED verdict
  PROVE  OwnerInv'
<1>1. /\ pc = "walk" /\ walk # Null
      /\ UNCHANGED <<objects, born, served, mode, root, covered, queue, pc>>
  BY ClimbFrame
<1>2. walk \in Walk /\ walk.object \in born /\ walk.refs \in born /\ walk.depth \in 0..MaxOwnerDepth
  BY <1>1 DEF OwnerInv, CommandInv, Walk
<1>3. /\ Owners(walk.refs) = {q} /\ q \in born
  BY <1>2, OneOwner DEF OwnerInv
<1>4. walk' \in Walk /\ walk'.object = walk.object /\ walk'.refs = q
  <2>1. walk.depth + 1 \in 0..MaxOwnerDepth
    BY <1>2, KliAssumption
  <2>2. walk' = [walk EXCEPT !.refs = q, !.depth = walk.depth + 1]
    BY <1>2 DEF Walk
  <2> QED
    BY <1>2, <1>3, <2>1, <2>2 DEF Walk
<1>5. BornInv' /\ CommandInv'
  BY <1>1, <1>4 DEF OwnerInv, BornInv, CommandInv, Walk
<1>6. PICK S \in SUBSET born : walk.refs \in S /\ Climbed(S, walk.object, {walk.refs})
  BY <1>1 DEF OwnerInv, WalkInv
<1>7. q \in {walk.object} \cup Ancestors(walk.object)
  <2>1. Owners(walk.object) \subseteq Ancestors(walk.object)
        /\ \A p \in Ancestors(walk.object) : Owners(p) \subseteq Ancestors(walk.object)
    BY <1>2, OwnersNow, AncestorsClosed
  <2> QED
    BY <1>6, <2>1 DEF Climbed
<1>8. Climbed(S \cup {q}, walk.object, {q})
  <2>1. ASSUME NEW p \in (S \cup {q}) \ {q}
        PROVE  ~Matches(p) /\ (Owners(p) \subseteq S \cup {q} \/ ~(Owners(p) \subseteq objects))
    <3>1. CASE p = walk.refs
      BY <1>3, <3>1
    <3>2. CASE p # walk.refs
      BY <1>6, <2>1, <3>2 DEF Climbed
    <3> QED
      BY <3>1, <3>2
  <2> QED
    BY <1>6, <1>7, <2>1 DEF Climbed
<1>9. /\ \A T, o, pending : Climbed(T, o, pending)' <=> Climbed(T, o, pending)
      /\ \A o : TrulyMatches(o)' <=> TrulyMatches(o)
  BY <1>1, OwnersNow DEF Climbed, TrulyMatches, Matches
<1>10. WalkInv'
  <2>1. PICK o, T : o = walk.object /\ T = S \cup {q} /\ T \in SUBSET born
    BY <1>3
  <2>2. Climbed(T, o, {q})'
    BY <1>8, <1>9, <2>1
  <2>3. Climbed(T, walk.object, {walk.refs})'
    BY <1>4, <2>1, <2>2, OwnersNow DEF Climbed
  <2> QED
    BY <1>1, <1>4, <2>1, <2>3 DEF WalkInv
<1>11. EndedInv' /\ MatchedIsOwned'
  <2>1. \A v : Walked(v)' = Walked(v)
    BY <1>1 DEF Walked
  <2> QED
    BY <1>1, <1>9, <2>1 DEF OwnerInv, EndedInv, MatchedIsOwned
<1> QED
  BY <1>5, <1>10, <1>11 DEF OwnerInv

\* The objects listed are those listed before.
LEMMA SeenStays ==
  ASSUME OwnerInv, Climb,
         \/ walk' = Null /\ \E v : verdict' = Set(verdict, walk.object.uid, v)
         \/ walk'.object = walk.object /\ verdict' = verdict
  PROVE  Seen' \subseteq Seen
<1>1. walk # Null /\ UNCHANGED <<born, queue>>
  BY ClimbFrame
<1>2. walk.object \in born
  BY <1>1 DEF OwnerInv, CommandInv, Walk
<1>3. \A o \in born : o.uid \in DOMAIN verdict' => o.uid \in DOMAIN verdict \/ o = walk.object
  <2>1. ASSUME NEW v, verdict' = Set(verdict, walk.object.uid, v)
        PROVE  DOMAIN verdict' = DOMAIN verdict \cup {walk.object.uid}
    BY <2>1 DEF Set
  <2> QED
    BY <1>2, <2>1 DEF OwnerInv, BornInv
<1> QED
  BY <1>1, <1>3 DEF Seen

\* One hop of an owner walk.
LEMMA ClimbKeeps ==
  ASSUME OwnerInv, Climb
  PROVE  OwnerInv'
<1> DEFINE controller == walk.refs.controller
<1>1. /\ pc = "walk" /\ walk # Null /\ UNCHANGED <<objects, born>>
  BY ClimbFrame
<1>2. walk \in Walk /\ walk.object \in born /\ walk.refs \in born
  BY <1>1 DEF OwnerInv, CommandInv, Walk
<1>3. ASSUME NEW v, EndWalk(v), UNCHANGED <<lists, named>>,
             v = "matched" => Matches(walk.refs),
             v = "ended" => ~Matches(walk.refs) /\ controller = Null
      PROVE  OwnerInv'
  <2>1. Seen' \subseteq Seen
    BY <1>3, SeenStays DEF EndWalk
  <2>2. CacheInv'
    BY <1>1, <1>3, <2>1, CachesStay
  <2>3. v = "ended" => Owners(walk.refs) = {}
    BY <1>3 DEF Owners
  <2> QED
    BY <1>3, <2>2, <2>3, EndKeeps
<1>4. ASSUME ~Matches(walk.refs), controller # Null, walk.depth # MaxOwnerDepth,
             NEW read, NEW objs, Complete(read, objs), At(controller.slot) \subseteq objs,
             GoOn(read, controller),
             \/ lists' = lists
             \/ \E kind : \E list \in OwnerList(kind) : lists' = Set(lists, kind, list),
             \/ named' = named
             \/ \E slot : \E one \in NamedOwner(slot) : named' = Set(named, slot, one)
      PROVE  OwnerInv'
  <2> DEFINE owners == {o \in read.objs : SameObject(o, controller)}
  <2>1. CASE read.answer # "ok" /\ EndWalk("failed")
    <3>1. Seen' \subseteq Seen
      BY <2>1, SeenStays DEF EndWalk
    <3>2. CacheInv'
      BY <1>1, <1>4, <3>1, CachesStay
    <3> QED
      BY <2>1, <3>2, EndKeeps
  <2>2. CASE read.answer = "ok" /\ owners = {} /\ EndWalk("ended")
    <3>1. Seen' \subseteq Seen
      BY <2>2, SeenStays DEF EndWalk
    <3>2. CacheInv'
      BY <1>1, <1>4, <3>1, CachesStay
    <3>3. ASSUME NEW q \in Owners(walk.refs), q \in objects PROVE FALSE
      <4>1. controller = Ref(q) /\ q \in born
        BY <1>2, <3>3, OneOwner DEF OwnerInv
      <4>2. q \in At(controller.slot) /\ SameObject(q, controller)
        BY <3>3, <4>1 DEF At, Ref, SameObject
      <4>3. q \in objs \ read.objs
        BY <1>4, <2>2, <4>2
      <4>4. walk.object \in Seen
        BY <1>1, <1>2 DEF Seen
      <4>5. q \notin Ancestors(walk.object)
        BY <1>4, <2>2, <4>3, <4>4 DEF Complete
      <4>6. walk.refs \in {walk.object} \cup Ancestors(walk.object)
        BY <1>1 DEF OwnerInv, WalkInv, Climbed
      <4>7. Owners(walk.refs) \subseteq Ancestors(walk.object)
        BY <1>2, <4>6, OwnersNow, AncestorsClosed
      <4> QED
        BY <3>3, <4>5, <4>7
    <3> QED
      BY <1>4, <2>2, <3>2, <3>3, EndKeeps
  <2>3. CASE /\ read.answer = "ok" /\ owners # {}
             /\ walk' = [walk EXCEPT !.refs = CHOOSE o \in owners : TRUE, !.depth = @ + 1]
             /\ UNCHANGED verdict
    <3>1. PICK q \in owners : q = (CHOOSE o \in owners : TRUE)
      BY <2>3
    <3>2. q \in Owners(walk.refs)
      BY <1>4, <3>1 DEF Complete, Owners, SameObject
    <3>3. walk' = [walk EXCEPT !.refs = q, !.depth = @ + 1]
      BY <2>3, <3>1
    <3>4. Seen' \subseteq Seen
      BY <1>2, <2>3, <3>3, SeenStays DEF Walk
    <3>5. CacheInv'
      BY <1>1, <1>4, <3>4, CachesStay
    <3> QED
      BY <1>4, <2>3, <3>2, <3>3, <3>5, HopKeeps
  <2> QED
    BY <1>4, <2>1, <2>2, <2>3 DEF GoOn
<1>5. CASE Matches(walk.refs) /\ EndWalk("matched") /\ UNCHANGED <<lists, named>>
  BY <1>3, <1>5
<1>6. CASE ~Matches(walk.refs) /\ controller = Null /\ EndWalk("ended") /\ UNCHANGED <<lists, named>>
  BY <1>3, <1>6
<1>7. CASE EndWalk("failed") /\ UNCHANGED <<lists, named>>
  BY <1>3, <1>7
<1>8. ASSUME ~Matches(walk.refs), controller # Null, walk.depth # MaxOwnerDepth,
             NEW list \in OwnerList(controller.slot.kind),
             lists' = Set(lists, controller.slot.kind, list),
             GoOn(list, controller), UNCHANGED named
      PROVE  OwnerInv'
  <2>1. Complete(list, OfKind(controller.slot.kind))
    BY ListIsComplete
  <2>2. At(controller.slot) \subseteq OfKind(controller.slot.kind)
    BY DEF At, OfKind
  <2> QED
    BY <1>4, <1>8, <2>1, <2>2
<1>9. ASSUME ~Matches(walk.refs), controller # Null, walk.depth # MaxOwnerDepth,
             NEW list \in OwnerList(controller.slot.kind),
             lists' = Set(lists, controller.slot.kind, list),
             NEW one \in NamedOwner(controller.slot),
             named' = Set(named, controller.slot, one), GoOn(one, controller)
      PROVE  OwnerInv'
  <2>1. Complete(one, At(controller.slot))
    BY NamedIsComplete
  <2> QED
    BY <1>4, <1>9, <2>1
<1> QED
  BY <1>5, <1>6, <1>7, <1>8, <1>9 DEF Climb, GetOwner

\* Finish changes nothing that is known.
LEMMA FinishKeeps ==
  ASSUME OwnerInv, UNCHANGED vars \/ Finish
  PROVE  OwnerInv'
<1>1. /\ UNCHANGED <<objects, born, served, mode, root, covered, queue, walk, lists, named, verdict>>
      /\ pc' = pc \/ (pc' = "done" /\ pc = "walk")
  <2>1. CASE UNCHANGED vars
    BY <2>1 DEF vars, clusterVars, fixedVars, commandVars
  <2>2. CASE Finish
    BY <2>2 DEF Finish, clusterVars, fixedVars
  <2> QED
    BY <2>1, <2>2
<1>2. BornInv' /\ CommandInv'
  BY <1>1 DEF OwnerInv, BornInv, CommandInv, Walk
<1>3. CacheInv'
  BY <1>1, CachesStay DEF Seen
<1>4. WalkInv' /\ EndedInv' /\ MatchedIsOwned'
  BY <1>1, OwnersNow DEF OwnerInv, WalkInv, EndedInv, MatchedIsOwned, Climbed, Walked, TrulyMatches, Matches
<1> QED
  BY <1>2, <1>3, <1>4 DEF OwnerInv

\* Every step keeps it.
LEMMA NextOwnerInv == OwnerInv /\ [Next]_vars => OwnerInv'
<1> SUFFICES ASSUME OwnerInv, [Next]_vars PROVE OwnerInv'
  OBVIOUS
<1>1. CASE ClusterStep
  BY <1>1, ClusterKeeps
<1>2. CASE Load \/ Discover \/ DiscoverKinds \/ LookupType \/ GetRoot \/ ListKind \/ NothingToList
  BY <1>2, ListingKeeps
<1>3. CASE StartWalk
  BY <1>3, StartKeeps
<1>4. CASE Climb
  BY <1>4, ClimbKeeps
<1>5. CASE UNCHANGED vars \/ Finish
  BY <1>5, FinishKeeps
<1> QED
  BY <1>1, <1>2, <1>3, <1>4, <1>5 DEF Next

\* The run starts in a cluster with nothing read.
LEMMA InitOwnerInv == Init => OwnerInv
<1> SUFFICES ASSUME Init PROVE OwnerInv
  OBVIOUS
<1>1. /\ objects \in Forests /\ born = objects /\ walk = Null /\ queue = <<>> /\ pc = "load"
      /\ DOMAIN lists = {} /\ DOMAIN named = {} /\ DOMAIN verdict = {}
      /\ \E cluster \in Clusters : served = cluster.served
  BY DEF Init
<1>2. BornInv
  BY <1>1, ClusterAssumption DEF BornInv
<1>3. CommandInv
  BY <1>1 DEF CommandInv
<1>4. CacheInv /\ WalkInv /\ EndedInv /\ MatchedIsOwned
  BY <1>1 DEF CacheInv, WalkInv, EndedInv, MatchedIsOwned, Walked
<1> QED
  BY <1>2, <1>3, <1>4 DEF OwnerInv

\* OwnerInv always holds.
LEMMA OwnerInvAlways == Spec => []OwnerInv
BY InitOwnerInv, NextOwnerInv, PTL DEF Spec

\* An object is hidden, or a Pod counted, only because of one of its true owners,
\* even while owners are replaced by others of the same name.
THEOREM KliMatchedIsOwned == Spec => []MatchedIsOwned
<1>1. OwnerInv => MatchedIsOwned
  BY DEF OwnerInv
<1> QED
  BY <1>1, OwnerInvAlways, PTL

\* A walk that ends without a match and without a warning is right, unless one of
\* the owners has been deleted meanwhile.
THEOREM KliEndedIsTop == Spec => []EndedIsTop
<1>1. OwnerInv => EndedIsTop
  <2> SUFFICES ASSUME OwnerInv, NEW o \in Walked("ended"), TrulyMatches(o), Ancestors(o) \subseteq objects
               PROVE  FALSE
    BY DEF EndedIsTop
  <2>1. o \in born
    BY DEF Walked
  <2>2. PICK S \in SUBSET born : Climbed(S, o, {})
    BY DEF OwnerInv, EndedInv
  <2>3. \A p \in S : Owners(p) \subseteq objects
    <3>1. \A p \in {o} \cup Ancestors(o) : Owners(p) \subseteq Ancestors(o)
      BY <2>1, OwnersNow, AncestorsClosed
    <3> QED
      BY <2>2, <3>1 DEF Climbed
  <2>4. o \in S /\ \A p \in S : ~Matches(p) /\ Owners(p) \subseteq S
    BY <2>2, <2>3 DEF Climbed
  <2>5. Ancestors(o) \subseteq S
    BY <2>1, <2>4, OwnersNow, AncestorsLeast
  <2> QED
    BY <2>4, <2>5 DEF TrulyMatches
<1> QED
  BY <1>1, OwnerInvAlways, PTL

-------------------------------------------------------------------------------
(* Siblings *)

\* Every nonempty set of naturals has a least element.
LEMMA LeastNat ==
  ASSUME NEW T \in SUBSET Nat, T # {}
  PROVE  \E n \in T : \A m \in T : n <= m
<1> DEFINE R == OpToRel(<, Nat)
<1>1. IsWellFoundedOn(R, Nat)
  BY NatLessThanWellFounded, Zenon
<1>2. PICK n \in T : \A m \in T : ~(<<m, n>> \in R)
  <2> HIDE DEF R
  <2> QED
    BY <1>1, WFMin, Zenon
<1>3. \A m \in T : ~(m < n)
  BY <1>2 DEF OpToRel
<1> QED
  BY <1>3

\* Neither the definitions nor the mapper change during the walks.
LEMMA JudgementStays ==
  ASSUME UNCHANGED <<mode, root, covered, mapper>>
  PROVE  \A p, depth : Matches(p)' = Matches(p) /\ Reads(p, depth)' = Reads(p, depth)
BY DEF Matches, Reads

\* What a cache holds it keeps.
LEMMA CachesGrow ==
  ASSUME Climb
  PROVE  \A ref : Cached(ref) => Cached(ref)' /\ ReadOf(ref)' = ReadOf(ref)
<1>1. \A kind \in DOMAIN lists : kind \in DOMAIN lists' /\ lists'[kind] = lists[kind]
  <2>1. ASSUME NEW k, NEW list \in OwnerList(k), lists' = Set(lists, k, list)
        PROVE  \A kind \in DOMAIN lists : kind \in DOMAIN lists' /\ lists'[kind] = lists[kind]
    <3>1. k \in DOMAIN lists => list = lists[k]
      BY DEF OwnerList
    <3> QED
      BY <2>1, <3>1 DEF Set
  <2>2. lists' = lists \/ \E k : \E list \in OwnerList(k) : lists' = Set(lists, k, list)
    BY DEF Climb, GetOwner
  <2> QED
    BY <2>1, <2>2
<1>2. \A slot \in DOMAIN named : slot \in DOMAIN named' /\ named'[slot] = named[slot]
  <2>1. ASSUME NEW k, NEW one \in NamedOwner(k), named' = Set(named, k, one)
        PROVE  \A slot \in DOMAIN named : slot \in DOMAIN named' /\ named'[slot] = named[slot]
    <3>1. k \in DOMAIN named => one = named[k]
      BY DEF NamedOwner
    <3> QED
      BY <2>1, <3>1 DEF Set
  <2>2. named' = named \/ \E k : \E one \in NamedOwner(k) : named' = Set(named, k, one)
    BY DEF Climb, GetOwner
  <2> QED
    BY <2>1, <2>2
<1> QED
  BY <1>1, <1>2 DEF Cached, ReadOf

\* So what was judged from the caches would be judged alike now.
LEMMA KnownStays ==
  ASSUME Climb
  PROVE  \A p, depth : Known(p, depth) =>
           /\ Known(p, depth)' /\ Judged(p, depth)' = Judged(p, depth)
           /\ Judged(p, depth) = "climbs" => Up(p)' = Up(p)
<1>1. \A p, depth : Matches(p)' = Matches(p) /\ Reads(p, depth)' = Reads(p, depth)
  BY ClimbFrame, JudgementStays
<1> TAKE p, depth
<1> HAVE Known(p, depth)
<1>2. CASE Reads(p, depth)
  <2>1. Cached(p.controller)' /\ ReadOf(p.controller)' = ReadOf(p.controller)
    BY <1>2, CachesGrow DEF Known
  <2>2. FoundIn(ReadOf(p.controller), p.controller)' = FoundIn(ReadOf(p.controller), p.controller)
    BY <2>1 DEF FoundIn, SameObject
  <2> QED
    BY <1>1, <1>2, <2>1, <2>2 DEF Known, Judged, Up
<1>3. CASE ~Reads(p, depth)
  <2>1. Judged(p, depth)' = Judged(p, depth) /\ Judged(p, depth) # "climbs"
    BY <1>1, <1>3 DEF Judged
  <2> QED
    BY <1>1, <1>3, <2>1 DEF Known
<1> QED
  BY <1>2, <1>3

\* A hop of a walk does what the caches then say.
LEMMA ClimbAsCached ==
  ASSUME OwnerInv, Climb, NEW r, NEW d, r = walk.refs, d = walk.depth
  PROVE  /\ Known(r, d)'
         /\ \/ \E v : EndWalk(v) /\ v # "climbs" /\ v = Judged(r, d)'
            \/ \E q : /\ walk' = [walk EXCEPT !.refs = q, !.depth = d + 1]
                      /\ UNCHANGED verdict
                      /\ Judged(r, d)' = "climbs" /\ q = Up(r)'
<1> DEFINE c == r.controller
<1>0. /\ \A p, depth : Matches(p)' = Matches(p) /\ Reads(p, depth)' = Reads(p, depth)
      /\ walk # Null /\ mapper' = mapper
  BY ClimbFrame, JudgementStays
<1>1. CASE Matches(r) /\ EndWalk("matched")
  BY <1>0, <1>1 DEF Known, Judged, Reads
<1>2. CASE ~Matches(r) /\ c = Null /\ EndWalk("ended")
  BY <1>0, <1>2 DEF Known, Judged, Reads
<1>3. CASE /\ ~Matches(r) /\ c # Null /\ EndWalk("failed")
           /\ d = MaxOwnerDepth \/ mapper[c.slot.kind] = {}
  BY <1>0, <1>3 DEF Known, Judged, Reads
<1>4. ASSUME ~Matches(r), c # Null, d # MaxOwnerDepth, mapper[c.slot.kind] # {},
             NEW read, GoOn(read, c), Cached(c)', ReadOf(c)' = read
      PROVE  /\ Known(r, d)'
             /\ \/ \E v : EndWalk(v) /\ v # "climbs" /\ v = Judged(r, d)'
                \/ \E q : /\ walk' = [walk EXCEPT !.refs = q, !.depth = d + 1]
                          /\ UNCHANGED verdict
                          /\ Judged(r, d)' = "climbs" /\ q = Up(r)'
  <2>1. Reads(r, d)' /\ Known(r, d)' /\ ~Matches(r)'
    BY <1>0, <1>4 DEF Reads, Known
  <2>2. FoundIn(ReadOf(c), c)' = FoundIn(read, c)
    BY <1>4 DEF FoundIn, SameObject
  <2>3. CASE read.answer # "ok" /\ EndWalk("failed")
    BY <1>4, <2>1, <2>3 DEF Judged
  <2>4. CASE read.answer = "ok" /\ FoundIn(read, c) = {} /\ EndWalk("ended")
    BY <1>4, <2>1, <2>2, <2>4 DEF Judged
  <2>5. CASE /\ read.answer = "ok" /\ FoundIn(read, c) # {}
             /\ walk' = [walk EXCEPT !.refs = CHOOSE o \in FoundIn(read, c) : TRUE, !.depth = @ + 1]
             /\ UNCHANGED verdict
    <3>1. Judged(r, d)' = "climbs"
      BY <1>4, <2>1, <2>2, <2>5 DEF Judged
    <3>2. Up(r)' = (CHOOSE o \in FoundIn(read, c) : TRUE)
      BY <2>2 DEF Up
    <3>3. walk' = [walk EXCEPT !.refs = CHOOSE o \in FoundIn(read, c) : TRUE, !.depth = d + 1]
      BY <1>0, <2>5 DEF OwnerInv, CommandInv, Walk
    <3> QED
      BY <2>1, <2>5, <3>1, <3>2, <3>3
  <2> QED
    BY <1>4, <2>3, <2>4, <2>5 DEF GoOn, FoundIn
<1>5. ASSUME ~Matches(r), c # Null, d # MaxOwnerDepth, mapper[c.slot.kind] # {},
             NEW list \in OwnerList(c.slot.kind), lists' = Set(lists, c.slot.kind, list),
             list.answer # "forbidden", GoOn(list, c)
      PROVE  Cached(c)' /\ ReadOf(c)' = list
  BY <1>5 DEF Cached, ReadOf, Set
<1>6. ASSUME ~Matches(r), c # Null, d # MaxOwnerDepth, mapper[c.slot.kind] # {},
             NEW list \in OwnerList(c.slot.kind), lists' = Set(lists, c.slot.kind, list),
             list.answer = "forbidden",
             NEW one \in NamedOwner(c.slot), named' = Set(named, c.slot, one), GoOn(one, c)
      PROVE  Cached(c)' /\ ReadOf(c)' = one
  BY <1>6 DEF Cached, ReadOf, Set
<1>7. CASE ~Matches(r) /\ c # Null /\ d # MaxOwnerDepth /\ mapper[c.slot.kind] # {} /\ GetOwner(c)
  <2>1. CASE \E list \in OwnerList(c.slot.kind) :
               /\ lists' = Set(lists, c.slot.kind, list)
               /\ list.answer # "forbidden" /\ GoOn(list, c)
    BY <1>4, <1>5, <1>7, <2>1
  <2>2. CASE \E list \in OwnerList(c.slot.kind), one \in NamedOwner(c.slot) :
               /\ lists' = Set(lists, c.slot.kind, list) /\ list.answer = "forbidden"
               /\ named' = Set(named, c.slot, one) /\ GoOn(one, c)
    BY <1>4, <1>6, <1>7, <2>2
  <2> QED
    BY <1>7, <2>1, <2>2 DEF GetOwner
<1> QED
  BY <1>1, <1>2, <1>3, <1>7 DEF Climb, GetOwner

\* A trail stays a trail.
LEMMA TrailStays ==
  ASSUME Climb, NEW n \in Nat, NEW f, Trail(f, n)
  PROVE  Trail(f, n)'
<1>1. born' = born
  BY ClimbFrame
<1>2. ASSUME NEW i \in 0..(n - 1)
      PROVE  (Known(f[i], i) /\ Judged(f[i], i) = "climbs" /\ f[i + 1] = Up(f[i]))'
  <2>1. PICK x : x = f[i]
    OBVIOUS
  <2>2. Known(x, i) /\ Judged(x, i) = "climbs" /\ f[i + 1] = Up(x)
    BY <2>1 DEF Trail
  <2>3. Known(x, i)' /\ Judged(x, i)' = "climbs" /\ Up(x)' = Up(x)
    BY <2>2, KnownStays
  <2> QED
    BY <2>1, <2>2, <2>3
<1> QED
  BY <1>1, <1>2 DEF Trail

\* Where a trail climbs after a step it goes on.
LEMMA TrailGrows ==
  ASSUME NEW n \in Nat, NEW f, Trail(f, n)', NEW q \in born',
         Known(f[n], n)', Judged(f[n], n)' = "climbs", q = Up(f[n])'
  PROVE  Trail([i \in 0..(n + 1) |-> IF i <= n THEN f[i] ELSE q], n + 1)'
<1> DEFINE g == [i \in 0..(n + 1) |-> IF i <= n THEN f[i] ELSE q]
<1>1. /\ g \in [0..(n + 1) -> born'] /\ g[n + 1] = q
      /\ \A i \in 0..n : g[i] = f[i]
  BY DEF Trail
<1> HIDE DEF g
<1>2. ASSUME NEW i \in 0..((n + 1) - 1)
      PROVE  (Known(g[i], i) /\ Judged(g[i], i) = "climbs" /\ g[i + 1] = Up(g[i]))'
  <2>1. CASE i = n
    BY <1>1, <2>1
  <2>2. CASE i # n
    <3>1. i \in 0..(n - 1) /\ i + 1 \in 0..n
      BY <2>2
    <3> QED
      BY <1>1, <3>1 DEF Trail
  <2> QED
    BY <2>1, <2>2
<1>3. Trail(g, n + 1)'
  BY <1>1, <1>2 DEF Trail
<1> QED
  BY <1>3 DEF g

\* A change of the cluster changes no cache.
LEMMA ClusterJudged ==
  ASSUME OwnerInv, JudgedInv, ClusterStep
  PROVE  JudgedInv'
<1>1. born \subseteq born' /\ \A o \in born' \ born : \A p \in born : o.uid # p.uid
  BY ClusterFrame DEF OwnerInv
<1>2. UNCHANGED <<mode, root, covered, mapper, walk, lists, named, verdict>>
  BY DEF ClusterStep, fixedVars, commandVars
<1>3. \A p, d : /\ Known(p, d)' = Known(p, d) /\ Judged(p, d)' = Judged(p, d) /\ Up(p)' = Up(p)
  BY <1>2 DEF Known, Judged, Up, Cached, ReadOf, FoundIn, Reads, Matches
<1>4. \A n \in Nat : \A f : Trail(f, n) => Trail(f, n)'
  BY <1>1, <1>3 DEF Trail
<1>5. ASSUME walk' # Null
      PROVE  (\E f \in [0..walk.depth -> born] :
                f[0] = walk.object /\ f[walk.depth] = walk.refs /\ Trail(f, walk.depth))'
  <2>1. PICK f \in [0..walk.depth -> born] :
          f[0] = walk.object /\ f[walk.depth] = walk.refs /\ Trail(f, walk.depth)
    BY <1>2, <1>5 DEF JudgedInv
  <2>2. walk.depth \in Nat
    BY <1>2, <1>5, KliAssumption DEF OwnerInv, CommandInv, Walk
  <2>3. PICK d \in Nat : d = walk.depth
    BY <2>2
  <2>4. Trail(f, d)'
    BY <1>4, <2>1, <2>3
  <2>5. f \in [0..d -> born']
    BY <1>1, <2>1, <2>3
  <2> QED
    BY <1>2, <2>1, <2>3, <2>4, <2>5
<1>6. ASSUME NEW o \in born', o.uid \in DOMAIN verdict'
      PROVE  (\E n \in 0..MaxOwnerDepth : \E f \in [0..n -> born] :
                /\ f[0] = o /\ Trail(f, n) /\ Known(f[n], n)
                /\ verdict[o.uid] = Judged(f[n], n) /\ verdict[o.uid] # "climbs")'
  <2>1. o \in born
    BY <1>1, <1>2, <1>6 DEF OwnerInv, CommandInv
  <2>2. PICK n \in 0..MaxOwnerDepth : \E f \in [0..n -> born] :
          /\ f[0] = o /\ Trail(f, n) /\ Known(f[n], n)
          /\ verdict[o.uid] = Judged(f[n], n) /\ verdict[o.uid] # "climbs"
    BY <1>2, <1>6, <2>1 DEF JudgedInv
  <2>f. PICK f \in [0..n -> born] :
          /\ f[0] = o /\ Trail(f, n) /\ Known(f[n], n)
          /\ verdict[o.uid] = Judged(f[n], n) /\ verdict[o.uid] # "climbs"
    BY <2>2
  <2>3. Trail(f, n)'
    BY <1>4, <2>f
  <2>4. PICK x : x = f[n]
    OBVIOUS
  <2>5. Known(x, n)' /\ Judged(x, n)' = Judged(x, n)
    BY <1>3, <2>f, <2>4
  <2>6. f \in [0..n -> born']
    BY <1>1
  <2> QED
    BY <1>2, <2>f, <2>3, <2>4, <2>5, <2>6
<1> QED
  BY <1>5, <1>6 DEF JudgedInv

\* Nor does the start of a walk, whose trail is the object itself.
LEMMA StartJudged ==
  ASSUME OwnerInv, JudgedInv, StartWalk
  PROVE  JudgedInv'
<1>1. /\ walk' = [object |-> Head(queue), refs |-> Head(queue), depth |-> 0]
      /\ UNCHANGED <<born, mode, root, covered, mapper, lists, named, verdict>>
      /\ queue # <<>>
  BY DEF StartWalk, clusterVars, fixedVars
<1>2. PICK h \in born : h = Head(queue)
  BY <1>1 DEF OwnerInv, CommandInv
<1>3. \A p, d : /\ Known(p, d)' = Known(p, d) /\ Judged(p, d)' = Judged(p, d) /\ Up(p)' = Up(p)
  BY <1>1 DEF Known, Judged, Up, Cached, ReadOf, FoundIn, Reads, Matches
<1>4. \A n \in Nat : \A f : Trail(f, n) => Trail(f, n)'
  BY <1>1, <1>3 DEF Trail
<1>5. (\E f \in [0..walk.depth -> born] :
         f[0] = walk.object /\ f[walk.depth] = walk.refs /\ Trail(f, walk.depth))'
  <2> DEFINE f == [i \in 0..0 |-> h]
  <2>1. f \in [0..0 -> born] /\ f[0] = h
    BY <1>2
  <2>2. Trail(f, 0)'
    BY <1>1, <2>1 DEF Trail
  <2>3. walk'.object = h /\ walk'.refs = h /\ walk'.depth = 0 /\ born' = born
    BY <1>1, <1>2
  <2> HIDE DEF f
  <2> QED
    BY <2>1, <2>2, <2>3
<1>6. ASSUME NEW o \in born, o.uid \in DOMAIN verdict
      PROVE  (\E n \in 0..MaxOwnerDepth : \E f \in [0..n -> born] :
                /\ f[0] = o /\ Trail(f, n) /\ Known(f[n], n)
                /\ verdict[o.uid] = Judged(f[n], n) /\ verdict[o.uid] # "climbs")'
  <2>1. PICK n \in 0..MaxOwnerDepth : \E f \in [0..n -> born] :
          /\ f[0] = o /\ Trail(f, n) /\ Known(f[n], n)
          /\ verdict[o.uid] = Judged(f[n], n) /\ verdict[o.uid] # "climbs"
    BY <1>6 DEF JudgedInv
  <2>f. PICK f \in [0..n -> born] :
          /\ f[0] = o /\ Trail(f, n) /\ Known(f[n], n)
          /\ verdict[o.uid] = Judged(f[n], n) /\ verdict[o.uid] # "climbs"
    BY <2>1
  <2>2. Trail(f, n)'
    BY <1>4, <2>f
  <2>3. PICK x : x = f[n]
    OBVIOUS
  <2>4. Known(x, n)' /\ Judged(x, n)' = Judged(x, n)
    BY <1>3, <2>f, <2>3
  <2> QED
    BY <1>1, <2>f, <2>2, <2>3, <2>4
<1> QED
  BY <1>1, <1>5, <1>6 DEF JudgedInv

\* A hop of a walk extends its trail, or ends the walk with what the trail says.
LEMMA ClimbJudged ==
  ASSUME OwnerInv, JudgedInv, Climb
  PROVE  JudgedInv'
<1>1. walk # Null /\ born' = born
  BY ClimbFrame
<1>2. PICK r \in born, o \in born, d \in 0..MaxOwnerDepth : r = walk.refs /\ o = walk.object /\ d = walk.depth
  BY <1>1 DEF OwnerInv, CommandInv, Walk
<1>3. d \in Nat
  BY <1>2, KliAssumption
<1>4. PICK f \in [0..d -> born] : f[0] = o /\ f[d] = r /\ Trail(f, d)
  BY <1>1, <1>2 DEF JudgedInv
<1>5. Trail(f, d)' /\ Known(r, d)'
  BY <1>2, <1>3, <1>4, TrailStays, ClimbAsCached
<1>6. ASSUME NEW p \in born, p.uid \in DOMAIN verdict, verdict'[p.uid] = verdict[p.uid]
      PROVE  (\E n \in 0..MaxOwnerDepth : \E g \in [0..n -> born] :
                /\ g[0] = p /\ Trail(g, n) /\ Known(g[n], n)
                /\ verdict[p.uid] = Judged(g[n], n) /\ verdict[p.uid] # "climbs")'
  <2>1. PICK n \in 0..MaxOwnerDepth : \E g \in [0..n -> born] :
          /\ g[0] = p /\ Trail(g, n) /\ Known(g[n], n)
          /\ verdict[p.uid] = Judged(g[n], n) /\ verdict[p.uid] # "climbs"
    BY <1>6 DEF JudgedInv
  <2>f. PICK g \in [0..n -> born] :
          /\ g[0] = p /\ Trail(g, n) /\ Known(g[n], n)
          /\ verdict[p.uid] = Judged(g[n], n) /\ verdict[p.uid] # "climbs"
    BY <2>1
  <2>2. n \in Nat
    BY KliAssumption
  <2>3. Trail(g, n)'
    BY <2>f, <2>2, TrailStays
  <2>4. PICK x : x = g[n]
    OBVIOUS
  <2>5. Known(x, n)' /\ Judged(x, n)' = Judged(x, n)
    BY <2>f, <2>4, KnownStays
  <2> QED
    BY <1>1, <1>6, <2>f, <2>3, <2>4, <2>5
<1>7. CASE \E v : EndWalk(v) /\ v # "climbs" /\ v = Judged(r, d)'
  <2>1. PICK v : EndWalk(v) /\ v # "climbs" /\ v = Judged(r, d)'
    BY <1>7
  <2>2. /\ walk' = Null
        /\ DOMAIN verdict' = DOMAIN verdict \cup {o.uid} /\ verdict'[o.uid] = v
        /\ \A uid \in DOMAIN verdict : uid # o.uid => verdict'[uid] = verdict[uid]
    BY <1>2, <2>1 DEF EndWalk, Set
  <2>3. ASSUME NEW p \in born, p.uid \in DOMAIN verdict'
        PROVE  (\E n \in 0..MaxOwnerDepth : \E g \in [0..n -> born] :
                  /\ g[0] = p /\ Trail(g, n) /\ Known(g[n], n)
                  /\ verdict[p.uid] = Judged(g[n], n) /\ verdict[p.uid] # "climbs")'
    <3>1. CASE p.uid = o.uid
      <4>1. p = o
        BY <3>1 DEF OwnerInv, BornInv
      <4>2. f[0] = p /\ f[d] = r /\ verdict'[p.uid] = Judged(r, d)' /\ verdict'[p.uid] # "climbs"
        BY <1>4, <2>1, <2>2, <4>1
      <4> QED
        BY <1>1, <1>2, <1>4, <1>5, <4>2
    <3>2. CASE p.uid # o.uid
      BY <1>6, <2>2, <2>3, <3>2
    <3> QED
      BY <3>1, <3>2
  <2> QED
    BY <1>1, <2>2, <2>3 DEF JudgedInv
<1>8. CASE \E q : /\ walk' = [walk EXCEPT !.refs = q, !.depth = d + 1] /\ UNCHANGED verdict
                  /\ Judged(r, d)' = "climbs" /\ q = Up(r)'
  <2>1. PICK q : /\ walk' = [walk EXCEPT !.refs = q, !.depth = d + 1] /\ UNCHANGED verdict
                 /\ Judged(r, d)' = "climbs" /\ q = Up(r)'
    BY <1>8
  <2>2. q \in born
    <3>1. CacheInv'
      BY NextOwnerInv DEF Next, OwnerInv
    <3>2. Cached(r.controller)' /\ FoundIn(ReadOf(r.controller), r.controller)' # {}
      BY <1>5, <2>1 DEF Judged, Known
    <3>3. ReadOf(r.controller)'.objs \subseteq born
      BY <1>1, <3>1, <3>2 DEF CacheInv, Complete, Cached, ReadOf
    <3> QED
      BY <2>1, <3>2, <3>3 DEF FoundIn, Up
  <2>3. walk'.refs = q /\ walk'.object = o /\ walk'.depth = d + 1
    BY <1>1, <1>2, <2>1 DEF OwnerInv, CommandInv, Walk
  <2>4. PICK g : g = [i \in 0..(d + 1) |-> IF i <= d THEN f[i] ELSE q]
    OBVIOUS
  <2>5. Trail([i \in 0..(d + 1) |-> IF i <= d THEN f[i] ELSE q], d + 1)'
    BY <1>1, <1>3, <1>4, <1>5, <2>1, <2>2, TrailGrows
  <2>6. g \in [0..(d + 1) -> born] /\ g[0] = o /\ g[d + 1] = q
    BY <1>3, <1>4, <2>2, <2>4
  <2>7. \A p \in born : p.uid \in DOMAIN verdict' =>
          (\E n \in 0..MaxOwnerDepth : \E h \in [0..n -> born] :
             /\ h[0] = p /\ Trail(h, n) /\ Known(h[n], n)
             /\ verdict[p.uid] = Judged(h[n], n) /\ verdict[p.uid] # "climbs")'
    BY <1>6, <2>1
  <2>8. (\E h \in [0..walk.depth -> born] :
           h[0] = walk.object /\ h[walk.depth] = walk.refs /\ Trail(h, walk.depth))'
    BY <1>1, <2>3, <2>4, <2>5, <2>6
  <2> QED
    BY <1>1, <2>7, <2>8 DEF JudgedInv
<1> QED
  BY <1>2, <1>7, <1>8, ClimbAsCached

\* Every step keeps it: nothing is judged before the walks.
LEMMA NextJudgedInv == OwnerInv /\ JudgedInv /\ [Next]_vars => JudgedInv'
<1> SUFFICES ASSUME OwnerInv, JudgedInv, [Next]_vars PROVE JudgedInv'
  OBVIOUS
<1>1. CASE Load \/ Discover \/ DiscoverKinds \/ LookupType \/ GetRoot \/ ListKind \/ NothingToList
  <2>1. pc \in {"load", "discover", "lookup", "list"} /\ UNCHANGED <<walk, verdict>>
    BY <1>1 DEF Load, Discover, DiscoverKinds, LookupType, GetRoot, ListKind, NothingToList
  <2>2. walk' = Null /\ DOMAIN verdict' = {}
    BY <2>1 DEF OwnerInv, CommandInv
  <2> QED
    BY <2>2 DEF JudgedInv
<1>2. CASE UNCHANGED vars \/ Finish
  <2>1. UNCHANGED <<born, mode, root, covered, mapper, walk, lists, named, verdict>>
    BY <1>2 DEF Finish, vars, clusterVars, fixedVars, commandVars
  <2>2. \A p, d : Known(p, d)' = Known(p, d) /\ Judged(p, d)' = Judged(p, d) /\ Up(p)' = Up(p)
    BY <2>1 DEF Known, Judged, Up, Cached, ReadOf, FoundIn, Reads, Matches
  <2>3. \A n, f : Trail(f, n)' = Trail(f, n)
    BY <2>1, <2>2 DEF Trail
  <2> QED
    BY <2>1, <2>2, <2>3 DEF JudgedInv
<1> QED
  BY <1>1, <1>2, ClusterJudged, StartJudged, ClimbJudged DEF Next

\* What is above an object depends on its controller alone.
Alike(p, q) == p = q \/ (p.controller # Null /\ p.controller = q.controller)
LEMMA AlikeJudged ==
  ASSUME mode = "all-types", NEW p, NEW q, Alike(p, q)
  PROVE  \A depth : Judged(p, depth) = Judged(q, depth) /\ Up(p) = Up(q)
BY DEF Alike, Judged, Reads, Matches, Up

\* So the trails from objects with one controller meet, and end together.
LEMMA TrailsAgree ==
  ASSUME mode = "all-types", NEW n \in Nat, NEW m \in Nat, n <= m,
         NEW f, Trail(f, n), Judged(f[n], n) # "climbs",
         NEW g, Trail(g, m), Judged(g[m], m) # "climbs",
         Alike(f[0], g[0])
  PROVE  Judged(f[n], n) = Judged(g[m], m)
<1> DEFINE Apart == {i \in 0..n : ~Alike(f[i], g[i])}
<1>1. Apart = {}
  <2> SUFFICES ASSUME Apart # {} PROVE FALSE
    OBVIOUS
  <2>1. PICK i \in Apart : \A j \in Apart : i <= j
    <3>1. Apart \in SUBSET Nat
      OBVIOUS
    <3> HIDE DEF Apart
    <3> QED
      BY <3>1, LeastNat
  <2>2. i \in 1..n /\ i - 1 \in 0..n /\ i - 1 \notin Apart
    BY <2>1
  <2>3. Alike(f[i - 1], g[i - 1])
    BY <2>2
  <2>4. f[i] = Up(f[i - 1]) /\ g[i] = Up(g[i - 1])
    <3>1. i - 1 \in 0..(n - 1) /\ i - 1 \in 0..(m - 1) /\ (i - 1) + 1 = i
      BY <2>2
    <3> QED
      BY <3>1 DEF Trail
  <2>5. Alike(f[i], g[i])
    BY <2>3, <2>4, AlikeJudged DEF Alike
  <2> QED
    BY <2>1, <2>5
<1>2. Alike(f[n], g[n])
  BY <1>1
<1>3. Judged(f[n], n) = Judged(g[n], n)
  BY <1>2, AlikeJudged
<1>4. n = m
  <2>1. n \in 0..(m - 1) => Judged(g[n], n) = "climbs"
    BY DEF Trail
  <2> QED
    BY <1>3, <2>1
<1> QED
  BY <1>3, <1>4

\* Objects with one controller are judged alike, whatever happens to the cluster
\* between their walks.
THEOREM KliSiblingsAgree == Spec => []SiblingsAgree
<1>1. Init => JudgedInv
  BY DEF Init, JudgedInv
<1>2. JudgedInv => SiblingsAgree
  <2> SUFFICES ASSUME JudgedInv, mode = "all-types",
                      NEW o \in born, o.uid \in DOMAIN verdict,
                      NEW p \in born, p.uid \in DOMAIN verdict,
                      o.controller # Null, o.controller = p.controller
               PROVE  verdict[o.uid] = verdict[p.uid]
    BY DEF SiblingsAgree
  <2>1. PICK n \in 0..MaxOwnerDepth : \E f \in [0..n -> born] :
          /\ f[0] = o /\ Trail(f, n) /\ verdict[o.uid] = Judged(f[n], n) /\ verdict[o.uid] # "climbs"
    BY DEF JudgedInv
  <2>2. PICK f \in [0..n -> born] :
          /\ f[0] = o /\ Trail(f, n) /\ verdict[o.uid] = Judged(f[n], n) /\ verdict[o.uid] # "climbs"
    BY <2>1
  <2>3. PICK m \in 0..MaxOwnerDepth : \E g \in [0..m -> born] :
          /\ g[0] = p /\ Trail(g, m) /\ verdict[p.uid] = Judged(g[m], m) /\ verdict[p.uid] # "climbs"
    BY DEF JudgedInv
  <2>4. PICK g \in [0..m -> born] :
          /\ g[0] = p /\ Trail(g, m) /\ verdict[p.uid] = Judged(g[m], m) /\ verdict[p.uid] # "climbs"
    BY <2>3
  <2>5. n \in Nat /\ m \in Nat
    BY KliAssumption
  <2>6. Alike(f[0], g[0]) /\ Alike(g[0], f[0])
    BY <2>2, <2>4 DEF Alike
  <2>7. CASE n <= m
    BY <2>2, <2>4, <2>5, <2>6, <2>7, TrailsAgree
  <2>8. CASE m <= n
    BY <2>2, <2>4, <2>5, <2>6, <2>8, TrailsAgree
  <2> QED
    BY <2>5, <2>7, <2>8
<1> QED
  BY <1>1, <1>2, OwnerInvAlways, NextJudgedInv, PTL DEF Spec

-------------------------------------------------------------------------------
(* Nothing vanishes *)

ToCome(kind) == \E i \in 1..Len(toList) : toList[i].kind = kind

\* The kinds that are to be listed and have not failed.
Asked ==
  CASE mode = "all-types" -> covered
    [] mode = "type" -> {token.kind} \ warned
    [] mode = "describe" -> {PodKind}
    [] OTHER -> {}

\* What the lists hold, from the lookup on, if the cluster holds still.
ListedInv ==
  pc \in {"list", "walk", "done"} =>
    /\ \A kind \in Asked : ToCome(kind) \/ OfKind(kind) \subseteq Seen
    /\ mode = "all-types" =>
         \A kind \in CoveredKinds(resolver) \ covered : kind \in warned \/ OfKind(kind) = {}

\* Where the run is.
StageInv ==
  /\ NamesKinds(resolver) /\ NamesKinds(kartas)
  /\ \E S : toList \in Seq(S)
  /\ pc \in {"walk", "done"} => toList = <<>>
  /\ pc \in {"list", "walk", "done"} => mode \in {"all-types", "type", "describe"}
  /\ mode = "type" =>
       pc # "walk" /\ walk = Null /\ DOMAIN verdict = {} /\ (pc = "list" => toList # <<>>)
  /\ pc = "done" => mode = "type" \/ (queue = <<>> /\ walk = Null)
  /\ \A uid \in DOMAIN verdict : verdict[uid] \in {"matched", "ended", "failed"}

StillInv ==
  /\ changes \in Nat
  /\ changes = 0 =>
       /\ objects = born
       /\ pc \notin {"load", "discover", "failed"} => mapper = Discovered
       /\ ListedInv

\* A list has every object of its set.
LEMMA SetToSeqCovers ==
  ASSUME NEW S, IsFiniteSet(S)
  PROVE  /\ SetToSeq(S) \in Seq(S)
         /\ \A x \in S : \E i \in 1..Len(SetToSeq(S)) : SetToSeq(S)[i] = x
<1> DEFINE n == Cardinality(S)
           f == SetToSeq(S)
<1>1. ExistsBijection(1..n, S) /\ n \in Nat
  BY FS_CardinalityType
<1>2. \E g \in [1..n -> S] : IsInjective(g)
  BY <1>1 DEF ExistsBijection, Bijection, Injection
<1>3. f \in [1..n -> S] /\ IsInjective(f)
  BY <1>2 DEF SetToSeq
<1>4. f \in Injection(1..n, S)
  BY <1>3 DEF Injection
<1>5. Cardinality(1..n) = n
  BY <1>1, FS_Interval
<1> HIDE DEF f
<1>6. f \in Surjection(1..n, S)
  BY <1>4, <1>5, FS_Injection
<1>7. Len(f) = n /\ f \in Seq(S)
  BY <1>1, <1>3
<1> QED
  BY <1>6, <1>7 DEF Surjection, f

\* What is loaded names kinds that are modelled.
LEMMA LoadedKinds ==
  ASSUME NamesKinds(kartas), NEW outcome
  PROVE  NamesKinds(LoadResolver(Catalog, kartas, outcome))
BY KliAssumption DEF LoadResolver, NewResolver, NamesKinds, Index, Mappable, Decodable

\* A TYPE argument resolves to a definition of its kind.
LEMMA TargetIsOfType ==
  ASSUME NEW def, def = ResolveTarget(resolver, mapper, token), def # Null
  PROVE  def \in resolver /\ Mappable(def) /\ def.gvk.kind = token.kind
<1>1. ASSUME NEW defs, OnlyOf(defs) # Null PROVE OnlyOf(defs) \in defs
  <2>1. Cardinality(defs) = 1
    BY <1>1 DEF OnlyOf
  <2>2. defs # {}
    BY <2>1, FS_EmptySet
  <2> QED
    BY <2>1, <2>2 DEF OnlyOf
<1>2. CASE ResolveVia(resolver, mapper, token) # {}
  <2>1. def \in ResolveVia(resolver, mapper, token)
    BY <1>1, <1>2 DEF ResolveTarget
  <2>2. KindFor(mapper, token) # Null /\ def \in Claimants(resolver, KindFor(mapper, token))
    BY <2>1 DEF ResolveVia
  <2>3. KindFor(mapper, token).kind = token.kind
    BY <2>2 DEF KindFor
  <2> QED
    BY <2>2, <2>3 DEF Claimants
<1>3. CASE ResolveVia(resolver, mapper, token) = {}
  <2>1. def \in MatchDefinitions(resolver, token)
    BY <1>1, <1>3 DEF ResolveTarget
  <2> QED
    BY <2>1 DEF MatchDefinitions, ByRootKind
<1> QED
  BY <1>2, <1>3

\* A walk is not Null.
LEMMA WalkIsNotNull ==
  ASSUME BornInv, NEW w \in Walk
  PROVE  w # Null
<1> DEFINE any == [slot : Slots, uid : Nat, controller : {Null} \cup [slot : Slots, uid : Nat],
                   others : SUBSET Nat]
<1>1. Cardinality(born) \in Nat
  BY FS_CardinalityType DEF BornInv
<1>2. born \subseteq any
  BY <1>1 DEF BornInv, Object
<1>3. w \in [object : any, refs : any, depth : Nat]
  BY <1>2, KliAssumption DEF Walk
<1> QED
  BY <1>3, NullAssumption

\* A hop ends the walk or goes on with it.
LEMMA HopsOn ==
  ASSUME OwnerInv, Climb
  PROVE  \/ /\ walk' = Null
            /\ \E v \in {"matched", "ended", "failed"} : verdict' = Set(verdict, walk.object.uid, v)
         \/ walk' # Null /\ walk'.object = walk.object /\ verdict' = verdict
<1>1. walk \in Walk
  BY ClimbFrame DEF OwnerInv, CommandInv
<1>2. CASE \E v \in {"matched", "ended", "failed"} : EndWalk(v)
  BY <1>2 DEF EndWalk
<1>3. ASSUME NEW read, NEW ref, read.objs \subseteq born, walk.depth # MaxOwnerDepth, GoOn(read, ref)
      PROVE  \/ \E v \in {"matched", "ended", "failed"} : EndWalk(v)
             \/ walk' # Null /\ walk'.object = walk.object /\ verdict' = verdict
  <2> DEFINE owners == {o \in read.objs : SameObject(o, ref)}
  <2>1. CASE \E v \in {"matched", "ended", "failed"} : EndWalk(v)
    BY <2>1
  <2>2. CASE /\ owners # {} /\ verdict' = verdict
             /\ walk' = [walk EXCEPT !.refs = CHOOSE o \in owners : TRUE, !.depth = @ + 1]
    <3>1. PICK q \in born : q = (CHOOSE o \in owners : TRUE)
      BY <1>3, <2>2
    <3>2. walk' = [walk EXCEPT !.refs = q, !.depth = walk.depth + 1] /\ walk.depth + 1 \in 0..MaxOwnerDepth
      BY <1>1, <1>3, <2>2, <3>1, KliAssumption DEF Walk
    <3>3. walk' \in Walk /\ walk'.object = walk.object
      BY <1>1, <3>2 DEF Walk
    <3> QED
      BY <2>2, <3>3, WalkIsNotNull DEF OwnerInv
  <2> QED
    BY <1>3, <2>1, <2>2 DEF GoOn
<1>4. CASE \E ref : walk.depth # MaxOwnerDepth /\ GetOwner(ref)
  <2>1. PICK ref : walk.depth # MaxOwnerDepth /\ GetOwner(ref)
    BY <1>4
  <2>2. /\ \A kind : \A list \in OwnerList(kind) : list.objs \subseteq born
        /\ \A slot : \A one \in NamedOwner(slot) : one.objs \subseteq born
    BY ListIsComplete, NamedIsComplete DEF Complete
  <2>3. \/ EndWalk("failed")
        \/ \E list \in OwnerList(ref.slot.kind) : GoOn(list, ref)
        \/ \E one \in NamedOwner(ref.slot) : GoOn(one, ref)
    BY <2>1 DEF GetOwner
  <2> QED
    BY <1>2, <1>3, <2>1, <2>2, <2>3
<1>5. \/ \E v \in {"matched", "ended", "failed"} : EndWalk(v)
      \/ \E ref : walk.depth # MaxOwnerDepth /\ GetOwner(ref)
  BY DEF Climb
<1> QED
  BY <1>2, <1>4, <1>5

\* An object that was listed stays listed, waiting, under way or judged.
LEMMA SeenGrows ==
  ASSUME OwnerInv, StartWalk \/ Climb
  PROVE  Seen \subseteq Seen'
<1>1. CASE StartWalk
  <2>1. /\ walk = Null /\ queue # <<>>
        /\ walk' = [object |-> Head(queue), refs |-> Head(queue), depth |-> 0]
        /\ queue' = Tail(queue) /\ UNCHANGED <<born, verdict>>
    BY <1>1 DEF StartWalk, clusterVars
  <2>2. queue \in Seq(born) /\ Head(queue) \in born /\ Head(queue) = queue[1]
        /\ \A i \in 1..Len(queue) : i = 1 \/ (i - 1 \in 1..Len(Tail(queue)) /\ Tail(queue)[i - 1] = queue[i])
    BY <2>1 DEF OwnerInv, CommandInv
  <2>3. walk' # Null /\ walk'.object = Head(queue)
    <3>1. walk' \in Walk
      BY <2>1, <2>2, KliAssumption DEF Walk
    <3> QED
      BY <2>1, <3>1, WalkIsNotNull DEF OwnerInv
  <2>4. ASSUME NEW i \in 1..Len(queue) PROVE queue[i] \in Seen'
    BY <2>1, <2>2, <2>3 DEF Seen
  <2>5. ASSUME NEW o \in born, o.uid \in DOMAIN verdict PROVE o \in Seen'
    BY <2>1, <2>5 DEF Seen
  <2> QED
    BY <2>1, <2>4, <2>5 DEF Seen
<1>2. CASE Climb
  <2>1. walk # Null /\ UNCHANGED <<born, queue>>
    BY <1>2, ClimbFrame
  <2>2. \/ walk' = Null /\ \E v : verdict' = Set(verdict, walk.object.uid, v)
        \/ /\ walk' # Null /\ walk'.object = walk.object /\ verdict' = verdict
    BY <1>2, HopsOn
  <2>4. CASE walk' = Null /\ \E v : verdict' = Set(verdict, walk.object.uid, v)
    <3>1. DOMAIN verdict' = DOMAIN verdict \cup {walk.object.uid}
      BY <2>4 DEF Set
    <3> QED
      BY <2>1, <2>4, <3>1 DEF Seen
  <2>5. CASE walk' # Null /\ walk'.object = walk.object /\ verdict' = verdict
    BY <2>1, <2>5 DEF Seen
  <2> QED
    BY <2>2, <2>4, <2>5
<1> QED
  BY <1>1, <1>2

\* Every kind that is served and covered is to be listed.
LEMMA DiscoveredToCome ==
  ASSUME NamesKinds(resolver), DiscoverKinds
  PROVE  (\E S : toList' \in Seq(S)) /\ \A kind \in covered' : ToCome(kind)'
<1> DEFINE known == {k \in CoveredKinds(resolver) : mapper[k] \cap CoveredVersions(resolver, k) # {}}
           at(k) == [kind |-> k, version |-> Preferred(mapper[k] \cap CoveredVersions(resolver, k))]
           A == {at(k) : k \in known}
           f == [k \in known |-> at(k)]
<1>1. toList' = SetToSeq(A) /\ covered' = known
  BY DEF DiscoverKinds
<1>2. known \subseteq Kinds
  BY DEF NamesKinds, CoveredKinds
<1>3. IsFiniteSet(known)
  BY <1>2, FS_Subset, KliAssumption
<1>4. f \in Surjection(known, A)
  BY Zenon DEF Surjection
<1>5. IsFiniteSet(A)
  <2> HIDE DEF f, known, A
  <2> QED
    BY <1>3, <1>4, FS_Surjection
<1>6. \A k \in known : \E x \in A : x.kind = k
  <2> TAKE k \in known
  <2>1. at(k) \in A /\ at(k).kind = k
    OBVIOUS
  <2> HIDE DEF A, at
  <2> QED
    BY <2>1
<1> HIDE DEF A, known
<1>7. toList' \in Seq(A) /\ \A x \in A : \E i \in 1..Len(toList') : toList'[i] = x
  BY <1>1, <1>5, SetToSeqCovers
<1> QED
  BY <1>1, <1>6, <1>7 DEF ToCome

\* Each step leads from its stage to the next.
LEMMA NextStageInv ==
  ASSUME OwnerInv, StageInv, [Next]_vars
  PROVE  StageInv'
<1> USE DEF StageInv
<1>0. <<>> \in Seq({}) /\ \A gvk : <<gvk>> \in Seq({gvk}) /\ <<gvk>> # <<>>
  OBVIOUS
<1>1. CASE UNCHANGED vars \/ ClusterStep
  <2>1. UNCHANGED <<fixedVars, commandVars>>
    BY <1>1 DEF ClusterStep, vars
  <2> QED
    BY <2>1 DEF fixedVars, commandVars
<1>2. CASE Load
  <2>1. /\ pc = "load" /\ pc' \in {"failed", "discover"}
        /\ UNCHANGED <<kartas, mode, toList, queue, walk, verdict>>
        /\ \E outcome : resolver' = LoadResolver(Catalog, kartas, outcome)
    BY <1>2 DEF Load, clusterVars, fixedVars
  <2>2. NamesKinds(resolver')
    BY <2>1, LoadedKinds
  <2> QED
    BY <2>1, <2>2
<1>3. CASE Discover
  BY <1>3 DEF Discover, clusterVars, fixedVars
<1>4. CASE DiscoverKinds
  <2>1. /\ pc = "lookup" /\ pc' = "list" /\ mode = "all-types"
        /\ UNCHANGED <<kartas, resolver, mode, queue, walk, verdict>>
    BY <1>4 DEF DiscoverKinds, clusterVars, fixedVars
  <2>2. \E S : toList' \in Seq(S)
    BY <1>4, DiscoveredToCome
  <2> QED
    BY <2>1, <2>2
<1>5. CASE LookupType
  <2>1. /\ pc = "lookup" /\ pc' \in {"failed", "list", "done"} /\ mode = "type"
        /\ UNCHANGED <<kartas, resolver, mode, queue, walk, verdict>>
        /\ \/ toList' = <<>> /\ pc' # "list"
           \/ \E gvk : toList' = <<gvk>> /\ pc' = "list"
    BY <1>5 DEF LookupType, clusterVars, fixedVars
  <2> QED
    BY <2>1, <1>0
<1>6. CASE GetRoot
  <2>1. /\ pc = "lookup" /\ pc' \in {"failed", "list"} /\ mode = "describe"
        /\ UNCHANGED <<kartas, resolver, mode, queue, walk, verdict>>
        /\ toList' = toList \/ \E gvk : toList' = <<gvk>>
    BY <1>6 DEF GetRoot, clusterVars, fixedVars
  <2> QED
    BY <2>1, <1>0
<1>7. CASE ListKind
  <2>1. /\ pc = "list" /\ toList # <<>>
        /\ UNCHANGED <<kartas, resolver, mode, walk, verdict>>
        /\ \/ toList' = toList /\ pc' = "failed"
           \/ /\ toList' = Tail(toList)
              /\ pc' = IF Tail(toList) = <<>> THEN (IF mode = "type" THEN "done" ELSE "walk") ELSE pc
    BY <1>7 DEF ListKind, LeaveOut, Listed, Failed, clusterVars, fixedVars
  <2>2. \E S : Tail(toList) \in Seq(S)
    BY <2>1
  <2> QED
    BY <2>1, <2>2
<1>8. CASE NothingToList
  BY <1>8 DEF NothingToList, clusterVars, fixedVars
<1>9. CASE StartWalk
  <2>1. /\ pc = "walk" /\ UNCHANGED <<kartas, resolver, mode, pc, toList, verdict>>
    BY <1>9 DEF StartWalk, clusterVars, fixedVars
  <2> QED
    BY <2>1
<1>10. CASE Climb
  <2>1. /\ pc = "walk" /\ UNCHANGED <<kartas, resolver, mode, pc, toList>>
    BY <1>10 DEF Climb, clusterVars, fixedVars
  <2>2. \/ \E v \in {"matched", "ended", "failed"} : verdict' = Set(verdict, walk.object.uid, v)
        \/ verdict' = verdict
    BY <1>10, HopsOn
  <2>3. \A uid \in DOMAIN verdict' : verdict'[uid] \in {"matched", "ended", "failed"}
    BY <2>2 DEF Set
  <2> QED
    BY <2>1, <2>3
<1>11. CASE Finish
  BY <1>11 DEF Finish, clusterVars, fixedVars
<1> QED
  BY <1>1, <1>2, <1>3, <1>4, <1>5, <1>6, <1>7, <1>8, <1>9, <1>10, <1>11 DEF Next

\* What the lookup of a cluster that holds still leaves to be listed.
LEMMA LookupLists ==
  ASSUME OwnerInv, StageInv, mapper = Discovered, DiscoverKinds \/ LookupType \/ GetRoot
  PROVE  ListedInv'
<1>1. CASE DiscoverKinds
  <2>1. /\ pc' = "list" /\ mode' = "all-types" /\ resolver' = resolver
        /\ UNCHANGED <<objects, served, failing>>
        /\ covered' = {k \in CoveredKinds(resolver) : mapper[k] \cap CoveredVersions(resolver, k) # {}}
        /\ warned' = warned \cup Unreadable(CoveredKinds(resolver))
    BY <1>1 DEF DiscoverKinds, clusterVars, fixedVars
  <2>2. \A kind \in covered' : ToCome(kind)'
    BY <1>1, DiscoveredToCome DEF StageInv
  <2>3. ASSUME NEW kind \in CoveredKinds(resolver) \ covered', kind \notin warned'
        PROVE  OfKind(kind)' = {}
    <3>1. mapper[kind] \cap CoveredVersions(resolver, kind) = {}
      BY <2>1, <2>3
    <3>2. mapper[kind] = {} /\ kind \notin failing
      BY <2>1, <2>3, <3>1 DEF Unreadable
    <3>3. kind \in Kinds
      BY <2>3 DEF StageInv, NamesKinds, CoveredKinds
    <3>4. served[kind] = {}
      BY <3>2, <3>3 DEF Discovered
    <3> QED
      BY <2>1, <3>4 DEF OfKind, OwnerInv, BornInv
  <2>4. Asked' = covered'
    BY <2>1 DEF Asked
  <2> QED
    BY <2>1, <2>2, <2>3, <2>4 DEF ListedInv
<1>2. CASE LookupType
  <2> DEFINE def == ResolveTarget(resolver, mapper, token)
             installed == def # Null /\ def.gvk.version \in mapper[def.gvk.kind]
  <2>1. /\ mode' = "type" /\ token' = token
        /\ pc' = IF def = Null THEN "failed" ELSE IF installed THEN "list" ELSE "done"
        /\ toList' = IF installed THEN <<def.gvk>> ELSE <<>>
        /\ warned' = IF def # Null /\ ~installed THEN warned \cup {def.gvk.kind} ELSE warned
    BY <1>2 DEF LookupType, fixedVars
  <2>2. def # Null => def.gvk.kind = token.kind
    BY TargetIsOfType
  <2> HIDE DEF def
  <2>3. CASE def = Null
    BY <2>1, <2>3 DEF ListedInv
  <2>4. CASE installed
    <3>1. toList'[1].kind = token.kind /\ Len(toList') = 1
      BY <2>1, <2>2, <2>4
    <3>2. ToCome(token.kind)'
      BY <2>1, <3>1 DEF ToCome
    <3>3. Asked' \subseteq {token.kind}
      BY <2>1 DEF Asked
    <3> QED
      BY <2>1, <3>2, <3>3 DEF ListedInv
  <2>5. CASE def # Null /\ ~installed
    <3>1. Asked' = {}
      BY <2>1, <2>2, <2>5 DEF Asked
    <3> QED
      BY <2>1, <3>1 DEF ListedInv
  <2> QED
    BY <2>3, <2>4, <2>5
<1>3. CASE GetRoot
  <2>1. /\ mode' = "describe"
        /\ pc' = "failed" \/ toList' = <<[kind |-> PodKind, version |-> Null]>>
    BY <1>3 DEF GetRoot, fixedVars
  <2>2. CASE pc' = "failed"
    BY <2>2 DEF ListedInv
  <2>3. CASE toList' = <<[kind |-> PodKind, version |-> Null]>>
    <3>1. toList'[1].kind = PodKind /\ Len(toList') = 1
      BY <2>3
    <3>2. ToCome(PodKind)'
      BY <3>1 DEF ToCome
    <3>3. Asked' = {PodKind}
      BY <2>1 DEF Asked
    <3> QED
      BY <2>1, <3>2, <3>3 DEF ListedInv
  <2> QED
    BY <2>1, <2>2, <2>3
<1> QED
  BY <1>1, <1>2, <1>3

\* A list that is answered puts every object of its kind in the queue; a kind that is
\* left out is warned of or has no objects.
LEMMA ListKindLists ==
  ASSUME OwnerInv, StageInv, ListedInv, ListKind
  PROVE  ListedInv'
<1> DEFINE gvk == Head(toList)
<1>1. /\ pc = "list" /\ toList # <<>> /\ mode \in {"all-types", "type", "describe"}
      /\ UNCHANGED <<objects, born, served, mode, token, resolver, walk, verdict>>
  BY DEF ListKind, clusterVars, fixedVars, StageInv
<1>2. /\ Len(toList) \in Nat \ {0} /\ gvk = toList[1] /\ Len(Tail(toList)) = Len(toList) - 1
      /\ \A i \in 1..(Len(toList) - 1) : Tail(toList)[i] = toList[i + 1]
  BY <1>1 DEF StageInv
<1> HIDE DEF gvk
<1>3. ASSUME NEW kind, ToCome(kind), kind # gvk.kind, toList' = Tail(toList) PROVE ToCome(kind)'
  <2>1. PICK i \in 1..Len(toList) : toList[i].kind = kind
    BY <1>3 DEF ToCome
  <2>2. i # 1
    BY <1>2, <1>3, <2>1
  <2>3. i - 1 \in 1..Len(toList') /\ toList'[i - 1] = toList[i]
    BY <1>2, <1>3, <2>1, <2>2
  <2> QED
    BY <2>1, <2>3 DEF ToCome
<1>4. ASSUME NEW objs \in SUBSET objects, Listed(objs, Tail(toList))
      PROVE  toList' = Tail(toList) /\ Seen \subseteq Seen' /\ objs \subseteq Seen'
  <2>1. toList' = Tail(toList) /\ queue' = queue \o SetToSeq(objs)
    BY <1>4 DEF Listed
  <2>2. IsFiniteSet(objs) /\ objs \subseteq born
    BY FS_Subset DEF OwnerInv, BornInv
  <2>3. /\ SetToSeq(objs) \in Seq(born)
        /\ \A x \in objs : \E i \in 1..Len(SetToSeq(objs)) : SetToSeq(objs)[i] = x
    BY <2>2, SetToSeqCovers
  <2>4. queue \in Seq(born)
    BY DEF OwnerInv, CommandInv
  <2> DEFINE more == SetToSeq(objs)
  <2> HIDE DEF more
  <2>5. /\ \A i \in 1..Len(queue) : i \in 1..Len(queue') /\ queue'[i] = queue[i]
        /\ \A i \in 1..Len(more) : Len(queue) + i \in 1..Len(queue') /\ queue'[Len(queue) + i] = more[i]
    BY <2>1, <2>3, <2>4 DEF more
  <2>6. \A i \in 1..Len(queue') : queue'[i] \in Seen'
    BY DEF Seen
  <2>7. objs \subseteq Seen'
    BY <2>3, <2>5, <2>6 DEF more
  <2>8. Seen \subseteq Seen'
    BY <1>1, <2>5, <2>6 DEF Seen
  <2> QED
    BY <2>1, <2>7, <2>8
<1>5. CASE Failed
  BY <1>5 DEF Failed, ListedInv
<1>6. CASE Listed(OfKind(gvk.kind), Tail(toList)) /\ UNCHANGED <<covered, warned>>
  <2>1. toList' = Tail(toList) /\ Seen \subseteq Seen' /\ OfKind(gvk.kind) \subseteq Seen'
    BY <1>4, <1>6 DEF OfKind
  <2>2. Asked' = Asked
    BY <1>1, <1>6 DEF Asked
  <2>3. \A kind : OfKind(kind)' = OfKind(kind)
    BY <1>1 DEF OfKind
  <2>4. ASSUME NEW kind \in Asked PROVE ToCome(kind)' \/ OfKind(kind) \subseteq Seen'
    <3>1. CASE kind = gvk.kind
      BY <2>1, <3>1
    <3>2. CASE kind # gvk.kind
      BY <1>1, <1>3, <2>1, <3>2 DEF ListedInv
    <3> QED
      BY <3>1, <3>2
  <2> QED
    BY <1>1, <1>6, <2>2, <2>3, <2>4 DEF ListedInv
<1>7. CASE /\ mode = "all-types" /\ LeaveOut(gvk.kind) /\ warned \subseteq warned'
           /\ gvk.kind \in warned' \/ OfKind(gvk.kind) = {}
  <2>1. toList' = Tail(toList) /\ Seen \subseteq Seen' /\ covered' = covered \ {gvk.kind}
    BY <1>4, <1>7 DEF LeaveOut
  <2>2. Asked = covered /\ Asked' = covered'
    BY <1>1, <1>7 DEF Asked
  <2>3. \A kind : OfKind(kind)' = OfKind(kind)
    BY <1>1 DEF OfKind
  <2>4. ASSUME NEW kind \in Asked' PROVE ToCome(kind)' \/ OfKind(kind) \subseteq Seen'
    BY <1>1, <1>3, <2>1, <2>2, <2>4 DEF ListedInv
  <2>5. ASSUME NEW kind \in CoveredKinds(resolver) \ covered'
        PROVE  kind \in warned' \/ OfKind(kind) = {}
    BY <1>1, <1>7, <2>1, <2>5 DEF ListedInv
  <2> QED
    BY <1>1, <2>3, <2>4, <2>5 DEF ListedInv
<1> QED
  <2>1. \A allowed : "not_found" \in Answers(gvk.kind, allowed) => OfKind(gvk.kind) = {}
    BY DEF Answers, OfKind, OwnerInv, BornInv
  <2> QED
    BY <1>1, <1>5, <1>6, <1>7, <2>1 DEF ListKind, gvk

\* In a cluster that holds still, what is listed stays so.
LEMMA NextStillInv ==
  ASSUME OwnerInv, StageInv, StillInv, [Next]_vars
  PROVE  StillInv'
<1>1. CASE ClusterStep
  BY <1>1 DEF ClusterStep, StillInv
<1>2. CASE ~ClusterStep
  <2>0. [Next]_vars /\ ~ClusterStep => UNCHANGED <<objects, born, served, changes, failing, mode, token>>
    BY DEF Next, Load, Discover, DiscoverKinds, LookupType, GetRoot, ListKind, NothingToList,
           StartWalk, Climb, Finish, clusterVars, fixedVars, vars
  <2> SUFFICES ASSUME changes = 0
               PROVE  (pc' \notin {"load", "discover", "failed"} => mapper' = Discovered') /\ ListedInv'
    BY <1>2, <2>0 DEF StillInv
  <2>1. objects = born /\ (pc \notin {"load", "discover", "failed"} => mapper = Discovered) /\ ListedInv
    BY DEF StillInv
  <2>2. Discovered' = Discovered
    BY <1>2, <2>0 DEF Discovered
  <2>3. \A kind : OfKind(kind)' = OfKind(kind)
    BY <1>2, <2>0 DEF OfKind
  <2>4. CASE Load \/ Discover
    BY <2>2, <2>4 DEF Load, Discover, ListedInv, clusterVars, fixedVars
  <2>5. CASE DiscoverKinds \/ LookupType \/ GetRoot
    <3>1. pc = "lookup" /\ mapper' = mapper
      BY <2>5 DEF DiscoverKinds, LookupType, GetRoot
    <3>2. ListedInv'
      BY <2>1, <2>5, <3>1, LookupLists
    <3> QED
      BY <2>1, <2>2, <3>1, <3>2
  <2>6. CASE ListKind
    <3>1. pc = "list" /\ mapper' = mapper
      BY <2>6 DEF ListKind
    <3> QED
      BY <2>1, <2>2, <2>6, <3>1, ListKindLists
  <2>7. CASE NothingToList \/ StartWalk \/ Climb \/ Finish \/ UNCHANGED vars
    <3>1. UNCHANGED <<mapper, resolver, covered, warned, toList>>
      BY <2>7 DEF NothingToList, StartWalk, Climb, Finish, vars, commandVars
    <3>2. (pc \in {"list", "walk"} /\ pc' \in {"walk", "done"}) \/ pc' = pc
      BY <2>7 DEF NothingToList, StartWalk, Climb, Finish, vars, commandVars
    <3>3. Seen \subseteq Seen'
      <4>1. CASE StartWalk \/ Climb
        BY <4>1, SeenGrows
      <4>2. CASE NothingToList \/ Finish \/ UNCHANGED vars
        BY <4>2 DEF NothingToList, Finish, vars, clusterVars, commandVars, Seen
      <4> QED
        BY <2>7, <4>1, <4>2
    <3>4. Asked' = Asked /\ \A kind : ToCome(kind)' = ToCome(kind)
      BY <1>2, <2>0, <3>1 DEF Asked, ToCome
    <3>5. ListedInv'
      <4> SUFFICES ASSUME pc \in {"list", "walk", "done"} PROVE ListedInv'
        BY <3>2 DEF ListedInv
      <4>1. /\ \A kind \in Asked : ToCome(kind) \/ OfKind(kind) \subseteq Seen
            /\ mode = "all-types" =>
                 \A kind \in CoveredKinds(resolver) \ covered : kind \in warned \/ OfKind(kind) = {}
        BY <2>1 DEF ListedInv
      <4>2. \A kind \in Asked' : ToCome(kind)' \/ OfKind(kind)' \subseteq Seen'
        BY <2>3, <3>3, <3>4, <4>1
      <4>3. mode' = "all-types" =>
              \A kind \in CoveredKinds(resolver') \ covered' : kind \in warned' \/ OfKind(kind)' = {}
        BY <1>2, <2>0, <2>3, <3>1, <4>1
      <4> QED
        BY <4>2, <4>3 DEF ListedInv
    <3> QED
      BY <2>1, <2>2, <3>1, <3>2, <3>5
  <2> QED
    BY <1>2, <2>4, <2>5, <2>6, <2>7 DEF Next
<1> QED
  BY <1>1, <1>2

\* Nothing is listed at the start.
LEMMA InitStillInv == Init => StageInv /\ StillInv
<1> SUFFICES ASSUME Init PROVE StageInv /\ StillInv
  OBVIOUS
<1>1. /\ born = objects /\ changes = 0 /\ pc = "load" /\ resolver = {} /\ toList = <<>>
      /\ walk = Null /\ verdict = <<>> /\ \E cluster \in Clusters : kartas = cluster.kartas
  BY DEF Init
<1>2. <<>> \in Seq({}) /\ DOMAIN verdict = {}
  BY <1>1
<1>3. NamesKinds(resolver) /\ NamesKinds(kartas)
  BY <1>1, KliAssumption DEF NamesKinds
<1> QED
  BY <1>1, <1>2, <1>3 DEF StageInv, StillInv, ListedInv

\* The stages and the lists are always as StageInv and StillInv say.
LEMMA StillInvAlways == Spec => [](OwnerInv /\ StageInv /\ StillInv)
<1>1. Init => OwnerInv /\ StageInv /\ StillInv
  BY InitOwnerInv, InitStillInv
<1>2. OwnerInv /\ StageInv /\ StillInv /\ [Next]_vars => (OwnerInv /\ StageInv /\ StillInv)'
  BY NextOwnerInv, NextStageInv, NextStillInv
<1> QED
  BY <1>1, <1>2, PTL DEF Spec

\* Without cycles of owners, some member of a set has no ancestor in it.
LEMMA TopMember ==
  ASSUME BornInv, \A o \in born : o \notin Ancestors(o), NEW T \in SUBSET born, T # {}
  PROVE  \E q \in T : Ancestors(q) \cap T = {}
<1> DEFINE height(p) == Cardinality(Ancestors(p))
           H == {height(p) : p \in T}
<1>1. \A p \in born : Ancestors(p) \subseteq born
  BY OwnersNow, AncestorsClosed
<1>2. \A p \in born : IsFiniteSet(Ancestors(p)) /\ height(p) \in Nat
  BY <1>1, FS_Subset, FS_CardinalityType DEF BornInv
<1>3. H \in SUBSET Nat /\ H # {}
  BY <1>2
<1> HIDE DEF height
<1>4. PICK q \in T : \A p \in T : height(q) <= height(p)
  <2> HIDE DEF H
  <2>1. PICK n \in H : \A m \in H : n <= m
    BY <1>3, LeastNat
  <2> QED
    BY <2>1 DEF H
<1>5. ASSUME NEW p \in Ancestors(q), p \in T PROVE FALSE
  <2>1. q \in born /\ p \in born
    BY <1>4, <1>5
  <2>2. Owners(p) \subseteq Ancestors(q) /\ \A o \in Ancestors(q) : Owners(o) \subseteq Ancestors(q)
    BY <1>5, <2>1, OwnersNow, AncestorsClosed
  <2>3. Ancestors(p) \subseteq Ancestors(q)
    BY <2>1, <2>2, OwnersNow, AncestorsLeast
  <2>4. Ancestors(p) # Ancestors(q)
    BY <1>5, <2>1
  <2>5. height(p) <= height(q) /\ height(p) # height(q)
    BY <1>2, <2>1, <2>3, <2>4, FS_Subset DEF height
  <2>6. height(p) \in Nat /\ height(q) \in Nat
    BY <1>2, <2>1
  <2> QED
    BY <1>4, <1>5, <2>5, <2>6
<1> QED
  BY <1>5

\* In a cluster that holds still, with every owner there, nothing vanishes: an object of
\* a type asked for is listed, or one of its owners is, or a warning names its kind.
THEOREM KliNothingVanishes == Spec => []NothingVanishes
<1>1. ASSUME OwnerInv, StageInv, StillInv PROVE NothingVanishes
  <2> SUFFICES ASSUME pc = "done", changes = 0, OwnersExist, NEW o \in objects, o.slot.kind \notin warned
               PROVE  Answered(o)
    BY DEF NothingVanishes
  <2>1. /\ objects = born /\ toList = <<>> /\ mode \in {"all-types", "type", "describe"}
        /\ mode = "type" \/ (queue = <<>> /\ walk = Null)
        /\ ListedInv
    BY <1>1 DEF StageInv, StillInv
  <2>2. \A kind \in Asked : OfKind(kind) \subseteq Seen
    BY <2>1 DEF ListedInv, ToCome
  <2>3. mode # "type" => \A p \in Seen : p.uid \in DOMAIN verdict
    BY <2>1 DEF Seen
  <2>4. CASE mode = "type"
    <3>1. walk = Null /\ DOMAIN verdict = {} /\ queue \in Seq(born)
      BY <1>1, <2>4 DEF StageInv, OwnerInv, CommandInv
    <3>2. Seen \subseteq ToSet(queue)
      BY <3>1 DEF Seen, ToSet
    <3>3. o.slot.kind = token.kind => o \in Seen
      BY <2>2, <2>4 DEF Asked, OfKind
    <3> QED
      BY <2>4, <3>2, <3>3 DEF Answered
  <2>5. CASE mode = "describe"
    <3>1. o.slot.kind = PodKind => o \in Seen
      BY <2>2, <2>5 DEF Asked, OfKind
    <3> QED
      BY <2>3, <2>5, <3>1 DEF Answered
  <2>6. CASE mode = "all-types" /\ o.slot.kind \in CoveredKinds(resolver)
    <3> DEFINE T == {p \in {o} \cup Ancestors(o) : p.slot.kind \in covered}
    <3>1. {o} \cup Ancestors(o) \subseteq born
      BY <2>1, OwnersNow, AncestorsClosed
    <3>2. o \in T
      <4>1. o \in OfKind(o.slot.kind)
        BY DEF OfKind
      <4> QED
        BY <2>1, <2>6, <4>1 DEF ListedInv
    <3>3. \A p \in born : p \notin Ancestors(p)
      BY <2>1 DEF OwnersExist
    <3>4. PICK q \in T : Ancestors(q) \cap T = {}
      BY <1>1, <3>1, <3>2, <3>3, TopMember DEF OwnerInv
    <3>5. q \in born /\ q.uid \in DOMAIN verdict
      BY <2>1, <2>2, <2>3, <2>6, <3>1 DEF Asked, OfKind
    <3>6. ASSUME q \in Walked("matched") PROVE FALSE
      <4>1. PICK p \in {q} \cup Ancestors(q) : Matches(p)
        BY <1>1, <3>6 DEF OwnerInv, MatchedIsOwned, TrulyMatches
      <4>2. p \in born /\ Owners(p) \subseteq Ancestors(q) /\ Owners(p) \subseteq born
        BY <3>5, OwnersNow, AncestorsClosed
      <4>3. p.controller # Null /\ p.controller.slot.kind \in covered
        BY <2>6, <4>1 DEF Matches
      <4>4. PICK r \in Owners(p) : TRUE
        BY <2>1, <4>2, <4>3 DEF OwnersExist
      <4>5. r.slot = p.controller.slot
        <5>1. p.controller = Ref(r)
          BY <1>1, <4>2, <4>4, OneOwner DEF OwnerInv
        <5> QED
          BY <5>1 DEF Ref
      <4>6. Ancestors(q) \subseteq {o} \cup Ancestors(o)
        <5>1. \A s \in {o} \cup Ancestors(o) : Owners(s) \subseteq Ancestors(o)
          BY <2>1, OwnersNow, AncestorsClosed
        <5>2. Ancestors(q) \subseteq Ancestors(o)
          BY <3>5, <5>1, OwnersNow, AncestorsLeast
        <5> QED
          BY <5>2
      <4>7. r \in Ancestors(q) /\ r \in T
        BY <4>2, <4>3, <4>4, <4>5, <4>6
      <4> QED
        BY <3>4, <4>7
    <3>7. q \in Walked("ended") \cup Walked("failed")
      BY <1>1, <3>5, <3>6 DEF StageInv, Walked
    <3> QED
      BY <2>6, <3>7 DEF Answered
  <2> QED
    BY <2>1, <2>4, <2>5, <2>6 DEF Answered
<1> QED
  BY <1>1, StillInvAlways, PTL
=============================================================================
