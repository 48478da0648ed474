---------------------------- MODULE OperatorProofs ----------------------------
(***************************************************************************)
(* The conditions of a Karta that the reconciler leaves behind are right,  *)
(* for every set of kinds, versions and specs and any number of changes.   *)
(***************************************************************************)
EXTENDS Operator, SequenceTheorems, TLAPS

-------------------------------------------------------------------------------
(* The invariant *)

Working == worker # Idle

WorkerRecord ==
  [pc : {"checkCRD", "labels", "status"}, base : Karta,
   karta : {k \in Karta : k.conds # None}, expects : Karta \cup {None}, err : BOOLEAN]

KartaTypes ==
  /\ server \in Karta \cup {None} /\ cache \in Karta \cup {None}
  /\ stream \in Seq(Karta \cup {None})
  /\ queued \in BOOLEAN
  /\ worker \in WorkerRecord \cup {Idle}

CRDTypes ==
  /\ crds \in [GroupKinds -> SUBSET Versions] /\ crdCache \in [GroupKinds -> SUBSET Versions]
  /\ crdStream \in [GroupKinds -> Seq(SUBSET Versions)]
  /\ mapping \subseteq GroupKinds

\* A watch ends with what the API server has.
Newest(pending, seen) == IF pending = <<>> THEN seen ELSE pending[Len(pending)]
Watched ==
  /\ server = Newest(stream, cache)
  /\ \A gk \in GroupKinds : crds[gk] = Newest(crdStream[gk], crdCache[gk])

\* Nothing is on its way that will start another reconcile.
Still == ~queued /\ stream = <<>>

\* The parts of the conditions that one reconcile establishes.
ValidatedIsRight(karta, conds) ==
  conds["Validated"] = [status |-> Bool(karta.valid), gen |-> karta.gen]
CRDIsRight(karta, conds) ==
  conds["CRDExists"] = [status |-> Bool(Served(karta.gvk, crdCache)), gen |-> karta.gen]
ReadyIsDerived(karta, conds) ==
  conds["Ready"] =
    [status |-> Bool(\A type \in {"Validated", "CRDExists"} : conds[type].status = "True"),
     gen |-> karta.gen]
\* A change of the CRD has been seen and its handler has yet to run.
Mapped(karta) == karta.gvk # None /\ karta.gvk[1] \in mapping

\* A reconcile during which nothing arrives works on what the API server has, and
\* once it is past the labels without an error it has not written anything.
ReconcileInv ==
  Working /\ Still =>
    LET base == worker.base  karta == worker.karta
    IN  /\ base = cache /\ ~base.deleting
        /\ karta = [base EXCEPT !.conds = karta.conds]
        /\ ValidatedIsRight(base, karta.conds)
        /\ worker.pc = "checkCRD" => ~worker.err
        /\ worker.pc = "labels" =>
             ~worker.err /\ (~LabelsMatch(base) \/ CRDIsRight(base, karta.conds) \/ Mapped(base))
        /\ worker.pc = "status" /\ ~worker.err =>
             /\ LabelsMatch(base)
             /\ CRDIsRight(base, karta.conds) \/ Mapped(base)
             /\ ReadyIsDerived(base, karta.conds)

\* Between reconciles, with nothing on its way, the conditions are right but for
\* the CRD events that are yet to be mapped, and the labels are there to map them.
RestInv ==
  ~Working /\ Still /\ cache # None /\ ~cache.deleting =>
    /\ cache.conds # None
    /\ LabelsMatch(cache)
    /\ ValidatedIsRight(cache, cache.conds)
    /\ CRDIsRight(cache, cache.conds) \/ Mapped(cache)
    /\ ReadyIsDerived(cache, cache.conds)

OperatorInv == KartaTypes /\ CRDTypes /\ Watched /\ ReconcileInv /\ RestInv

-------------------------------------------------------------------------------
(* Lemmas *)

\* Appending to a watch makes it end with what was appended.
LEMMA AppendIsNewest ==
  ASSUME NEW S, NEW s \in Seq(S), NEW e \in S
  PROVE  /\ Append(s, e) \in Seq(S) /\ Append(s, e) # <<>>
         /\ \A seen : Newest(Append(s, e), seen) = e
<1>1. Append(s, e) \in Seq(S) /\ Len(Append(s, e)) = Len(s) + 1 /\ Append(s, e)[Len(s) + 1] = e
  OBVIOUS
<1>2. Append(s, e) # <<>>
  BY <1>1
<1> QED
  BY <1>1, <1>2 DEF Newest

\* Delivering the first event of a watch does not change how it ends.
LEMMA DeliveryKeepsNewest ==
  ASSUME NEW S, NEW s \in Seq(S), s # <<>>, NEW seen
  PROVE  /\ Head(s) \in S /\ Tail(s) \in Seq(S)
         /\ Newest(Tail(s), Head(s)) = Newest(s, seen)
<1>1. Head(s) \in S /\ Tail(s) \in Seq(S) /\ Len(Tail(s)) = Len(s) - 1 /\ Len(s) \in Nat \ {0}
  OBVIOUS
<1>2. CASE Tail(s) = <<>>
  <2>1. Len(s) = 1
    BY <1>1, <1>2
  <2> QED
    BY <1>1, <1>2, <2>1 DEF Newest
<1>3. CASE Tail(s) # <<>>
  <2>1. Len(s) > 1
    BY <1>1, <1>3
  <2>2. Tail(s)[Len(Tail(s))] = s[Len(s)]
    BY <1>1, <2>1
  <2> QED
    BY <1>1, <1>3, <2>2 DEF Newest
<1> QED
  BY <1>2, <1>3

\* A write reaches the watch unless it changes nothing.
LEMMA WriteIsWatched ==
  ASSUME KartaTypes, Watched, NEW k \in Karta \cup {None}, Write(k), UNCHANGED cache
  PROVE  /\ server' \in Karta \cup {None} /\ stream' \in Seq(Karta \cup {None})
         /\ server' = Newest(stream', cache')
         /\ stream' = <<>> => stream = <<>> /\ server' = server /\ k = server
<1>1. CASE k = server
  BY <1>1 DEF Write, KartaTypes, Watched
<1>2. CASE k # server
  <2>1. stream' = Append(stream, k) /\ server' = k
    BY <1>2 DEF Write
  <2>2. stream \in Seq(Karta \cup {None})
    BY DEF KartaTypes
  <2>3. /\ Append(stream, k) \in Seq(Karta \cup {None}) /\ Append(stream, k) # <<>>
        /\ \A seen : Newest(Append(stream, k), seen) = k
    BY <2>2, AppendIsNewest
  <2> QED
    BY <2>1, <2>3
<1> QED
  BY <1>1, <1>2

\* A step that reads nothing into the cache and starts or advances no reconcile
\* keeps what is known of reconciles, if nothing that was on its way is gone.
LEMMA QuietKeeps ==
  ASSUME ReconcileInv, RestInv, UNCHANGED <<cache, worker, crdCache, mapping>>, Still' => Still
  PROVE  ReconcileInv' /\ RestInv'
BY DEF ReconcileInv, RestInv, Working, ValidatedIsRight, CRDIsRight, ReadyIsDerived, Mapped, Served,
       LabelsMatch

-------------------------------------------------------------------------------
(* Users *)

\* Kartas that users write have the type of a Karta.
LEMMA UserWritesKeep ==
  ASSUME OperatorInv, NEW k \in Karta \cup {None}, UserWrites(k)
  PROVE  OperatorInv'
<1>1. Write(k) /\ UNCHANGED <<cache, crdVars, mapping, queued, worker>>
  BY DEF UserWrites
<1>2. /\ server' \in Karta \cup {None} /\ stream' \in Seq(Karta \cup {None})
      /\ server' = Newest(stream', cache')
      /\ stream' = <<>> => stream = <<>>
  BY <1>1, WriteIsWatched DEF OperatorInv
<1>3. KartaTypes' /\ CRDTypes'
  BY <1>1, <1>2 DEF OperatorInv, KartaTypes, CRDTypes, crdVars
<1>4. Watched'
  BY <1>1, <1>2 DEF OperatorInv, Watched, crdVars
<1>5. Still' => Still
  BY <1>1, <1>2 DEF Still
<1>6. ReconcileInv' /\ RestInv'
  BY <1>1, <1>5, QuietKeeps DEF OperatorInv, crdVars
<1> QED
  BY <1>3, <1>4, <1>6 DEF OperatorInv

\* Users and other Kartas.
LEMMA UsersKeep ==
  ASSUME OperatorInv, Users
  PROVE  OperatorInv'
<1>0. server \in Karta \cup {None} /\ KartaTypes
  BY DEF OperatorInv, KartaTypes
<1>1. ASSUME NEW s \in Specs, Create(s) PROVE OperatorInv'
  <2>1. s.gvk \in GVKs \cup {None} /\ s.valid \in BOOLEAN
    BY OperatorAssumption
  <2>2. Created(s) \in Karta /\ Labelled(Created(s)) \in Karta
    BY <2>1 DEF Created, Karta, Labelled
  <2> QED
    BY <1>1, <2>2, UserWritesKeep DEF Create
<1>2. ASSUME NEW s \in Specs, NEW unlabel \in BOOLEAN, Update(s, unlabel) PROVE OperatorInv'
  <2>1. s.gvk \in GVKs \cup {None} /\ s.valid \in BOOLEAN
    BY OperatorAssumption
  <2> DEFINE changed == s # [gvk |-> server.gvk, valid |-> server.valid]
             k == [server EXCEPT !.gvk = s.gvk, !.valid = s.valid, !.gen = IF changed THEN @ + 1 ELSE @,
                                 !.labels = IF unlabel THEN None ELSE @]
  <2>2. server \in Karta /\ UserWrites(k)
    BY <1>0, <1>2 DEF Update
  <2>3. k \in Karta
    <3>1. /\ server.gen \in Nat /\ server.labels \in GVKs \cup {None}
          /\ (IF changed THEN server.gen + 1 ELSE server.gen) \in Nat
          /\ (IF unlabel THEN None ELSE server.labels) \in GVKs \cup {None}
      BY <2>2 DEF Karta
    <3> HIDE DEF changed
    <3> QED
      BY <2>1, <2>2, <3>1 DEF Karta
  <2> QED
    BY <2>2, <2>3, UserWritesKeep
<1>3. ASSUME NEW waits \in BOOLEAN, Delete(waits) PROVE OperatorInv'
  <2>1. server \in Karta
    BY <1>0, <1>3 DEF Delete
  <2>2. [server EXCEPT !.deleting = TRUE] \in Karta
    BY <2>1 DEF Karta
  <2> QED
    BY <1>3, <2>2, UserWritesKeep DEF Delete
<1>4. ASSUME NEW gvk \in GVKs, EditOther(gvk) PROVE OperatorInv'
  <2>1. UNCHANGED <<server, stream, cache, crds, crdStream, crdCache, mapping, queued, worker>>
    BY <1>4 DEF EditOther, kartaVars, crdVars
  <2>2. ReconcileInv' /\ RestInv'
    BY <2>1, QuietKeeps DEF OperatorInv, Still
  <2> QED
    BY <2>1, <2>2 DEF OperatorInv, KartaTypes, CRDTypes, Watched
<1>5. ASSUME NEW gk \in GroupKinds, NEW versions \in SUBSET Versions, EditCRD(gk, versions)
      PROVE  OperatorInv'
  <2>1. /\ crds' = [crds EXCEPT ![gk] = versions]
        /\ crdStream' = [crdStream EXCEPT ![gk] = Append(crdStream[gk], versions)]
        /\ UNCHANGED <<server, stream, cache, crdCache, mapping, queued, worker>>
    BY <1>5 DEF EditCRD, kartaVars
  <2>2. CRDTypes
    BY DEF OperatorInv
  <2>3. /\ Append(crdStream[gk], versions) \in Seq(SUBSET Versions)
        /\ \A seen : Newest(Append(crdStream[gk], versions), seen) = versions
    <3>1. crdStream[gk] \in Seq(SUBSET Versions)
      BY <2>2 DEF CRDTypes
    <3> QED
      BY <3>1, AppendIsNewest
  <2>4. CRDTypes'
    BY <2>1, <2>2, <2>3 DEF CRDTypes
  <2>5. \A g \in GroupKinds : crds'[g] = Newest(crdStream'[g], crdCache'[g])
    <3> TAKE g \in GroupKinds
    <3>1. CASE g = gk
      BY <2>1, <2>2, <2>3, <3>1 DEF CRDTypes
    <3>2. CASE g # gk
      BY <2>1, <2>2, <3>2 DEF CRDTypes, OperatorInv, Watched
    <3> QED
      BY <3>1, <3>2
  <2>6. Watched'
    BY <2>1, <2>5 DEF OperatorInv, Watched
  <2>7. ReconcileInv' /\ RestInv'
    BY <2>1, QuietKeeps DEF OperatorInv, Still
  <2> QED
    BY <2>1, <2>4, <2>6, <2>7 DEF OperatorInv, KartaTypes
<1> QED
  BY <1>1, <1>2, <1>3, <1>4, <1>5 DEF Users

-------------------------------------------------------------------------------
(* Events *)

\* A change of another group-kind does not change whether a kind is served.
LEMMA ServedElsewhere ==
  ASSUME NEW gvk \in GVKs \cup {None}, NEW gk \in GroupKinds, NEW served, NEW after,
         \A g \in GroupKinds \ {gk} : after[g] = served[g],
         gvk # None => gvk[1] # gk
  PROVE  Served(gvk, after) <=> Served(gvk, served)
<1>1. CASE gvk = None \/ gvk \in NativeGVKs
  BY <1>1 DEF Served
<1>2. CASE gvk # None /\ gvk \notin NativeGVKs
  <2>1. gvk \in GroupKinds \X Versions
    BY <1>2 DEF GVKs
  <2>2. gvk[1] \in GroupKinds /\ gvk[1] # gk
    BY <1>2, <2>1
  <2> QED
    BY <1>2, <2>2 DEF Served
<1> QED
  BY <1>1, <1>2

\* An event of the Karta is a request.
LEMMA DeliverKeeps ==
  ASSUME OperatorInv, Deliver
  PROVE  OperatorInv'
<1>1. /\ stream # <<>> /\ cache' = Head(stream) /\ stream' = Tail(stream) /\ queued' = TRUE
      /\ UNCHANGED <<server, crds, crdStream, crdCache, mapping, worker>>
  BY DEF Deliver, Requests, crdVars
<1>2. stream \in Seq(Karta \cup {None})
  BY DEF OperatorInv, KartaTypes
<1>3. /\ Head(stream) \in Karta \cup {None} /\ Tail(stream) \in Seq(Karta \cup {None})
      /\ Newest(Tail(stream), Head(stream)) = Newest(stream, cache)
  BY <1>1, <1>2, DeliveryKeepsNewest
<1>4. KartaTypes' /\ CRDTypes' /\ Watched'
  BY <1>1, <1>3 DEF OperatorInv, KartaTypes, CRDTypes, Watched
<1>5. ReconcileInv' /\ RestInv'
  BY <1>1 DEF ReconcileInv, RestInv, Still
<1> QED
  BY <1>4, <1>5 DEF OperatorInv

\* An event of a CRD makes the conditions wrong only of Kartas that its handler
\* will find.
LEMMA DeliverCRDKeeps ==
  ASSUME OperatorInv, NEW gk \in GroupKinds, DeliverCRD(gk)
  PROVE  OperatorInv'
<1>1. /\ crdStream[gk] # <<>>
      /\ crdCache' = [crdCache EXCEPT ![gk] = Head(crdStream[gk])]
      /\ crdStream' = [crdStream EXCEPT ![gk] = Tail(crdStream[gk])]
      /\ mapping' = mapping \cup {gk}
      /\ UNCHANGED <<server, stream, cache, crds, queued, worker>>
  BY DEF DeliverCRD, kartaVars
<1>2. CRDTypes
  BY DEF OperatorInv
<1>3. crdStream[gk] \in Seq(SUBSET Versions)
  BY <1>2 DEF CRDTypes
<1>4. /\ Head(crdStream[gk]) \in SUBSET Versions /\ Tail(crdStream[gk]) \in Seq(SUBSET Versions)
      /\ Newest(Tail(crdStream[gk]), Head(crdStream[gk])) = Newest(crdStream[gk], crdCache[gk])
  BY <1>1, <1>3, DeliveryKeepsNewest
<1>5. KartaTypes' /\ CRDTypes'
  BY <1>1, <1>2, <1>4 DEF OperatorInv, KartaTypes, CRDTypes
<1>6. \A g \in GroupKinds : crds'[g] = Newest(crdStream'[g], crdCache'[g])
  <2> TAKE g \in GroupKinds
  <2>1. CASE g = gk
    BY <1>1, <1>2, <1>4, <2>1 DEF CRDTypes, OperatorInv, Watched
  <2>2. CASE g # gk
    BY <1>1, <1>2, <2>2 DEF CRDTypes, OperatorInv, Watched
  <2> QED
    BY <2>1, <2>2
<1>7. Watched'
  BY <1>1, <1>6 DEF OperatorInv, Watched
<1>8. ASSUME NEW k \in Karta, NEW conds, CRDIsRight(k, conds) \/ Mapped(k)
      PROVE  (CRDIsRight(k, conds) \/ Mapped(k))'
  <2>1. k.gvk \in GVKs \cup {None}
    BY DEF Karta
  <2>2. CASE Mapped(k) \/ (k.gvk # None /\ k.gvk[1] = gk)
    BY <1>1, <2>2 DEF Mapped
  <2>3. CASE CRDIsRight(k, conds) /\ ~(k.gvk # None /\ k.gvk[1] = gk)
    <3>1. Served(k.gvk, crdCache') = Served(k.gvk, crdCache)
      <4>1. \A g \in GroupKinds \ {gk} : crdCache'[g] = crdCache[g]
        BY <1>1, <1>2 DEF CRDTypes
      <4>2. k.gvk # None => k.gvk[1] # gk
        BY <2>3
      <4>3. Served(k.gvk, crdCache') <=> Served(k.gvk, crdCache)
        BY <2>1, <4>1, <4>2, ServedElsewhere
      <4> QED
        BY <4>3 DEF Served
    <3> QED
      BY <2>3, <3>1 DEF CRDIsRight
  <2> QED
    BY <1>8, <2>2, <2>3
<1>9. ReconcileInv'
  <2>1. Working => worker.base \in Karta
    BY DEF OperatorInv, KartaTypes, Working, WorkerRecord
  <2>2. Working => (CRDIsRight(worker.base, worker.karta.conds) \/ Mapped(worker.base)
                      => (CRDIsRight(worker.base, worker.karta.conds) \/ Mapped(worker.base))')
    BY <1>1, <1>8, <2>1 DEF CRDIsRight, Mapped
  <2> QED
    BY <1>1, <2>2 DEF OperatorInv, ReconcileInv, Working, Still, ValidatedIsRight, ReadyIsDerived, LabelsMatch
<1>10. RestInv'
  <2>1. cache # None => cache \in Karta
    BY DEF OperatorInv, KartaTypes
  <2>2. cache # None => (CRDIsRight(cache, cache.conds) \/ Mapped(cache)
                      => (CRDIsRight(cache, cache.conds) \/ Mapped(cache))')
    BY <1>1, <1>8, <2>1 DEF CRDIsRight, Mapped
  <2> QED
    BY <1>1, <2>2 DEF OperatorInv, RestInv, Working, Still, ValidatedIsRight, ReadyIsDerived, LabelsMatch
<1> QED
  BY <1>5, <1>7, <1>9, <1>10 DEF OperatorInv

\* The handler finds a Karta through its labels.
LEMMA MapCRDKeeps ==
  ASSUME OperatorInv, NEW gk \in GroupKinds, MapCRDToKartaEvent(gk)
  PROVE  OperatorInv'
<1>1. /\ mapping' = mapping \ {gk}
      /\ queued' = (queued \/ (cache # None /\ cache.labels # None /\ cache.labels[1] = gk))
      /\ UNCHANGED <<server, stream, cache, crds, crdStream, crdCache, worker>>
  BY DEF MapCRDToKartaEvent, kartaVars, crdVars
<1>2. KartaTypes' /\ CRDTypes' /\ Watched'
  BY <1>1 DEF OperatorInv, KartaTypes, CRDTypes, Watched
<1>3. Still' => Still
  BY <1>1 DEF OperatorInv, KartaTypes, Still
<1>4. ASSUME Still', cache # None, LabelsMatch(cache), Mapped(cache)
      PROVE  Mapped(cache)'
  <2>1. cache.gvk[1] # gk /\ cache.gvk # None /\ cache.gvk[1] \in mapping
    BY <1>1, <1>4 DEF Still, LabelsMatch, Mapped
  <2> QED
    BY <1>1, <2>1 DEF Mapped
<1>5. ReconcileInv'
  <2> SUFFICES ASSUME Working', Still' PROVE ReconcileInv'
    BY DEF ReconcileInv
  <2>1. Working /\ Still /\ worker.base = cache /\ worker.base \in Karta /\ cache # None
    BY <1>1, <1>3, OperatorAssumption DEF Working, OperatorInv, ReconcileInv, KartaTypes, WorkerRecord
  <2>2. LabelsMatch(worker.base) /\ Mapped(worker.base) => Mapped(worker.base)'
    BY <1>1, <1>4, <2>1 DEF Mapped
  <2>3. CRDIsRight(worker.base, worker.karta.conds) => CRDIsRight(worker.base, worker.karta.conds)'
    BY <1>1 DEF CRDIsRight
  <2> QED
    BY <1>1, <2>1, <2>2, <2>3 DEF OperatorInv, ReconcileInv, ValidatedIsRight, ReadyIsDerived, LabelsMatch
<1>6. RestInv'
  BY <1>1, <1>3, <1>4 DEF OperatorInv, RestInv, Working, ValidatedIsRight, CRDIsRight, ReadyIsDerived, LabelsMatch
<1> QED
  BY <1>2, <1>5, <1>6 DEF OperatorInv

-------------------------------------------------------------------------------
(* Reconcile *)

\* Conditions stay conditions when one of them is set.
LEMMA SetType ==
  ASSUME NEW conds \in Conditions, NEW type \in ConditionTypes, NEW b \in BOOLEAN, NEW gen \in Nat
  PROVE  /\ Set(conds, type, Bool(b), gen) \in Conditions
         /\ Set(conds, type, Bool(b), gen)[type] = [status |-> Bool(b), gen |-> gen]
         /\ \A other \in ConditionTypes \ {type} : Set(conds, type, Bool(b), gen)[other] = conds[other]
<1>1. [status |-> Bool(b), gen |-> gen] \in [status : {"True", "False", "Pending"}, gen : Nat]
  BY DEF Bool
<1> QED
  BY <1>1 DEF Set, Conditions

\* A Karta with other conditions, as long as it has some.
LEMMA CondsType ==
  ASSUME NEW k \in Karta, NEW conds \in Conditions
  PROVE  /\ [k EXCEPT !.conds = conds] \in {j \in Karta : j.conds # None}
         /\ [k EXCEPT !.conds = conds].conds = conds
BY OperatorAssumption DEF Karta

\* Get and validateKarta.
LEMMA TakeKeeps ==
  ASSUME OperatorInv, Take
  PROVE  OperatorInv'
<1>1. /\ worker = Idle /\ queued' = FALSE
      /\ UNCHANGED <<server, stream, cache, crds, crdStream, crdCache, mapping>>
  BY DEF Take, kartaVars, crdVars
<1>2. CRDTypes' /\ Watched'
  BY <1>1 DEF OperatorInv, CRDTypes, Watched
<1>3. CASE (cache = None \/ cache.deleting) /\ UNCHANGED worker
  <2>1. KartaTypes'
    BY <1>1, <1>3 DEF OperatorInv, KartaTypes
  <2>2. ReconcileInv' /\ RestInv'
    BY <1>1, <1>3 DEF ReconcileInv, RestInv, Working, Idle
  <2> QED
    BY <1>2, <2>1, <2>2 DEF OperatorInv
<1>4. ASSUME cache # None, ~cache.deleting,
             worker' = [pc |-> "checkCRD", base |-> cache,
                        karta |-> [cache EXCEPT !.conds = Set(WithDefaults(cache), "Validated", Bool(cache.valid), cache.gen)],
                        expects |-> None, err |-> FALSE]
      PROVE  OperatorInv'
  <2> DEFINE conds == Set(WithDefaults(cache), "Validated", Bool(cache.valid), cache.gen)
             k == [cache EXCEPT !.conds = conds]
  <2>1. cache \in Karta /\ cache.valid \in BOOLEAN /\ cache.gen \in Nat
    BY <1>4 DEF OperatorInv, KartaTypes, Karta
  <2>2. WithDefaults(cache) \in Conditions
    BY <2>1 DEF WithDefaults, Karta, Conditions
  <2>3. conds \in Conditions /\ conds["Validated"] = [status |-> Bool(cache.valid), gen |-> cache.gen]
    BY <2>1, <2>2, SetType DEF ConditionTypes
  <2>4. worker' = [pc |-> "checkCRD", base |-> cache, karta |-> k, expects |-> None, err |-> FALSE]
    BY <1>4
  <2> HIDE DEF conds
  <2>5. k \in {j \in Karta : j.conds # None} /\ k.conds = conds
    BY <2>1, <2>3, CondsType
  <2>6. KartaTypes'
    <3>1. worker' \in WorkerRecord
      BY <2>1, <2>4, <2>5 DEF WorkerRecord
    <3> QED
      BY <1>1, <3>1 DEF OperatorInv, KartaTypes
  <2>7. ReconcileInv'
    <3>1. /\ worker'.pc = "checkCRD" /\ worker'.base = cache /\ worker'.karta = k
          /\ worker'.karta.conds = conds /\ worker'.err = FALSE
      BY <2>4, <2>5
    <3>2. worker'.karta = [worker'.base EXCEPT !.conds = worker'.karta.conds]
      BY <3>1
    <3> HIDE DEF k
    <3> QED
      BY <1>1, <1>4, <2>3, <3>1, <3>2 DEF ReconcileInv, ValidatedIsRight
  <2>8. RestInv'
    BY <2>4 DEF RestInv, Working, Idle
  <2> QED
    BY <1>2, <2>6, <2>7, <2>8 DEF OperatorInv
<1> QED
  BY <1>3, <1>4 DEF Take

\* checkCRDExists.
LEMMA CheckCRDKeeps ==
  ASSUME OperatorInv, CheckCRDExists
  PROVE  OperatorInv'
<1> DEFINE k == worker.karta
           conds == Set(k.conds, "CRDExists", Bool(Served(k.gvk, crdCache)), k.gen)
<1>1. /\ worker.pc = "checkCRD"
      /\ UNCHANGED <<server, stream, cache, crds, crdStream, crdCache, mapping, queued>>
      /\ worker' = [worker EXCEPT !.pc = "labels", !.karta.conds = conds]
  BY DEF CheckCRDExists, kartaVars, crdVars
<1>2. worker \in WorkerRecord /\ worker # Idle
  BY <1>1 DEF OperatorInv, KartaTypes, Idle
<1>3. k \in Karta /\ k.conds \in Conditions /\ k.gen \in Nat /\ Served(k.gvk, crdCache) \in BOOLEAN
  BY <1>2 DEF WorkerRecord, Karta, Served
<1>4. /\ conds \in Conditions
      /\ conds["CRDExists"] = [status |-> Bool(Served(k.gvk, crdCache)), gen |-> k.gen]
      /\ conds["Validated"] = k.conds["Validated"]
  BY <1>3, SetType DEF ConditionTypes
<1>5. /\ worker'.pc = "labels" /\ worker'.base = worker.base /\ worker'.err = worker.err
      /\ worker'.expects = worker.expects
      /\ worker'.karta = [k EXCEPT !.conds = conds] /\ worker' \in WorkerRecord
  <2> HIDE DEF conds
  <2>1. worker' = [worker EXCEPT !.pc = "labels", !.karta = [k EXCEPT !.conds = conds]]
    BY <1>1, <1>2 DEF WorkerRecord
  <2>2. [k EXCEPT !.conds = conds] \in {j \in Karta : j.conds # None}
    BY <1>3, <1>4, CondsType
  <2> HIDE DEF k
  <2> QED
    BY <1>2, <2>1, <2>2 DEF WorkerRecord
<1>6. KartaTypes' /\ CRDTypes' /\ Watched' /\ RestInv'
  BY <1>1, <1>5 DEF OperatorInv, KartaTypes, CRDTypes, Watched, RestInv, Working, Idle
<1>7. ReconcileInv'
  <2> SUFFICES ASSUME Still PROVE ReconcileInv'
    BY <1>1 DEF ReconcileInv, Still
  <2>1. /\ worker.base = cache /\ ~worker.base.deleting /\ ~worker.err
        /\ k = [worker.base EXCEPT !.conds = k.conds]
        /\ ValidatedIsRight(worker.base, k.conds)
    BY <1>1, <1>2 DEF OperatorInv, ReconcileInv, Working
  <2>2. k.gvk = worker.base.gvk /\ k.gen = worker.base.gen
    BY <1>2, <2>1 DEF WorkerRecord, Karta
  <2>3. worker'.karta = [worker.base EXCEPT !.conds = conds] /\ worker'.karta.conds = conds
    <3> HIDE DEF conds
    <3>1. worker.base \in Karta
      BY <1>2 DEF WorkerRecord
    <3> QED
      BY <1>3, <1>4, <1>5, <2>1, <3>1, CondsType DEF Karta
  <2>4. ValidatedIsRight(worker.base, conds) /\ CRDIsRight(worker.base, conds)
    BY <1>4, <2>1, <2>2 DEF ValidatedIsRight, CRDIsRight
  <2> HIDE DEF conds, k
  <2> QED
    BY <1>1, <1>5, <2>1, <2>3, <2>4 DEF ReconcileInv, ValidatedIsRight, CRDIsRight
<1> QED
  BY <1>6, <1>7 DEF OperatorInv

\* setReady.
LEMMA ReadyType ==
  ASSUME NEW k \in {j \in Karta : j.conds # None}
  PROVE  LET ready == WithReady(k)
         IN  /\ ready \in {j \in Karta : j.conds # None}
             /\ ready = [k EXCEPT !.conds = ready.conds]
             /\ ready.conds["Validated"] = k.conds["Validated"]
             /\ ready.conds["CRDExists"] = k.conds["CRDExists"]
             /\ ReadyIsDerived(k, ready.conds)
<1> DEFINE good == \A type \in {"Validated", "CRDExists"} : k.conds[type].status = "True"
           conds == Set(k.conds, "Ready", Bool(good), k.gen)
<1>1. k \in Karta /\ k.conds \in Conditions /\ k.gen \in Nat /\ good \in BOOLEAN
  BY DEF Karta
<1>2. WithReady(k) = [k EXCEPT !.conds = conds]
  BY DEF WithReady
<1> HIDE DEF good
<1>3. /\ conds \in Conditions /\ conds["Ready"] = [status |-> Bool(good), gen |-> k.gen]
      /\ conds["Validated"] = k.conds["Validated"] /\ conds["CRDExists"] = k.conds["CRDExists"]
  BY <1>1, SetType DEF ConditionTypes
<1> HIDE DEF conds
<1>4. /\ [k EXCEPT !.conds = conds] \in {j \in Karta : j.conds # None}
      /\ [k EXCEPT !.conds = conds].conds = conds
  BY <1>1, <1>3, CondsType
<1>5. ReadyIsDerived(k, conds)
  BY <1>3 DEF ReadyIsDerived, good
<1> QED
  BY <1>2, <1>3, <1>4, <1>5

\* ensureLabels: the labels are right already, or the patch fails and the request
\* is repeated, or it is sent back by the watch.
LEMMA EnsureLabelsKeeps ==
  ASSUME OperatorInv, EnsureLabels
  PROVE  OperatorInv'
<1> DEFINE k == worker.karta
           labelled == [server EXCEPT !.labels = k.gvk]
<1>1. /\ worker.pc = "labels"
      /\ UNCHANGED <<cache, crds, crdStream, crdCache, mapping, queued>>
  BY DEF EnsureLabels, crdVars
<1>2. worker \in WorkerRecord /\ worker # Idle /\ KartaTypes /\ Watched
  BY <1>1 DEF OperatorInv, KartaTypes, Idle
<1>3. k \in {j \in Karta : j.conds # None} /\ k \in Karta /\ k.gvk \in GVKs \cup {None}
  BY <1>2 DEF WorkerRecord, Karta
<1>4. server # None => labelled \in Karta
  BY <1>2, <1>3 DEF KartaTypes, Karta
<1>5. CRDTypes'
  BY <1>1 DEF OperatorInv, CRDTypes
<1>6. \/ /\ LabelsMatch(k)
         /\ worker' = [worker EXCEPT !.pc = "status", !.karta = WithReady(k)]
         /\ UNCHANGED <<server, stream>>
      \/ /\ worker' = [worker EXCEPT !.pc = "status", !.err = TRUE]
         /\ UNCHANGED <<server, stream>> \/ (server # None /\ Write(labelled))
      \/ /\ ~LabelsMatch(k) /\ server # None /\ Write(labelled)
         /\ worker' = [worker EXCEPT !.pc = "status", !.expects = labelled,
                                     !.karta = WithReady(Decoded(k, labelled))]
  BY DEF EnsureLabels, LabelsFail, kartaVars
<1>7. (UNCHANGED <<server, stream>> \/ (server # None /\ Write(labelled)))
        => /\ server' \in Karta \cup {None} /\ stream' \in Seq(Karta \cup {None}) /\ Watched'
           /\ stream' = <<>> => stream = <<>> /\ server' = server
  <2>1. CASE UNCHANGED <<server, stream>>
    BY <1>1, <1>2, <2>1 DEF KartaTypes, Watched
  <2>2. CASE server # None /\ Write(labelled)
    <3> HIDE DEF labelled
    <3>1. /\ server' \in Karta \cup {None} /\ stream' \in Seq(Karta \cup {None})
          /\ server' = Newest(stream', cache')
          /\ stream' = <<>> => stream = <<>> /\ server' = server
      BY <1>1, <1>2, <1>4, <2>2, WriteIsWatched
    <3> QED
      BY <1>1, <1>2, <3>1 DEF Watched
  <2> QED
    BY <2>1, <2>2
<1>8. /\ WithReady(k) \in {j \in Karta : j.conds # None}
      /\ WithReady(k) = [k EXCEPT !.conds = WithReady(k).conds]
      /\ WithReady(k).conds["Validated"] = k.conds["Validated"]
      /\ WithReady(k).conds["CRDExists"] = k.conds["CRDExists"]
      /\ ReadyIsDerived(k, WithReady(k).conds)
  BY <1>3, ReadyType
<1>9. worker'.pc = "status" => RestInv'
  BY DEF RestInv, Working, Idle
<1>10. Still /\ worker' # Idle =>
         /\ worker.base = cache /\ server = cache /\ ~worker.base.deleting /\ ~worker.err
         /\ k = [worker.base EXCEPT !.conds = k.conds]
         /\ ValidatedIsRight(worker.base, k.conds)
         /\ ~LabelsMatch(worker.base) \/ CRDIsRight(worker.base, k.conds) \/ Mapped(worker.base)
  BY <1>1, <1>2 DEF OperatorInv, ReconcileInv, Working, Still, Watched, Newest
<1>11. CASE LabelsMatch(k) /\ worker' = [worker EXCEPT !.pc = "status", !.karta = WithReady(k)]
            /\ UNCHANGED <<server, stream>>
  <2> DEFINE ready == WithReady(k)
  <2> HIDE DEF ready, k
  <2>1. /\ worker' \in WorkerRecord /\ worker'.pc = "status" /\ worker'.base = worker.base
        /\ worker'.karta = ready /\ worker'.err = worker.err
    BY <1>2, <1>8, <1>11 DEF WorkerRecord, ready, k
  <2>2. KartaTypes' /\ Watched'
    BY <1>1, <1>2, <1>11, <2>1 DEF KartaTypes, Watched
  <2>3. ReconcileInv'
    <3> SUFFICES ASSUME Still PROVE ReconcileInv'
      BY <1>1, <1>11 DEF ReconcileInv, Still
    <3>1. /\ worker.base = cache /\ ~worker.base.deleting
          /\ k = [worker.base EXCEPT !.conds = k.conds]
          /\ ValidatedIsRight(worker.base, k.conds)
          /\ ~LabelsMatch(worker.base) \/ CRDIsRight(worker.base, k.conds) \/ Mapped(worker.base)
      BY <1>10, <2>1 DEF Idle, k
    <3>2. worker.base \in Karta /\ k \in Karta /\ k.gvk = worker.base.gvk /\ k.gen = worker.base.gen
          /\ k.labels = worker.base.labels
      BY <1>2, <1>3, <3>1 DEF WorkerRecord, Karta, k
    <3>3. LabelsMatch(worker.base)
      BY <1>11, <3>2 DEF LabelsMatch
    <3>4. ready = [worker.base EXCEPT !.conds = ready.conds]
      BY <1>8, <3>1, <3>2 DEF ready, k, Karta
    <3>5. /\ ValidatedIsRight(worker.base, ready.conds)
          /\ CRDIsRight(worker.base, ready.conds) \/ Mapped(worker.base)
          /\ ReadyIsDerived(worker.base, ready.conds)
      BY <1>8, <3>1, <3>2, <3>3 DEF ValidatedIsRight, CRDIsRight, ReadyIsDerived, ready, k
    <3> QED
      BY <1>1, <2>1, <3>1, <3>3, <3>4, <3>5
      DEF ReconcileInv, ValidatedIsRight, CRDIsRight, ReadyIsDerived, Mapped, LabelsMatch
  <2> QED
    BY <1>5, <1>9, <2>1, <2>2, <2>3 DEF OperatorInv
<1>12. CASE worker' = [worker EXCEPT !.pc = "status", !.err = TRUE]
            /\ (UNCHANGED <<server, stream>> \/ (server # None /\ Write(labelled)))
  <2> HIDE DEF labelled, k
  <2>1. /\ worker' \in WorkerRecord /\ worker'.pc = "status" /\ worker'.base = worker.base
        /\ worker'.karta = k /\ worker'.err
    BY <1>2, <1>12 DEF WorkerRecord, k
  <2>2. KartaTypes' /\ Watched' /\ (stream' = <<>> => stream = <<>>)
    BY <1>1, <1>2, <1>7, <1>12, <2>1 DEF KartaTypes
  <2>3. ReconcileInv'
    <3> SUFFICES ASSUME Still PROVE ReconcileInv'
      BY <1>1, <2>2 DEF ReconcileInv, Still
    <3> QED
      BY <1>1, <1>10, <2>1 DEF ReconcileInv, ValidatedIsRight, Idle, k
  <2> QED
    BY <1>5, <1>9, <2>1, <2>2, <2>3 DEF OperatorInv
<1>13. CASE /\ ~LabelsMatch(k) /\ server # None /\ Write(labelled)
            /\ worker' = [worker EXCEPT !.pc = "status", !.expects = labelled,
                                        !.karta = WithReady(Decoded(k, labelled))]
  <2>1. labelled \in Karta /\ server \in Karta
    BY <1>2, <1>4, <1>13 DEF KartaTypes
  <2>2. Decoded(k, labelled) \in {j \in Karta : j.conds # None}
    <3> HIDE DEF labelled, k
    <3> QED
      BY <1>3, <2>1 DEF Decoded, Karta
  <2>3. WithReady(Decoded(k, labelled)) \in {j \in Karta : j.conds # None}
    <3> HIDE DEF labelled, k
    <3> QED
      BY <2>2, ReadyType
  <2>4. worker' \in WorkerRecord /\ worker'.pc = "status" /\ worker' # Idle
    <3> DEFINE ready == WithReady(Decoded(k, labelled))
    <3> HIDE DEF labelled, k, ready
    <3>1. worker' = [worker EXCEPT !.pc = "status", !.expects = labelled, !.karta = ready]
      BY <1>13 DEF ready
    <3>2. ready \in {j \in Karta : j.conds # None}
      BY <2>3 DEF ready
    <3> QED
      BY <1>2, <2>1, <3>1, <3>2 DEF WorkerRecord, Idle
  <2>5. KartaTypes' /\ Watched' /\ (stream' = <<>> => stream = <<>> /\ server' = server)
    <3> HIDE DEF labelled
    <3> QED
      BY <1>1, <1>2, <1>7, <1>13, <2>4 DEF KartaTypes
  <2>6. ~Still'
    <3> SUFFICES ASSUME Still' PROVE FALSE
      OBVIOUS
    <3>1. Still /\ server' = server /\ server' = labelled
      BY <1>1, <1>13, <2>5 DEF Still, Write
    <3>2. server = worker.base /\ k = [worker.base EXCEPT !.conds = k.conds]
      BY <1>10, <2>4, <3>1
    <3>3. k.gvk = server.gvk /\ k.labels = server.labels
      BY <1>3, <2>1, <3>2 DEF Karta
    <3>4. server.labels = k.gvk
      BY <2>1, <3>1 DEF Karta
    <3> QED
      BY <1>13, <3>3, <3>4 DEF LabelsMatch
  <2>7. ReconcileInv'
    BY <2>6 DEF ReconcileInv
  <2> QED
    BY <1>5, <1>9, <2>4, <2>5, <2>7 DEF OperatorInv
<1> QED
  BY <1>6, <1>11, <1>12, <1>13

\* The status patch: a reconcile that fails is repeated, one that changes the
\* Karta gets it back by the watch, and one that changes nothing found the
\* conditions right.
LEMMA PatchStatusKeeps ==
  ASSUME OperatorInv, PatchStatus
  PROVE  OperatorInv'
<1> DEFINE conds == worker.karta.conds
           patched == IF conds = worker.base.conds THEN server ELSE [server EXCEPT !.conds = conds]
<1>1. /\ worker.pc = "status" /\ worker' = Idle
      /\ UNCHANGED <<cache, crds, crdStream, crdCache, mapping>>
  BY DEF PatchStatus, Return, crdVars
<1>2. worker \in WorkerRecord /\ worker # Idle /\ KartaTypes /\ Watched
  BY <1>1 DEF OperatorInv, KartaTypes, Idle
<1>3. conds \in Conditions
  BY <1>2 DEF WorkerRecord, Karta
<1>4. server # None => patched \in Karta
  BY <1>2, <1>3 DEF KartaTypes, Karta
<1>5. \/ /\ queued' = (queued \/ TRUE \/ worker.err)
         /\ UNCHANGED <<server, stream>> \/ (server # None /\ Write(patched))
      \/ /\ queued' = (queued \/ FALSE \/ worker.err)
         /\ server # None /\ Write(patched)
  BY DEF PatchStatus, Return, kartaVars
<1> HIDE DEF patched
<1>6. /\ server' \in Karta \cup {None} /\ stream' \in Seq(Karta \cup {None})
      /\ server' = Newest(stream', cache')
      /\ stream' = <<>> => stream = <<>>
      /\ stream' = <<>> /\ Write(patched) => patched = server
  <2>1. CASE UNCHANGED <<server, stream>> /\ ~Write(patched)
    BY <1>1, <1>2, <2>1 DEF KartaTypes, Watched
  <2>2. CASE server # None /\ Write(patched)
    BY <1>1, <1>2, <1>4, <2>2, WriteIsWatched
  <2>3. CASE UNCHANGED <<server, stream>> /\ server = None /\ Write(patched)
    BY <1>1, <1>2, <2>3 DEF KartaTypes, Watched, Write
  <2> QED
    BY <1>5, <2>1, <2>2, <2>3
<1>7. KartaTypes' /\ CRDTypes' /\ Watched' /\ ReconcileInv'
  <2>1. queued' \in BOOLEAN
    BY <1>2, <1>5 DEF KartaTypes, WorkerRecord
  <2> QED
    BY <1>1, <1>2, <1>6, <2>1 DEF OperatorInv, KartaTypes, CRDTypes, Watched, ReconcileInv, Working
<1>8. RestInv'
  <2> SUFFICES ASSUME Still', cache # None, ~cache.deleting PROVE RestInv'
    BY <1>1 DEF RestInv
  <2>1. ~queued /\ ~worker.err /\ stream = <<>> /\ patched = server /\ server # None
    BY <1>2, <1>5, <1>6 DEF Still, KartaTypes, WorkerRecord
  <2>2. Still /\ server = cache
    BY <1>2, <2>1 DEF Still, Watched, Newest
  <2>3. /\ worker.base = cache /\ LabelsMatch(cache) /\ ValidatedIsRight(cache, conds)
        /\ CRDIsRight(cache, conds) \/ Mapped(cache)
        /\ ReadyIsDerived(cache, conds)
    BY <1>1, <1>2, <2>1, <2>2 DEF OperatorInv, ReconcileInv, Working
  <2>4. cache.conds = conds /\ conds # None
    <3>1. CASE conds = worker.base.conds
      BY <1>3, <2>3, <3>1, OperatorAssumption
    <3>2. CASE conds # worker.base.conds
      <4>1. server = [server EXCEPT !.conds = conds] /\ server \in Karta
        BY <1>2, <2>1, <3>2 DEF patched, KartaTypes
      <4>2. [server EXCEPT !.conds = conds].conds = conds
        BY <4>1 DEF Karta
      <4> QED
        BY <1>3, <2>2, <4>1, <4>2, OperatorAssumption
    <3> QED
      BY <3>1, <3>2
  <2> HIDE DEF conds
  <2> QED
    BY <1>1, <2>3, <2>4 DEF RestInv, LabelsMatch, ValidatedIsRight, CRDIsRight, Mapped, ReadyIsDerived
<1> QED
  BY <1>7, <1>8 DEF OperatorInv

-------------------------------------------------------------------------------
(* The theorem *)

\* The manager starts with filled caches and a request for an existing Karta.
LEMMA InitOperatorInv == Init => OperatorInv
<1> SUFFICES ASSUME Init PROVE OperatorInv
  OBVIOUS
<1> USE DEF Init
<1>1. \A s \in Specs : Created(s) \in Karta /\ ~Created(s).deleting
  <2> TAKE s \in Specs
  <2>1. s.gvk \in GVKs \cup {None} /\ s.valid \in BOOLEAN
    BY OperatorAssumption
  <2> QED
    BY <2>1 DEF Created, Karta
<1>2. server \in Karta \cup {None} /\ queued \in BOOLEAN
  BY <1>1
<1>3. KartaTypes
  BY <1>2 DEF KartaTypes
<1>4. CRDTypes
  <2>1. \A gk \in GroupKinds : crdStream[gk] = <<>> /\ <<>> \in Seq(SUBSET Versions)
    OBVIOUS
  <2>2. crds \in [GroupKinds -> SUBSET Versions]
    OBVIOUS
  <2> QED
    BY <2>1, <2>2 DEF CRDTypes
<1>5. Watched
  BY DEF Watched, Newest
<1>6. ReconcileInv /\ RestInv
  BY DEF ReconcileInv, RestInv, Working, Still
<1> QED
  BY <1>3, <1>4, <1>5, <1>6 DEF OperatorInv

\* Every step keeps it.
LEMMA NextOperatorInv == OperatorInv /\ [Next]_vars => OperatorInv'
<1> SUFFICES ASSUME OperatorInv, [Next]_vars PROVE OperatorInv'
  OBVIOUS
<1>1. CASE Users
  BY <1>1, UsersKeep
<1>2. CASE Events
  BY <1>2, DeliverKeeps, DeliverCRDKeeps, MapCRDKeeps DEF Events
<1>3. CASE Reconcile
  BY <1>3, TakeKeeps, CheckCRDKeeps, EnsureLabelsKeeps, PatchStatusKeeps DEF Reconcile
<1>4. CASE UNCHANGED vars
  <2>1. UNCHANGED <<server, stream, cache, crds, crdStream, crdCache, mapping, queued, worker>>
    BY <1>4 DEF vars, kartaVars, crdVars
  <2>2. ReconcileInv' /\ RestInv'
    BY <2>1, QuietKeeps DEF OperatorInv, Still
  <2> QED
    BY <2>1, <2>2 DEF OperatorInv, KartaTypes, CRDTypes, Watched
<1> QED
  BY <1>1, <1>2, <1>3, <1>4 DEF Next

\* Nothing left to deliver, map or reconcile means that the conditions are right.
LEMMA RestIsSettled == OperatorInv => StatusSettled
<1> SUFFICES ASSUME OperatorInv, Still, worker = Idle, mapping = {},
                    \A gk \in GroupKinds : crdStream[gk] = <<>>,
                    server # None, ~server.deleting
             PROVE  UpToDate
  BY DEF StatusSettled, UpToDate, Still
<1>1. server = cache /\ server \in Karta
  BY DEF OperatorInv, Watched, Newest, Still, KartaTypes
<1>2. crds = crdCache
  <2>1. \A gk \in GroupKinds : crds[gk] = crdCache[gk]
    BY DEF OperatorInv, Watched, Newest
  <2> QED
    BY <2>1 DEF OperatorInv, CRDTypes
<1> DEFINE conds == server.conds
<1>3. /\ conds # None /\ LabelsMatch(server)
      /\ ValidatedIsRight(server, conds) /\ CRDIsRight(server, conds) /\ ReadyIsDerived(server, conds)
  BY <1>1 DEF OperatorInv, RestInv, Working, Mapped
<1>4. conds \in Conditions /\ server.valid \in BOOLEAN
  BY <1>1, <1>3 DEF Karta
<1>5. /\ conds["Validated"] = Expected(server)["Validated"]
      /\ conds["CRDExists"] = Expected(server)["CRDExists"]
  BY <1>2, <1>3 DEF ValidatedIsRight, CRDIsRight, Expected, ConditionTypes
<1>6. conds["Ready"] = Expected(server)["Ready"]
  <2>1. (conds["Validated"].status = "True" <=> server.valid)
        /\ (conds["CRDExists"].status = "True" <=> Served(server.gvk, crds))
    BY <1>2, <1>3 DEF ValidatedIsRight, CRDIsRight, Bool
  <2>2. conds["Ready"] = [status |-> Bool(server.valid /\ Served(server.gvk, crds)), gen |-> server.gen]
    <3>1. (\A type \in {"Validated", "CRDExists"} : conds[type].status = "True")
            <=> (server.valid /\ Served(server.gvk, crds))
      BY <2>1
    <3> QED
      BY <1>3, <3>1 DEF ReadyIsDerived, Bool
  <2> QED
    BY <2>2 DEF Expected, ConditionTypes
<1>7. conds = Expected(server)
  BY <1>4, <1>5, <1>6 DEF Expected, ConditionTypes, Conditions
<1> QED
  BY <1>3, <1>5, <1>7 DEF UpToDate

\* When no event and no request is left for a Karta, its conditions are those of
\* its current spec and of the CRDs that exist now, and its labels spell its kind.
THEOREM OperatorStatusSettled == Spec => []StatusSettled
<1>1. OperatorInv => StatusSettled
  BY RestIsSettled
<1> QED
  BY <1>1, InitOperatorInv, NextOperatorInv, PTL DEF Spec
===============================================================================
