--------------------------- MODULE InventoryProofs ---------------------------
(***************************************************************************)
(* Proofs about Inventory for every set of Kartas and names and all        *)
(* bounds: its type invariant, that health is only restored by a list no   *)
(* failure overtook, that it implements DefinitionSource, that the         *)
(* controller loses no change between the one-element changes channel, its *)
(* queue and the pass that reads List and commits, and that the loop of    *)
(* the election finds the oldest candidate in whatever order it runs.      *)
(***************************************************************************)
EXTENDS InventoryObserver, FiniteSetTheorems, NaturalsInduction, TLAPS

\* Two successive states of the API server differ in one Karta at most.
HistoryStepsByOne ==
  \A i \in 1..(Len(history) - 1), n, m \in Names :
    history[i + 1][n] # history[i][n] /\ history[i + 1][m] # history[i][m] => n = m

\* A list the reflector holds is not older than what it applied, and watching
\* starts after a list was applied.
ReflectorInv ==
  /\ phase = "replace" => snap \in 1..Len(history) /\ snap >= pos
  /\ phase \in {"watching", "rewatch"} => synced
  /\ synced => pos >= 1

\* Without a failure, none was recorded since the last list began.
FailureInv == failure = "none" => listedFrom = failures

Inv ==
  TypeOK /\ HistoryStepsByOne /\ ReflectorInv /\ FailureInv
    /\ HealthyMeansFresh /\ ClusterMatchesPosition

USE ElectionAssumption, BoundAssumption

-------------------------------------------------------------------------------

\* The source filter maps a complete list to a map of Kartas.
LEMMA FilteredType ==
  ASSUME NEW m \in ClusterMap
  PROVE  Filtered(m) \in ClusterMap
BY DEF ClusterMap, Filtered

\* Applying one event to the filtered Kartas of a state gives the filtered
\* Kartas of the next one (Add, Update and Delete of reflectorStore).
LEMMA FilteredStep ==
  ASSUME NEW m \in ClusterMap, NEW next \in ClusterMap, NEW n \in Names,
         \A o \in Names : o # n => next[o] = m[o]
  PROVE  Filtered(next) = IF n \in Included THEN [Filtered(m) EXCEPT ![n] = next[n]]
                                           ELSE Filtered(m)
BY DEF ClusterMap, Filtered

\* Appending a state to the history keeps the earlier ones.
LEMMA HistoryAppend ==
  ASSUME TypeOK, NEW n \in Names, NEW k \in Kartas \cup {NoKarta}, Edit(n, k)
  PROVE  /\ history' \in Seq(ClusterMap)
         /\ Len(history') = Len(history) + 1
         /\ \A i \in 1..Len(history) : history'[i] = history[i]
         /\ history'[Len(history) + 1] = [Server EXCEPT ![n] = k]
         /\ Server \in ClusterMap /\ [Server EXCEPT ![n] = k] \in ClusterMap
<1>1. history \in Seq(ClusterMap) /\ Len(history) \in Nat /\ Len(history) >= 1
  BY DEF TypeOK
<1>2. Server \in ClusterMap
  BY <1>1 DEF Server
<1>3. [Server EXCEPT ![n] = k] \in ClusterMap
  BY <1>2 DEF ClusterMap
<1> QED
  BY <1>1, <1>2, <1>3 DEF Edit

-------------------------------------------------------------------------------

\* The invariant holds initially.
LEMMA InitInv == Init => Inv
<1> SUFFICES ASSUME Init PROVE Inv
  OBVIOUS
<1>1. PICK m \in ClusterMap : history = <<m>>
  BY DEF Init
<1>2. cluster \in ClusterMap
  BY DEF Init, ClusterMap
<1>2a. history \in Seq(ClusterMap) /\ Len(history) = 1
  BY <1>1
<1>3. TypeOK
  <2>1. /\ failures \in Nat /\ listedFrom \in Nat /\ appliedFrom \in Nat
        /\ snap \in 0..Len(history) /\ pos \in 0..Len(history) /\ Len(history) >= 1
    BY <1>2a DEF Init
  <2>2. /\ synced \in BOOLEAN /\ stopped \in BOOLEAN /\ changes \in BOOLEAN
        /\ ctxDone \in BOOLEAN /\ received \in BOOLEAN
    BY DEF Init
  <2>3. /\ failure \in FailureKinds \cup {"none"} /\ phase \in Phases
        /\ stream \in {"closed", "open", "errored", "ended"}
    BY DEF Init, Phases
  <2> QED
    BY <1>2, <1>2a, <2>1, <2>2, <2>3, Zenon DEF TypeOK
<1>4. HistoryStepsByOne
  BY <1>1 DEF HistoryStepsByOne
<1> QED
  BY <1>3, <1>4 DEF Inv, Init, ReflectorInv, FailureInv, HealthyMeansFresh, ClusterMatchesPosition

\* A change at the API server preserves the invariant.
LEMMA EditInv ==
  ASSUME Inv, NEW n \in Names, NEW k \in Kartas \cup {NoKarta}, Edit(n, k)
  PROVE  Inv'
<1>0. TypeOK /\ HistoryStepsByOne /\ ReflectorInv /\ FailureInv /\ HealthyMeansFresh
        /\ ClusterMatchesPosition
  BY DEF Inv
<1>1. /\ history' \in Seq(ClusterMap)
      /\ Len(history') = Len(history) + 1
      /\ \A i \in 1..Len(history) : history'[i] = history[i]
      /\ history'[Len(history) + 1] = [Server EXCEPT ![n] = k]
      /\ Server \in ClusterMap /\ [Server EXCEPT ![n] = k] \in ClusterMap
  BY <1>0, HistoryAppend
<1>2. UNCHANGED <<cluster, stopped, changes, ctxDone, healthVars, reflectorVars>>
  BY DEF Edit
<1>3. TypeOK'
  BY <1>0, <1>1, <1>2 DEF TypeOK, healthVars, reflectorVars
<1>4. HistoryStepsByOne'
  <2> SUFFICES ASSUME NEW i \in 1..(Len(history') - 1), NEW a \in Names, NEW b \in Names,
                      history'[i + 1][a] # history'[i][a], history'[i + 1][b] # history'[i][b]
               PROVE  a = b
    BY DEF HistoryStepsByOne
  <2>0. Len(history) \in Nat /\ Len(history) >= 1
    BY <1>0 DEF TypeOK
  <2>1. CASE i < Len(history)
    <3>1. i \in 1..(Len(history) - 1) /\ i + 1 \in 1..Len(history) /\ i \in 1..Len(history)
      BY <1>1, <2>0, <2>1
    <3>2. history'[i] = history[i] /\ history'[i + 1] = history[i + 1]
      BY <1>1, <3>1
    <3> QED
      BY <1>0, <3>1, <3>2 DEF HistoryStepsByOne
  <2>2. CASE i = Len(history)
    <3>1. history'[i] = Server /\ history'[i + 1] = [Server EXCEPT ![n] = k]
      BY <1>1, <2>0, <2>2 DEF Server
    <3>2. \A o \in Names : o # n => history'[i + 1][o] = history'[i][o]
      BY <1>1, <3>1 DEF ClusterMap
    <3> QED
      BY <3>2
  <2> QED
    BY <1>1, <2>0, <2>1, <2>2
<1>5. ReflectorInv'
  BY <1>0, <1>1, <1>2 DEF ReflectorInv, TypeOK, healthVars, reflectorVars
<1>6. ClusterMatchesPosition'
  BY <1>0, <1>1, <1>2 DEF ClusterMatchesPosition, ReflectorInv, TypeOK, healthVars, reflectorVars, Filtered
<1> QED
  BY <1>0, <1>2, <1>3, <1>4, <1>5, <1>6
     DEF Inv, FailureInv, HealthyMeansFresh, healthVars

\* Steps that touch neither the history nor the map nor the position.
QuietNext ==
  \/ BeginList \/ ResumeWatch \/ AbandonStream
  \/ \E i \in 1..Len(history) : ListReturns(i) \/ InitialEventsEnd(i)
  \/ \E kind \in FailureKinds :
       ListFails(kind) \/ StreamingStartFails(kind) \/ ResumeFails(kind) \/ StreamError(kind)
  \/ BeginStreamingList \/ StreamingUnsupported \/ InitialEvent \/ StreamCloses
  \/ Cancel \/ StopRun

\* They preserve the invariant: a failure is recorded with a new count, and a
\* list begins with the current one.
LEMMA QuietInv ==
  ASSUME Inv, QuietNext
  PROVE  Inv' /\ UNCHANGED <<history, cluster, pos>>
<1>0. TypeOK /\ HistoryStepsByOne /\ ReflectorInv /\ FailureInv /\ HealthyMeansFresh
        /\ ClusterMatchesPosition
  BY DEF Inv
<1> USE DEF TypeOK, ReflectorInv, FailureInv, HealthyMeansFresh, Phases, FailureKinds, Fail,
            healthVars, reflectorVars
<1> DEFINE Local ==
      UNCHANGED <<history, cluster, pos>> /\ TypeOK' /\ ReflectorInv' /\ FailureInv'
        /\ HealthyMeansFresh' /\ synced' = synced
<1>1. ASSUME BeginList PROVE Local
  BY <1>0, <1>1 DEF BeginList
<1>2. ASSUME \E i \in 1..Len(history) : ListReturns(i) PROVE Local
  BY <1>0, <1>2 DEF ListReturns
<1>3. ASSUME \E i \in 1..Len(history) : InitialEventsEnd(i) PROVE Local
  <2>1. PICK i \in 1..Len(history) : InitialEventsEnd(i)
    BY <1>3
  <2>2. received' = FALSE
    BY <2>1 DEF InitialEventsEnd
  <2>3. UNCHANGED <<history, cluster, stopped, changes, ctxDone, pos, stream, healthVars>>
    BY <2>1 DEF InitialEventsEnd
  <2>4. snap' = i /\ phase' = "replace" /\ i >= pos
    BY <2>1 DEF InitialEventsEnd
  <2>5. TypeOK'
    <3>1. received' \in BOOLEAN
      BY <2>2
    <3>2. snap' \in 0..Len(history') /\ phase' \in Phases
      BY <1>0, <2>3, <2>4
    <3> QED
      BY <1>0, <2>3, <3>1, <3>2
  <2> QED
    BY <1>0, <2>3, <2>4, <2>5
<1>4. ASSUME ResumeWatch PROVE Local
  BY <1>0, <1>4 DEF ResumeWatch, OpenStream
<1>5. ASSUME AbandonStream PROVE Local
  BY <1>0, <1>5 DEF AbandonStream
<1>6. ASSUME \E kind \in FailureKinds : ListFails(kind) PROVE Local
  BY <1>0, <1>6 DEF ListFails
<1>7. ASSUME \E kind \in FailureKinds : StreamingStartFails(kind) PROVE Local
  BY <1>0, <1>7 DEF StreamingStartFails
<1>8. ASSUME \E kind \in FailureKinds : ResumeFails(kind) PROVE Local
  BY <1>0, <1>8 DEF ResumeFails
<1>9. ASSUME \E kind \in FailureKinds : StreamError(kind) PROVE Local
  <2>1. PICK kind \in FailureKinds : StreamError(kind)
    BY <1>9
  <2>2. received' = TRUE /\ stream' = "errored"
        /\ UNCHANGED <<history, cluster, stopped, ctxDone, phase, snap, pos>>
    BY <2>1 DEF StreamError
  <2>3. CASE UNCHANGED <<changes, healthVars>>
    BY <1>0, <2>2, <2>3
  <2>4. CASE Fail(kind)
    BY <1>0, <2>2, <2>4
  <2> QED
    BY <2>1, <2>3, <2>4 DEF StreamError
<1>10. ASSUME BeginStreamingList PROVE Local
  BY <1>0, <1>10 DEF BeginStreamingList, OpenStream
<1>11. ASSUME StreamingUnsupported PROVE Local
  BY <1>0, <1>11 DEF StreamingUnsupported
<1>12. ASSUME InitialEvent PROVE Local
  BY <1>0, <1>12 DEF InitialEvent
<1>13. ASSUME StreamCloses PROVE Local
  <2>1. stream' = "ended" /\ UNCHANGED <<history, cluster, stopped, ctxDone, phase, snap, pos, received>>
    BY <1>13 DEF StreamCloses
  <2>2. CASE UNCHANGED <<changes, healthVars>>
    BY <1>0, <2>1, <2>2
  <2>3. CASE Fail("unavailable")
    BY <1>0, <2>1, <2>3
  <2>4. UNCHANGED <<changes, healthVars>> \/ Fail("unavailable")
    BY <1>13, Zenon DEF StreamCloses
  <2> QED
    BY <2>2, <2>3, <2>4
<1>14. ASSUME Cancel PROVE Local
  BY <1>0, <1>14 DEF Cancel
<1>15. ASSUME StopRun PROVE Local
  BY <1>0, <1>15 DEF StopRun
<1>16. Local
  BY <1>1, <1>2, <1>3, <1>4, <1>5, <1>6, <1>7, <1>8, <1>9, <1>10, <1>11, <1>12, <1>13, <1>14, <1>15 DEF QuietNext
<1>17. HistoryStepsByOne' /\ ClusterMatchesPosition'
  BY <1>0, <1>16 DEF HistoryStepsByOne, ClusterMatchesPosition
<1> QED
  BY <1>16, <1>17 DEF Inv

-------------------------------------------------------------------------------
(* Steps that move the map *)

\* reflectorStore.Replace preserves the invariant and moves to the list's state.
LEMMA ReplaceInv ==
  ASSUME Inv, Replace
  PROVE  /\ Inv' /\ history' = history
         /\ pos' \in 1..Len(history) /\ pos' >= pos /\ cluster' = Filtered(history[pos'])
<1>0. TypeOK /\ HistoryStepsByOne /\ ReflectorInv /\ FailureInv /\ HealthyMeansFresh
  BY DEF Inv
<1>1. /\ history' = history /\ pos' = snap /\ snap' = 0 /\ cluster' = Filtered(history[snap])
      /\ failure' = ClearedFailure /\ synced' = TRUE /\ changes' = TRUE /\ appliedFrom' = listedFrom
      /\ phase' \in {"rewatch", "watching"}
      /\ UNCHANGED <<stopped, failures, listedFrom, ctxDone, stream, received>>
  BY DEF Replace
<1>2. snap \in 1..Len(history) /\ snap >= pos
  BY <1>0 DEF Replace, ReflectorInv
<1>3. history[snap] \in ClusterMap /\ cluster' \in ClusterMap
  BY <1>0, <1>1, <1>2, FilteredType DEF TypeOK
<1>4. TypeOK'
  <2>1. synced' \in BOOLEAN /\ changes' \in BOOLEAN
    BY <1>1
  <2>2. failure' \in FailureKinds \cup {"none"} /\ phase' \in Phases
    BY <1>0, <1>1 DEF ClearedFailure, TypeOK, Phases
  <2> QED
    BY <1>0, <1>1, <1>2, <1>3, <2>1, <2>2 DEF TypeOK
<1>5. FailureInv' /\ HealthyMeansFresh'
  BY <1>0, <1>1 DEF FailureInv, HealthyMeansFresh, ClearedFailure, TypeOK, FailureKinds
<1>6. ReflectorInv' /\ HistoryStepsByOne' /\ ClusterMatchesPosition'
  <2>1. ReflectorInv'
    BY <1>1, <1>2 DEF ReflectorInv
  <2>2. HistoryStepsByOne'
    BY <1>0, <1>1 DEF HistoryStepsByOne
  <2>3. ClusterMatchesPosition'
    BY <1>1, <1>2 DEF ClusterMatchesPosition
  <2> QED
    BY <2>1, <2>2, <2>3
<1> QED
  BY <1>1, <1>2, <1>4, <1>5, <1>6 DEF Inv

\* So do Add, Update and Delete, which move to the next state.
LEMMA EventInv ==
  ASSUME Inv, NEW n \in Names, AddOrUpdate(n) \/ Delete(n)
  PROVE  /\ Inv' /\ history' = history
         /\ pos' \in 1..Len(history) /\ pos' >= pos /\ cluster' = Filtered(history[pos'])
<1>0. TypeOK /\ HistoryStepsByOne /\ ReflectorInv /\ FailureInv /\ HealthyMeansFresh
        /\ ClusterMatchesPosition
  BY DEF Inv
<1>1. /\ phase = "watching" /\ pos < Len(history) /\ Changed(n) /\ pos' = pos + 1 /\ received' = TRUE
      /\ UNCHANGED <<history, stopped, ctxDone, phase, snap, stream, healthVars>>
      /\ changes' = TRUE \/ changes' = changes
  BY DEF AddOrUpdate, Delete
<1>2. /\ synced /\ pos \in 1..(Len(history) - 1) /\ pos + 1 \in 1..Len(history) /\ pos \in 1..Len(history)
      /\ cluster = Filtered(history[pos])
  BY <1>0, <1>1 DEF TypeOK, ReflectorInv, ClusterMatchesPosition
<1>3. history[pos] \in ClusterMap /\ history[pos + 1] \in ClusterMap
  BY <1>0, <1>2 DEF TypeOK
<1>4. \A o \in Names : o # n => history[pos + 1][o] = history[pos][o]
  BY <1>0, <1>1, <1>2 DEF HistoryStepsByOne, Changed
<1>5. Filtered(history[pos + 1]) =
        IF n \in Included THEN [cluster EXCEPT ![n] = history[pos + 1][n]] ELSE cluster
  <2> DEFINE now == history[pos]
             next == history[pos + 1]
  <2>1. now \in ClusterMap /\ next \in ClusterMap /\ \A o \in Names : o # n => next[o] = now[o]
    BY <1>3, <1>4
  <2> HIDE DEF now, next
  <2>2. Filtered(next) = IF n \in Included THEN [Filtered(now) EXCEPT ![n] = next[n]] ELSE Filtered(now)
    BY <2>1, FilteredStep
  <2> QED
    BY <1>2, <2>2 DEF now, next
<1>6. cluster' = Filtered(history[pos + 1])
  <2>1. CASE AddOrUpdate(n)
    BY <1>5, <2>1 DEF AddOrUpdate
  <2>2. CASE Delete(n) /\ cluster[n] # NoKarta
    <3>1. n \in Included
      BY <1>2, <2>2 DEF Filtered
    <3> QED
      BY <1>5, <2>2, <3>1 DEF Delete
  <2>3. CASE Delete(n) /\ cluster[n] = NoKarta
    <3>1. n \notin Included
      BY <1>1, <1>2, <2>3 DEF Filtered, Delete, Changed
    <3> QED
      BY <1>5, <2>3, <3>1 DEF Delete
  <2> QED
    BY <2>1, <2>2, <2>3
<1>7. cluster' \in ClusterMap
  BY <1>3, <1>6, FilteredType
<1>8. TypeOK'
  <2>1. received' \in BOOLEAN /\ changes' \in BOOLEAN
    BY <1>0, <1>1 DEF TypeOK
  <2> QED
    BY <1>0, <1>1, <1>2, <1>7, <2>1 DEF TypeOK, healthVars
<1>9. /\ FailureInv' /\ HealthyMeansFresh' /\ HistoryStepsByOne' /\ ClusterMatchesPosition'
      /\ ReflectorInv'
  BY <1>0, <1>1, <1>2, <1>6
     DEF FailureInv, HealthyMeansFresh, HistoryStepsByOne, ClusterMatchesPosition, ReflectorInv,
         healthVars
<1> QED
  BY <1>1, <1>2, <1>6, <1>8, <1>9 DEF Inv

-------------------------------------------------------------------------------
(* The theorems *)

\* Every step edits the history, moves the map or leaves both alone.
LEMMA NextCases ==
  ASSUME InventoryNext
  PROVE  \/ \E n \in Names, k \in Kartas \cup {NoKarta} : Edit(n, k)
         \/ QuietNext
         \/ Replace
         \/ \E n \in Names : AddOrUpdate(n) \/ Delete(n)
BY Zenon DEF InventoryNext, ReflectorProgress, Environment, QuietNext

\* The invariant is inductive.
LEMMA InvStep == Inv /\ [InventoryNext]_inventoryVars => Inv'
<1> SUFFICES ASSUME Inv, [InventoryNext]_inventoryVars PROVE Inv'
  OBVIOUS
<1>1. CASE InventoryNext
  BY <1>1, NextCases, EditInv, QuietInv, ReplaceInv, EventInv
<1>2. CASE UNCHANGED inventoryVars
  <2>1. TypeOK'
    BY <1>2, Zenon DEF Inv, TypeOK, inventoryVars
  <2>2. ReflectorInv' /\ FailureInv' /\ HealthyMeansFresh'
    BY <1>2 DEF Inv, ReflectorInv, FailureInv, HealthyMeansFresh, inventoryVars
  <2>3. HistoryStepsByOne' /\ ClusterMatchesPosition'
    BY <1>2 DEF Inv, HistoryStepsByOne, ClusterMatchesPosition, inventoryVars
  <2> QED
    BY <2>1, <2>2, <2>3 DEF Inv
<1> QED
  BY <1>1, <1>2

\* The inductive invariant of the inventory and its reflector.
LEMMA InvAlways == Spec => []Inv
BY InitInv, InvStep, PTL DEF Spec

\* Type correctness of Inventory's fields.
THEOREM TypeCorrect == Spec => []TypeOK
<1>1. Inv => TypeOK
  BY DEF Inv
<1> QED
  BY <1>1, InvAlways, PTL

\* Inventory never reports health after a failure that no complete list began
\* after, however often lists and failures race (failures against listedFrom).
THEOREM HealthIsFresh == Spec => []HealthyMeansFresh
<1>1. Inv => HealthyMeansFresh
  BY DEF Inv
<1> QED
  BY <1>1, InvAlways, PTL

\* The map of cluster Kartas is that of the resource version applied last.
THEOREM ClusterIsConsistent == Spec => []ClusterMatchesPosition
<1>1. Inv => ClusterMatchesPosition
  BY DEF Inv
<1> QED
  BY <1>1, InvAlways, PTL

\* The inventory implements the abstract source of definitions.
THEOREM Implements == Spec => ImplementsSource
<1>1. Init => Source!SourceInit
  BY DEF Init, Source!SourceInit, Source!NothingShown, Source!ClusterMap, ClusterMap
<1>2. Inv /\ [InventoryNext]_inventoryVars => [Source!SourceNext]_<<history, pos, cluster>>
  <2> SUFFICES ASSUME Inv, [InventoryNext]_inventoryVars
               PROVE  [Source!SourceNext]_<<history, pos, cluster>>
    OBVIOUS
  <2>1. ASSUME NEW n \in Names, NEW k \in Kartas \cup {NoKarta}, Edit(n, k)
        PROVE  Source!SourceNext
    BY <2>1 DEF Edit, Server, reflectorVars, Source!SourceNext, Source!Change
  <2>2. CASE QuietNext
    BY <2>2, QuietInv
  <2>3. ASSUME /\ history' = history /\ pos' \in 1..Len(history) /\ pos' >= pos
               /\ cluster' = Filtered(history[pos'])
        PROVE  Source!SourceNext
    BY <2>3 DEF Source!SourceNext, Source!Advance, Source!Filtered, Filtered
  <2>4. CASE Replace
    BY <2>3, <2>4, ReplaceInv
  <2>5. ASSUME NEW n \in Names, AddOrUpdate(n) \/ Delete(n)
        PROVE  Source!SourceNext
    BY <2>3, <2>5, EventInv
  <2>6. CASE UNCHANGED inventoryVars
    BY <2>6 DEF inventoryVars
  <2> QED
    BY <2>1, <2>2, <2>4, <2>5, <2>6, NextCases
<1> QED
  BY <1>1, <1>2, InvAlways, PTL DEF Spec, ImplementsSource, Source!SourceSpec

-------------------------------------------------------------------------------
(* The controller as an observer: InventoryObserver *)

\* What the sources worker owes: with no signal and no key left, what it is
\* about to commit, or has committed, is what List returns now.
ObserverInv ==
  ~changes /\ ~queued =>
    /\ worker = "idle" => committed = List
    /\ worker = "commit" => prepared = List

\* List reads nothing but these variables.
LEMMA ListReads ==
  UNCHANGED <<cluster, stopped, synced, failure>> => List' = List
BY DEF List, Ready, Unavailable

\* Every critical section of the inventory that changes what List reads ends
\* with notify; the others leave the signal alone too.
LEMMA ChangesAreSignalled ==
  InventoryNext =>
    changes' = TRUE \/ UNCHANGED <<changes, cluster, stopped, synced, failure>>
<1> SUFFICES ASSUME InventoryNext
             PROVE  changes' = TRUE \/ UNCHANGED <<changes, cluster, stopped, synced, failure>>
  OBVIOUS
<1> USE DEF healthVars, reflectorVars
<1>1. CASE BeginList
  BY <1>1 DEF BeginList
<1>2. ASSUME NEW i \in 1..Len(history), ListReturns(i) \/ InitialEventsEnd(i)
      PROVE  UNCHANGED <<changes, cluster, stopped, synced, failure>>
  BY <1>2 DEF ListReturns, InitialEventsEnd
<1>3. CASE ResumeWatch
  BY <1>3 DEF ResumeWatch
<1>4. CASE AbandonStream
  BY <1>4 DEF AbandonStream
<1>5. CASE Replace
  BY <1>5 DEF Replace
<1>6. ASSUME NEW n \in Names, AddOrUpdate(n) \/ Delete(n)
      PROVE  changes' = TRUE \/ UNCHANGED <<changes, cluster, stopped, synced, failure>>
  BY <1>6 DEF AddOrUpdate, Delete
<1>7. ASSUME NEW n \in Names, NEW k \in Kartas \cup {NoKarta}, Edit(n, k)
      PROVE  UNCHANGED <<changes, cluster, stopped, synced, failure>>
  BY <1>7 DEF Edit
<1>8. ASSUME NEW kind \in FailureKinds,
             ListFails(kind) \/ StreamingStartFails(kind) \/ ResumeFails(kind) \/ StreamError(kind)
      PROVE  changes' = TRUE \/ UNCHANGED <<changes, cluster, stopped, synced, failure>>
  BY <1>8 DEF ListFails, StreamingStartFails, ResumeFails, StreamError, Fail
<1>9. CASE BeginStreamingList \/ StreamingUnsupported \/ InitialEvent \/ Cancel
  BY <1>9 DEF BeginStreamingList, StreamingUnsupported, InitialEvent, Cancel
<1>10. CASE StreamCloses
  BY <1>10 DEF StreamCloses, Fail
<1>11. CASE StopRun
  BY <1>11 DEF StopRun
<1> QED
  BY <1>1, <1>2, <1>3, <1>4, <1>5, <1>6, <1>7, <1>8, <1>9, <1>10, <1>11
     DEF InventoryNext, ReflectorProgress, Environment

\* Every step of the inventory, of Run's loop and of the sources worker keeps
\* the invariant.
LEMMA NextObserverInv ==
  ObserverInv /\ [ObserverNext]_<<inventoryVars, observerVars>> => ObserverInv'
<1> SUFFICES ASSUME ObserverInv, [ObserverNext]_<<inventoryVars, observerVars>>
             PROVE  ObserverInv'
  OBVIOUS
<1>1. ASSUME UNCHANGED inventoryVars
      PROVE  changes' = changes /\ List' = List
  BY <1>1, ListReads DEF inventoryVars
<1>2. CASE InventoryNext /\ UNCHANGED observerVars
  <2>1. CASE changes' = TRUE
    BY <2>1 DEF ObserverInv
  <2>2. CASE UNCHANGED <<changes, cluster, stopped, synced, failure>>
    <3>1. List' = List /\ changes' = changes
      BY <2>2, ListReads
    <3> QED
      BY <1>2, <3>1 DEF ObserverInv, observerVars
  <2> QED
    BY <1>2, <2>1, <2>2, ChangesAreSignalled
<1>3. CASE ReceiveChange
  BY <1>3 DEF ReceiveChange, ObserverInv
<1>4. CASE TakeSources
  BY <1>4 DEF TakeSources, ObserverInv
<1>5. CASE PrepareDefinitions
  BY <1>1, <1>5 DEF PrepareDefinitions, ObserverInv
<1>6. CASE CommitDefinitions
  BY <1>1, <1>6 DEF CommitDefinitions, ObserverInv
<1>7. CASE UNCHANGED <<inventoryVars, observerVars>>
  BY <1>1, <1>7 DEF ObserverInv, observerVars
<1> QED
  BY <1>2, <1>3, <1>4, <1>5, <1>6, <1>7 DEF ObserverNext, Observing

\* A change that reaches the inventory while the worker is between List and
\* the commit, or while a signal is already buffered, is not lost.
THEOREM ObserverNoChangeLost == ObserverSpec => []NoChangeLost
<1>1. ObserverInit => ObserverInv
  BY DEF ObserverInit, ObserverInv
<1>2. ObserverInv => NoChangeLost
  BY DEF ObserverInv, NoChangeLost
<1> QED
  BY <1>1, <1>2, NextObserverInv, PTL DEF ObserverSpec

-------------------------------------------------------------------------------
(* The election *)

\* Every nonempty set of naturals has a least element.
LEMMA LeastNat ==
  ASSUME NEW T \in SUBSET Nat, T # {}
  PROVE  \E n \in T : \A m \in T : n <= m
<1> DEFINE R == OpToRel(<, Nat)
<1>1. IsWellFoundedOn(R, Nat)
  BY NatLessThanWellFounded, Zenon
<1>2. PICK n \in T : \A m \in T : ~(<<m, n>> \in R)
  <2> HIDE DEF R
  <2> QED
    BY <1>1, WFMin, Zenon
<1>3. \A m \in T : ~(m < n)
  BY <1>2 DEF OpToRel
<1> QED
  BY <1>3

\* One turn of the loop of electLocked.
Better(c, winner, n) ==
  IF winner = {} THEN {n} ELSE IF \A w \in winner : Beats(c, n, w) THEN {n} ELSE winner

\* What the loop makes of a set of positions, f holding that of the smaller ones.
Turn(c, order, f, s) == IF s = {} THEN {} ELSE Better(c, f[s \ {Max(s)}], order[Max(s)])

\* The loop, as the fold is defined, is a function on sets of positions.
LEMMA LoopIsFunction ==
  ASSUME NEW c, NEW kind, NEW order,
         NEW f, f = CHOOSE g : g = [s \in SUBSET DOMAIN order |-> Turn(c, order, g, s)]
  PROVE  ElectInOrder(c, kind, order) =
           IF f[DOMAIN order] = {} THEN CatalogSelection(kind)
           ELSE Selection(c, CHOOSE m \in f[DOMAIN order] : TRUE)
BY SMT DEF ElectInOrder, FoldLeft, MapThenFoldSet, Better, Turn

\* The greatest of a set of positions is the one that is.
LEMMA MaxOf ==
  ASSUME NEW k \in Nat, NEW s \in SUBSET (1..k), k \in s
  PROVE  Max(s) = k
<1>1. \A y \in s : y \in Nat /\ k >= y
  OBVIOUS
<1>2. ASSUME NEW x \in s, \A y \in s : x >= y PROVE x = k
  BY <1>1, <1>2
<1> DEFINE x == CHOOSE x \in s : \A y \in s : x >= y
<1>3. x \in s /\ \A y \in s : x >= y
  <2> HIDE DEF x
  <2>1. \E y \in s : \A z \in s : y >= z
    BY <1>1
  <2> QED
    BY <2>1, Zenon DEF x
<1> HIDE DEF x
<1>4. x = k
  BY <1>2, <1>3
<1> QED
  BY <1>4 DEF x, Max

\* There is such a function.
LEMMA LoopExists ==
  ASSUME NEW c, NEW order, NEW n \in Nat
  PROVE  \E f : f = [s \in SUBSET (1..n) |-> Turn(c, order, f, s)]
<1> DEFINE Loops(k) == \E f : f = [s \in SUBSET (1..k) |-> Turn(c, order, f, s)]
           Failing == {k \in Nat : ~Loops(k)}
<1> SUFFICES ASSUME Failing # {} PROVE FALSE
  OBVIOUS
<1>1. PICK k \in Failing : \A m \in Failing : k <= m
  <2>1. Failing \in SUBSET Nat
    OBVIOUS
  <2> HIDE DEF Failing
  <2> QED
    BY <2>1, LeastNat
<1>2. CASE k = 0
  <2> DEFINE f == [s \in SUBSET (1..0) |-> {}]
  <2>1. SUBSET (1..0) = {{}}
    OBVIOUS
  <2>2. f = [s \in SUBSET (1..0) |-> Turn(c, order, f, s)]
    BY <2>1 DEF Turn
  <2> QED
    BY <1>1, <1>2, <2>2
<1>3. CASE k # 0
  <2>0. k \in Nat \ {0} /\ ~Loops(k)
    BY <1>1, <1>3
  <2>1. k - 1 \in Nat /\ k - 1 \notin Failing
    <3> HIDE DEF Failing
    <3> QED
      BY <1>1, <2>0
  <2>2. PICK g : g = [s \in SUBSET (1..(k - 1)) |-> Turn(c, order, g, s)]
    BY <2>1
  <2> DEFINE f == [s \in SUBSET (1..k) |->
                     IF k \in s THEN Better(c, g[s \ {k}], order[k]) ELSE g[s]]
  <2>3. ASSUME NEW s \in SUBSET (1..k) PROVE f[s] = Turn(c, order, f, s)
    <3>1. CASE k \in s
      <4>1. Max(s) = k
        BY <2>0, <3>1, MaxOf
      <4>2. s \ {k} \in SUBSET (1..k) /\ k \notin s \ {k}
        OBVIOUS
      <4>3. f[s \ {k}] = g[s \ {k}]
        BY <4>2
      <4> HIDE DEF f
      <4>4. f[s] = Better(c, g[s \ {k}], order[k])
        BY <3>1 DEF f
      <4> QED
        BY <3>1, <4>1, <4>3, <4>4 DEF Turn
    <3>2. CASE k \notin s
      <4>1. s \in SUBSET (1..(k - 1))
        BY <2>0, <3>2
      <4>2. s \ {Max(s)} \in SUBSET (1..k) /\ k \notin s \ {Max(s)}
        BY <3>2
      <4>3. f[s] = g[s] /\ f[s \ {Max(s)}] = g[s \ {Max(s)}]
        BY <3>2, <4>2
      <4>4. g[s] = Turn(c, order, g, s)
        BY <2>2, <4>1, Zenon
      <4> QED
        BY <4>3, <4>4 DEF Turn
    <3> QED
      BY <3>1, <3>2
  <2>4. f = [s \in SUBSET (1..k) |-> f[s]]
    OBVIOUS
  <2>5. f = [s \in SUBSET (1..k) |-> Turn(c, order, f, s)]
    <3> HIDE DEF f
    <3> QED
      BY <2>3, <2>4, Zenon
  <2> QED
    BY <2>0, <2>5
<1> QED
  BY <1>2, <1>3

\* The winner is the candidate every other is beaten by.
Wins(c, order, k, w) ==
  IF k = 0 THEN w = {}
  ELSE \E j \in 1..k : w = {order[j]} /\ \A i \in 1..k : order[i] = order[j] \/ Beats(c, order[j], order[i])

\* Any two candidates can be told apart, and the better of two is better than what the
\* other beats.
LEMMA CandidatesOrdered ==
  ASSUME NEW c \in ClusterMap, NEW kind
  PROVE  /\ \A x, y \in Candidates(c, kind) :
              x = y \/ (Beats(c, x, y) /\ ~Beats(c, y, x)) \/ (Beats(c, y, x) /\ ~Beats(c, x, y))
         /\ \A x, y, z \in Candidates(c, kind) : Beats(c, x, y) /\ Beats(c, y, z) => Beats(c, x, z)
<1>1. \A x \in Candidates(c, kind) : x \in Nat /\ c[x].created \in Nat
  BY ElectionAssumption DEF Candidates, ClusterMap
<1> QED
  BY <1>1 DEF Beats

\* A turn keeps the best of the candidates so far.
LEMMA TurnWins ==
  ASSUME NEW c \in ClusterMap, NEW kind, NEW n \in Nat, NEW order \in [1..n -> Candidates(c, kind)],
         NEW k \in 1..n, NEW w, Wins(c, order, k - 1, w)
  PROVE  Wins(c, order, k, Better(c, w, order[k]))
<1>1. \A i \in 1..n : order[i] \in Candidates(c, kind)
  OBVIOUS
<1>2. CASE k = 1
  <2>1. Better(c, w, order[k]) = {order[k]}
    BY <1>2 DEF Wins, Better
  <2> QED
    BY <1>2, <2>1 DEF Wins
<1>3. CASE k # 1
  <2>1. k - 1 # 0 /\ 1..(k - 1) \subseteq 1..n /\ k - 1 \in Nat /\ 1..k = (1..(k - 1)) \cup {k}
    BY <1>3
  <2>2. PICK j \in 1..(k - 1) :
          w = {order[j]} /\ \A i \in 1..(k - 1) : order[i] = order[j] \/ Beats(c, order[j], order[i])
    BY <2>1 DEF Wins
  <2>3. CASE Beats(c, order[k], order[j])
    <3>1. Better(c, w, order[k]) = {order[k]}
      BY <2>2, <2>3 DEF Better
    <3>2. ASSUME NEW i \in 1..(k - 1) PROVE order[i] = order[k] \/ Beats(c, order[k], order[i])
      <4>1. order[i] = order[j] \/ Beats(c, order[j], order[i])
        BY <2>2
      <4> QED
        BY <1>1, <2>1, <2>3, <4>1, CandidatesOrdered
    <3> QED
      BY <2>1, <3>1, <3>2 DEF Wins
  <2>4. CASE ~Beats(c, order[k], order[j])
    <3>1. Better(c, w, order[k]) = w
      BY <2>2, <2>4 DEF Better
    <3>2. order[k] = order[j] \/ Beats(c, order[j], order[k])
      BY <1>1, <2>1, <2>4, CandidatesOrdered
    <3>3. j \in 1..k /\ \A i \in 1..k : order[i] = order[j] \/ Beats(c, order[j], order[i])
      BY <2>1, <2>2, <3>2
    <3>4. k # 0 /\ w = {order[j]}
      BY <1>3, <2>1, <2>2
    <3> QED
      BY <3>1, <3>3, <3>4, Zenon DEF Wins
  <2> QED
    BY <2>3, <2>4
<1> QED
  BY <1>2, <1>3

\* So the loop ends with the best of all candidates.
LEMMA LoopWins ==
  ASSUME NEW c \in ClusterMap, NEW kind, NEW n \in Nat, NEW order \in [1..n -> Candidates(c, kind)],
         NEW f, f = [s \in SUBSET (1..n) |-> Turn(c, order, f, s)]
  PROVE  Wins(c, order, n, f[1..n])
<1> DEFINE Failing == {k \in 0..n : ~Wins(c, order, k, f[1..k])}
<1> SUFFICES ASSUME Failing # {} PROVE FALSE
  OBVIOUS
<1>1. PICK k \in Failing : \A m \in Failing : k <= m
  <2>1. Failing \in SUBSET Nat
    OBVIOUS
  <2> HIDE DEF Failing
  <2> QED
    BY <2>1, LeastNat
<1>2. k \in 0..n /\ ~Wins(c, order, k, f[1..k]) /\ 1..k \in SUBSET (1..n)
  BY <1>1
<1>3. f[1..k] = Turn(c, order, f, 1..k)
  BY <1>2, Zenon
<1>4. CASE k = 0
  <2>1. 1..k = {}
    BY <1>4
  <2> QED
    BY <1>2, <1>3, <1>4, <2>1 DEF Turn, Wins
<1>5. CASE k # 0
  <2>1. k \in 1..n /\ k - 1 \in 0..n /\ k - 1 \notin Failing
    <3> HIDE DEF Failing
    <3> QED
      BY <1>1, <1>2, <1>5
  <2>2. Wins(c, order, k - 1, f[1..(k - 1)])
    BY <2>1
  <2>3. Max(1..k) = k /\ 1..k # {} /\ (1..k) \ {k} = 1..(k - 1)
    <3>1. k \in Nat /\ k \in 1..k
      BY <2>1
    <3>2. Max(1..k) = k
      BY <3>1, MaxOf
    <3>3. (1..k) \ {k} = 1..(k - 1)
      BY <3>1
    <3> QED
      BY <3>1, <3>2, <3>3
  <2>4. f[1..k] = Better(c, f[1..(k - 1)], order[k])
    BY <1>3, <2>3 DEF Turn
  <2> QED
    BY <1>2, <2>1, <2>2, <2>4, TurnWins
<1> QED
  BY <1>4, <1>5

\* The candidate that wins is the one elected.
LEMMA WinnerIsElected ==
  ASSUME NEW c \in ClusterMap, NEW kind, NEW order \in SetToSeqs(Candidates(c, kind))
  PROVE  ElectInOrder(c, kind, order) = Elect(c, kind)
<1> DEFINE cands == Candidates(c, kind)
           n == Cardinality(cands)
           f == CHOOSE g : g = [s \in SUBSET DOMAIN order |-> Turn(c, order, g, s)]
<1>1. IsFiniteSet(cands) /\ n \in Nat
  BY FS_Subset, FS_CardinalityType, ElectionAssumption DEF Candidates
<1>2. order \in [1..n -> cands] /\ \A i, j \in 1..n : i # j => order[i] # order[j]
  BY DEF SetToSeqs
<1>3. \A x \in cands : \E i \in 1..n : order[i] = x
  <2>1. order \in Injection(1..n, cands)
    BY <1>2 DEF Injection, IsInjective
  <2>2. Cardinality(1..n) = n
    BY <1>1, FS_Interval
  <2>3. order \in Surjection(1..n, cands)
    BY <1>1, <2>1, <2>2, FS_Injection
  <2> QED
    BY <2>3 DEF Surjection
<1>4. DOMAIN order = 1..n
  BY <1>2
<1> HIDE DEF n, cands
<1>5. f = [s \in SUBSET (1..n) |-> Turn(c, order, f, s)]
  <2>1. \E g : g = [s \in SUBSET (1..n) |-> Turn(c, order, g, s)]
    <3> HIDE DEF f
    <3> HIDE ElectionAssumption, BoundAssumption
    <3>1. n \in Nat
      BY <1>1
    <3> QED
      BY <3>1, LoopExists
  <2> QED
    BY <1>4, <2>1, Zenon
<1>6. ElectInOrder(c, kind, order) =
        IF f[1..n] = {} THEN CatalogSelection(kind) ELSE Selection(c, CHOOSE m \in f[1..n] : TRUE)
  <2>1. ElectInOrder(c, kind, order) =
          IF f[DOMAIN order] = {} THEN CatalogSelection(kind)
          ELSE Selection(c, CHOOSE m \in f[DOMAIN order] : TRUE)
    BY LoopIsFunction
  <2> QED
    BY <1>4, <2>1, Zenon
<1> HIDE DEF f
<1>7. Wins(c, order, n, f[1..n])
  BY <1>1, <1>2, <1>5, LoopWins DEF cands
<1>8. CASE n = 0
  <2>1. cands = {}
    BY <1>1, <1>3, <1>8
  <2> QED
    BY <1>6, <1>7, <1>8, <2>1 DEF Wins, Elect, cands
<1>9. CASE n # 0
  <2>1. PICK j \in 1..n :
          /\ f[1..n] = {order[j]}
          /\ \A i \in 1..n : order[i] = order[j] \/ Beats(c, order[j], order[i])
    BY <1>7, <1>9 DEF Wins
  <2>2. PICK w \in cands : w = order[j]
    BY <1>2, <2>1
  <2>3. \A m \in cands : m = w \/ Beats(c, w, m)
    BY <1>3, <2>1, <2>2
  <2>4. ASSUME NEW v \in cands, \A m \in cands : m = v \/ Beats(c, v, m) PROVE v = w
    BY <2>2, <2>3, <2>4, CandidatesOrdered DEF cands
  <2> DEFINE e == CHOOSE v \in cands : \A m \in cands : m = v \/ Beats(c, v, m)
  <2>5. e = w
    <3>1. e \in cands /\ \A m \in cands : m = e \/ Beats(c, e, m)
      BY <2>2, <2>3, Zenon
    <3> HIDE DEF e
    <3> QED
      BY <2>4, <3>1
  <2>6. (CHOOSE m \in f[1..n] : TRUE) = w
    BY <2>1, <2>2
  <2>7. ElectInOrder(c, kind, order) = Selection(c, w)
    BY <1>6, <2>1, <2>6
  <2>8. Elect(c, kind) = Selection(c, e)
    BY <2>2 DEF Elect, cands
  <2> QED
    BY <2>5, <2>7, <2>8
<1> QED
  BY <1>8, <1>9

\* Whatever order the Go map is iterated in, the election picks the oldest candidate and
\* breaks ties by name.
THEOREM ElectionIsOrderIndependent == Spec => []ElectionOrderIndependent
<1>1. TypeOK => ElectionOrderIndependent
  BY WinnerIsElected DEF TypeOK, ElectionOrderIndependent
<1> QED
  BY <1>1, TypeCorrect, PTL
===============================================================================
