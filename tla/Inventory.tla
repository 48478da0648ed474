------------------------------ MODULE Inventory ------------------------------
(***************************************************************************)
(* The exporter's Karta definition inventory                               *)
(* (dsx-workload-exporter/pkg/kartadefinitioninventory/inventory.go): the  *)
(* map of cluster Kartas, its health, and the client-go reflector that     *)
(* feeds it by LIST, streaming list and WATCH.  Every action is one        *)
(* critical section of Inventory.mu or one step of the reflector.  The     *)
(* cluster source is enabled; without it the inventory never changes.      *)
(***************************************************************************)
EXTENDS KartaElection

CONSTANTS
  MaxEdits,      \* bound: changes of Kartas at the API server
  MaxFailures    \* bound: failures the API server or the network causes

ASSUME BoundAssumption == MaxEdits \in Nat /\ MaxFailures \in Nat

VARIABLES
  history,       \* external: every state the API server's Kartas went through
  cluster,       \* Inventory.cluster, by name
  synced,        \* a complete list was applied; the loaded channel is closed
  stopped,       \* Run returned; the done channel is closed
  failure,       \* Inventory.failure
  failures,      \* Inventory.failures, the failure count
  listedFrom,    \* Inventory.listedFrom
  changes,       \* the one-element changes channel holds a signal
  ctxDone,       \* Run's context is cancelled
  phase,         \* external: where the reflector is
  snap,          \* external: index in history of the list the reflector holds
  pos,           \* external: index in history of the last applied resource version
  stream,        \* the watch as the forward goroutine sees it
  received,      \* forward's received flag
  appliedFrom    \* history variable: failures when the applied list began

serverVars == <<history>>
healthVars == <<synced, failure, failures, listedFrom, appliedFrom>>
reflectorVars == <<phase, snap, pos, stream, received>>
inventoryVars ==
  <<history, cluster, synced, stopped, failure, failures, listedFrom, changes,
    ctxDone, phase, snap, pos, stream, received, appliedFrom>>

FailureKinds == {"denied", "unavailable"}
Phases == {"start", "listing", "streaming", "replace", "watching", "rewatch", "stopped"}

TypeOK ==
  /\ history \in Seq(ClusterMap) /\ Len(history) >= 1
  /\ cluster \in ClusterMap
  /\ synced \in BOOLEAN /\ stopped \in BOOLEAN /\ changes \in BOOLEAN
  /\ ctxDone \in BOOLEAN /\ received \in BOOLEAN
  /\ failure \in FailureKinds \cup {"none"}
  /\ failures \in Nat /\ listedFrom \in Nat /\ appliedFrom \in Nat
  /\ phase \in Phases
  /\ snap \in 0..Len(history) /\ pos \in 0..Len(history)
  /\ stream \in {"closed", "open", "errored", "ended"}

Init ==
  /\ history \in {<<m>> : m \in ClusterMap}
  /\ cluster = [n \in Names |-> NoKarta]
  /\ synced = FALSE /\ stopped = FALSE /\ failure = "none"
  /\ failures = 0 /\ listedFrom = 0 /\ appliedFrom = 0
  /\ changes = TRUE                  \* New ends with notify
  /\ ctxDone = FALSE
  /\ phase = "start" /\ snap = 0 /\ pos = 0
  /\ stream = "closed" /\ received = FALSE

-------------------------------------------------------------------------------
(* Health and reads *)

\* ready: "" when lookups are served, otherwise why they are not.
Ready ==
  CASE stopped -> "unavailable"
    [] ~stopped /\ failure # "none" -> failure
    [] ~stopped /\ failure = "none" /\ ~synced -> "not_ready"
    [] OTHER -> IF Undecodable(cluster) # {} THEN "unavailable" ELSE "none"

Unavailable(reason) == [err |-> reason]

\* List: an atomic snapshot of the selections, or the source's error.
List == IF Ready # "none" THEN Unavailable(Ready)
        ELSE [err |-> "none", selections |-> Selections(cluster)]

\* Fault: a failure of unknown kind is stored as it came.
FailUnclassified(kind) ==
  /\ failures < MaxFailures
  /\ failure' = "timeout"
  /\ failures' = failures + 1
  /\ changes' = TRUE
  /\ UNCHANGED <<synced, listedFrom, appliedFrom>>

\* fail, called by recordFailure and failWatch.
Fail(kind) ==
  /\ failures < MaxFailures
  /\ failure' = kind
  /\ failures' = failures + 1
  /\ changes' = TRUE
  /\ UNCHANGED <<synced, listedFrom, appliedFrom>>

-------------------------------------------------------------------------------
(* The API server (external) *)

Server == history[Len(history)]

\* Somebody creates, updates or deletes one Karta.
Edit(n, k) ==
  /\ Len(history) <= MaxEdits
  /\ Server[n] # k
  /\ history' = Append(history, [Server EXCEPT ![n] = k])
  /\ UNCHANGED <<cluster, stopped, changes, ctxDone, healthVars, reflectorVars>>

-------------------------------------------------------------------------------
(* LIST *)

\* list with an empty continue token: beginList.
BeginList ==
  /\ phase = "start" /\ ~ctxDone
  /\ listedFrom' = failures
  /\ phase' = "listing"
  /\ UNCHANGED <<history, cluster, synced, stopped, failure, failures, changes,
                 ctxDone, snap, pos, stream, received, appliedFrom>>

\* A page fails: recordFailure.  The reflector or its pager lists again.
ListFails(kind) ==
  /\ phase = "listing"
  /\ Fail(kind)
  /\ phase' = "start"
  /\ UNCHANGED <<history, cluster, stopped, ctxDone, snap, pos, stream, received>>

\* Fault: a relist accepts a list older than what was applied.
ListReturnsAny(i) ==
  /\ phase = "listing"
  /\ i \in 1..Len(history)
  /\ snap' = i
  /\ phase' = "replace"
  /\ UNCHANGED <<history, cluster, stopped, changes, ctxDone, pos, stream, received, healthVars>>

\* The last page arrived.  A relist is served no older than the last applied
\* resource version, possibly from a cache that lags the newest one.
ListReturns(i) ==
  /\ phase = "listing"
  /\ i \in 1..Len(history) /\ i >= pos
  /\ snap' = i
  /\ phase' = "replace"
  /\ UNCHANGED <<history, cluster, stopped, changes, ctxDone, pos, stream, received, healthVars>>

-------------------------------------------------------------------------------
(* Streaming list and WATCH: startWatch and forward *)

OpenStream == stream' = "open" /\ received' = FALSE

\* startWatch(streaming): beginWatch counts it as a fresh list.
BeginStreamingList ==
  /\ phase = "start" /\ ~ctxDone
  /\ listedFrom' = failures
  /\ phase' = "streaming"
  /\ OpenStream
  /\ UNCHANGED <<history, cluster, synced, stopped, failure, failures, changes,
                 ctxDone, snap, pos, appliedFrom>>

\* The server rejects the streaming list: IsInvalid falls back to LIST unrecorded.
StreamingUnsupported ==
  /\ phase = "start" /\ ~ctxDone
  /\ listedFrom' = failures
  /\ phase' = "start"
  /\ UNCHANGED <<history, cluster, synced, stopped, failure, failures, changes,
                 ctxDone, snap, pos, stream, received, appliedFrom>>

\* startWatch(streaming) fails for another reason.  beginWatch and recordFailure
\* are two critical sections, but nothing runs between them that looks at either.
StreamingStartFails(kind) ==
  /\ phase = "start" /\ ~ctxDone
  /\ failures < MaxFailures
  /\ listedFrom' = failures
  /\ failure' = kind /\ failures' = failures + 1 /\ changes' = TRUE
  /\ phase' = "start"
  /\ UNCHANGED <<history, cluster, synced, stopped, ctxDone, snap, pos, stream,
                 received, appliedFrom>>

\* forward relays an event of the initial list.
InitialEvent ==
  /\ phase = "streaming" /\ stream = "open"
  /\ received' = TRUE
  /\ UNCHANGED <<history, cluster, stopped, changes, ctxDone, phase, snap, pos, stream, healthVars>>

\* forward relays the bookmark that ends the initial list and forgets what it
\* received; the reflector now holds the list and will call Replace, while
\* forward keeps reading the stream.
InitialEventsEnd(i) ==
  /\ phase = "streaming" /\ stream = "open"
  /\ i \in 1..Len(history) /\ i >= pos
  /\ snap' = i
  /\ phase' = "replace"
  /\ received' = FALSE
  /\ UNCHANGED <<history, cluster, stopped, changes, ctxDone, pos, stream, healthVars>>

\* A resumed watch: startWatch with SendInitialEvents unset.
ResumeWatch ==
  /\ phase = "rewatch" /\ ~ctxDone
  /\ IF failure # "none"
       THEN /\ phase' = "start"                  \* errRelist
            /\ UNCHANGED <<stream, received>>
       ELSE /\ phase' = "watching"
            /\ OpenStream
  /\ UNCHANGED <<history, cluster, stopped, changes, ctxDone, snap, pos, healthVars>>

ResumeFails(kind) ==
  /\ phase = "rewatch" /\ ~ctxDone /\ failure = "none"
  /\ Fail(kind)
  /\ phase' \in {"start", "rewatch"}             \* relist, or retry the watch
  /\ UNCHANGED <<history, cluster, stopped, ctxDone, snap, pos, stream, received>>

\* forward reads an ERROR event: failWatch, then it relays the event.
StreamError(kind) ==
  /\ stream = "open"
  /\ stream' = "errored"
  /\ IF ctxDone THEN UNCHANGED <<changes, healthVars>> ELSE Fail(kind)
  /\ received' = TRUE
  /\ UNCHANGED <<history, cluster, stopped, ctxDone, phase, snap, pos>>

\* shortWatch: whether a close without events counts as short.  It always does
\* between the end bookmark and Replace; otherwise it depends on the clock.
ShortWatch == IF phase = "replace" THEN {TRUE} ELSE BOOLEAN

\* forward sees the stream close.
StreamCloses ==
  /\ stream = "open"
  /\ stream' = "ended"
  /\ IF ~received /\ ~ctxDone
       THEN \E short \in ShortWatch :
              IF short THEN Fail("unavailable") ELSE UNCHANGED <<changes, healthVars>>
       ELSE UNCHANGED <<changes, healthVars>>
  /\ UNCHANGED <<history, cluster, stopped, ctxDone, phase, snap, pos, received>>

\* The reflector sees the error or the close, stops the watch and relists, or
\* resumes from the last applied resource version (external).
AbandonStream ==
  /\ phase \in {"streaming", "watching"}
  /\ stream \in {"errored", "ended"}
  /\ stream' = "closed"
  /\ IF phase = "streaming" THEN phase' = "start" ELSE phase' \in {"start", "rewatch"}
  /\ UNCHANGED <<history, cluster, stopped, changes, ctxDone, snap, pos, received, healthVars>>

-------------------------------------------------------------------------------
(* reflectorStore *)

\* Fault: every complete list restores health.
AlwaysCleared == "none"

\* The failure after Replace.
ClearedFailure == IF failures = listedFrom THEN "none" ELSE failure

\* Replace: the list becomes the map, and clears a failure it is newer than.
Replace ==
  /\ phase = "replace"
  /\ cluster' = Filtered(history[snap])
  /\ pos' = snap /\ snap' = 0
  /\ failure' = ClearedFailure
  /\ synced' = TRUE
  /\ changes' = TRUE
  /\ appliedFrom' = listedFrom
  /\ phase' = IF stream = "closed" THEN "rewatch" ELSE "watching"
  /\ UNCHANGED <<history, stopped, failures, listedFrom, ctxDone, stream, received>>

Changed(n) == history[pos + 1][n] # history[pos][n]

\* Add, Update: the entry is replaced whole; filtered names are skipped.
AddOrUpdate(n) ==
  /\ phase = "watching" /\ stream = "open"
  /\ pos < Len(history) /\ Changed(n) /\ history[pos + 1][n] # NoKarta
  /\ pos' = pos + 1
  /\ received' = TRUE
  /\ IF n \in Included
       THEN /\ cluster' = [cluster EXCEPT ![n] = history[pos + 1][n]]
            /\ changes' = TRUE
       ELSE UNCHANGED <<cluster, changes>>
  /\ UNCHANGED <<history, stopped, ctxDone, phase, snap, stream, healthVars>>

\* Fault: a deleted Karta stays in the map.
DeleteIgnored(n) ==
  /\ phase = "watching" /\ stream = "open"
  /\ pos < Len(history) /\ Changed(n) /\ history[pos + 1][n] = NoKarta
  /\ pos' = pos + 1
  /\ received' = TRUE
  /\ UNCHANGED <<history, cluster, changes, stopped, ctxDone, phase, snap, stream, healthVars>>

Delete(n) ==
  /\ phase = "watching" /\ stream = "open"
  /\ pos < Len(history) /\ Changed(n) /\ history[pos + 1][n] = NoKarta
  /\ pos' = pos + 1
  /\ received' = TRUE
  /\ IF cluster[n] # NoKarta
       THEN /\ cluster' = [cluster EXCEPT ![n] = NoKarta]
            /\ changes' = TRUE
       ELSE UNCHANGED <<cluster, changes>>
  /\ UNCHANGED <<history, stopped, ctxDone, phase, snap, stream, healthVars>>

-------------------------------------------------------------------------------
(* Shutdown *)

Cancel ==
  /\ ~ctxDone
  /\ ctxDone' = TRUE
  /\ UNCHANGED <<history, cluster, stopped, changes, healthVars, reflectorVars>>

\* The deferred function of Run, once the reflector has returned.
StopRun ==
  /\ ctxDone /\ ~stopped
  /\ stopped' = TRUE
  /\ changes' = TRUE
  /\ phase' = "stopped" /\ stream' = "closed"
  /\ UNCHANGED <<history, cluster, ctxDone, snap, pos, received, healthVars>>

-------------------------------------------------------------------------------

ReflectorProgress ==
  \/ BeginList
  \/ \E i \in 1..Len(history) : ListReturns(i) \/ InitialEventsEnd(i)
  \/ ResumeWatch
  \/ AbandonStream
  \/ Replace
  \/ \E n \in Names : AddOrUpdate(n) \/ Delete(n)

Environment ==
  \/ \E n \in Names, k \in Kartas \cup {NoKarta} : Edit(n, k)
  \/ \E kind \in FailureKinds :
       ListFails(kind) \/ StreamingStartFails(kind) \/ ResumeFails(kind) \/ StreamError(kind)
  \/ BeginStreamingList
  \/ StreamingUnsupported
  \/ InitialEvent
  \/ StreamCloses
  \/ Cancel

InventoryNext == ReflectorProgress \/ Environment \/ StopRun

Spec == Init /\ [][InventoryNext]_inventoryVars

-------------------------------------------------------------------------------
(* Properties *)

\* While lookups are not held back by a failure, no failure was recorded since
\* the list now applied began: a list that a failure overtook never restores
\* health, even when forward records it between the end bookmark and Replace.
HealthyMeansFresh ==
  synced /\ failure = "none" => appliedFrom = failures

\* The map is exactly the filtered Kartas of the resource version applied last:
\* streaming lists, resumed watches and relists lose and duplicate nothing.
ClusterMatchesPosition ==
  synced => cluster = Filtered(history[pos])

\* The inventory is a DefinitionSource: the map shows one resource version at a
\* time and never goes back to an earlier one, over relists, streaming lists and
\* resumed watches.
Source == INSTANCE DefinitionSource WITH at <- pos, view <- cluster
ImplementsSource == Source!SourceSpec

\* Whatever order the Go map is iterated in, the election picks the oldest
\* candidate and breaks ties by name.
ElectionOrderIndependent ==
  \A kind \in Kinds :
    \A order \in SetToSeqs(Candidates(cluster, kind)) :
      ElectInOrder(cluster, kind, order) = Elect(cluster, kind)
===============================================================================
