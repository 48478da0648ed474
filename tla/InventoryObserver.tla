-------------------------- MODULE InventoryObserver --------------------------
(***************************************************************************)
(* The controller as an observer of the inventory: Runtime.Run turns       *)
(* signals of the one-element changes channel into the queue key           *)
(* "sources", and the sources worker reads a snapshot with List outside    *)
(* the state lock before it commits it                                     *)
(* (dsx-workload-exporter/pkg/controller/runtime.go, sources.go).          *)
(***************************************************************************)
EXTENDS Inventory

VARIABLES
  queued,     \* "sources" waits in watchSyncQueue
  worker,     \* the sources worker: "idle", "read" (before List) or "commit"
  prepared,   \* what List returned to the worker
  committed   \* selectedDefinitions and definitionInventoryErr

observerVars == <<queued, worker, prepared, committed>>

NothingListed == Unavailable("not_ready")

ObserverInit ==
  /\ Init
  /\ queued = TRUE                   \* Run queues "sources" once
  /\ worker = "idle"
  /\ prepared = NothingListed /\ committed = NothingListed

\* Run's select loop receives a signal.
ReceiveChange ==
  /\ changes
  /\ changes' = FALSE
  /\ queued' = TRUE
  /\ UNCHANGED <<history, cluster, stopped, ctxDone, healthVars, reflectorVars, worker, prepared, committed>>

\* runWorker: Get.
TakeSources ==
  /\ queued /\ worker = "idle"
  /\ queued' = FALSE /\ worker' = "read"
  /\ UNCHANGED <<inventoryVars, prepared, committed>>

\* prepareDefinitions.
PrepareDefinitions ==
  /\ worker = "read"
  /\ prepared' = List
  /\ worker' = "commit"
  /\ UNCHANGED <<inventoryVars, queued, committed>>

\* Fault: Done drops a key that was added again during the pass.
CommitDroppingKey ==
  /\ worker = "commit"
  /\ worker' = "idle" /\ queued' = (prepared.err # "none")
  /\ committed' = prepared
  /\ UNCHANGED <<inventoryVars, prepared>>

\* refreshDefinitions, and the return of syncWatches: an error is
\* recorded next to the definitions of before and queues "sources" again.
CommitDefinitions ==
  /\ worker = "commit"
  /\ worker' = "idle" /\ queued' = (queued \/ prepared.err # "none")
  /\ committed' = prepared
  /\ UNCHANGED <<inventoryVars, prepared>>

Observing == ReceiveChange \/ TakeSources \/ PrepareDefinitions \/ CommitDefinitions

ObserverNext == (InventoryNext /\ UNCHANGED observerVars) \/ Observing

ObserverSpec == ObserverInit /\ [][ObserverNext]_<<inventoryVars, observerVars>>

\* The Run loop and the worker are goroutines of their own that nothing blocks.
ObserverFairness ==
  /\ WF_<<inventoryVars, observerVars>>(ReceiveChange)
  /\ WF_<<inventoryVars, observerVars>>(TakeSources \/ PrepareDefinitions \/ CommitDefinitions)

FairObserverSpec == ObserverSpec /\ ObserverFairness

-------------------------------------------------------------------------------
(* Properties *)

\* A change that reaches the inventory while the worker is between List and the
\* commit, or while a signal is already buffered, is not lost: with no signal,
\* no key and no pass left, the committed definitions are what List returns.
NoChangeLost ==
  ~changes /\ ~queued /\ worker = "idle" => committed = List

\* The controller ends up with what the inventory serves, its failures included.
EventuallyCommitted == <>[](committed = List)
===============================================================================
