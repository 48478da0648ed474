----------------------------- MODULE Application -----------------------------
(***************************************************************************)
(* The exporter's process (dsx-workload-exporter/pkg/app/application.go    *)
(* and run.go, controller/runtime.go, cmd/main.go): Serve with its         *)
(* controller goroutine, the definition inventory, the runtime and one of  *)
(* its workers, the HTTP server with one scrape, and the meter provider.   *)
(* An error is the set of the causes that errors.Join put together.        *)
(***************************************************************************)
EXTENDS Publication

CONSTANTS
  Callers,       \* calls of Serve on one Application
  Budgets        \* bounds: [calls, faults, signals, scrapes, writes] of one behaviour

VARIABLES
  budget,        \* what this behaviour may still use
  ctxDone,       \* the context of Serve is cancelled (a signal)
  runDone,       \* serveListener called its cancel
  innerDone,     \* RunController, or the inventory's goroutine, called its cancel
  started,       \* Application.started
  running,       \* Application.running
  serve,         \* Serve and serveListener, per caller: where it is
  err,           \* their err, per caller
  registered,    \* the collector's callback is registered
  provider,      \* the meter provider works
  controller,    \* the goroutine of RunController
  runtimeErr,    \* its error
  inventory,     \* the goroutine that runs Definitions.Run
  loaded,        \* the inventory's loaded channel is closed
  inventoryDone, \* the channel of that name: {} or one error
  runtime,       \* Runtime.Run
  worker,        \* a goroutine of runWorker
  server,        \* the goroutine that runs server.Serve
  serverDone,    \* the channel of that name: {} or one error
  failed         \* history variable: causes that occurred

contextVars == <<ctxDone, runDone, innerDone>>
serveVars == <<started, running, serve, err, registered, provider>>
controllerVars == <<controller, runtimeErr, inventory, loaded, inventoryDone, runtime, worker>>
serverVars == <<server, serverDone>>
applicationVars == <<budget, contextVars, serveVars, controllerVars, serverVars, failed>>
publicationVars == <<stored, scrape>>
vars == <<applicationVars, publicationVars>>

RunCtxDone == ctxDone \/ runDone
InnerCtxDone == RunCtxDone \/ innerDone

ApplicationInit ==
  /\ PublicationInit
  /\ budget \in Budgets
  /\ ctxDone = FALSE /\ runDone = FALSE /\ innerDone = FALSE
  /\ started = FALSE /\ running = FALSE
  /\ serve = [c \in Callers |-> "idle"] /\ err = [c \in Callers |-> {}]
  /\ registered = FALSE /\ provider = TRUE
  /\ controller = "off" /\ runtimeErr = {}
  /\ inventory = "off" /\ loaded = FALSE /\ inventoryDone = {}
  /\ runtime = "off" /\ worker = "off"
  /\ server = "off" /\ serverDone = {}
  /\ failed = {}

\* Something outside the exporter's code goes wrong.
Fault(cause) ==
  /\ budget.faults > 0
  /\ budget' = [budget EXCEPT !.faults = @ - 1]
  /\ failed' = failed \cup {cause}

NoFault == UNCHANGED <<budget, failed>>

-------------------------------------------------------------------------------
(* Serve *)

Goto(c, pc, causes) ==
  /\ serve' = [serve EXCEPT ![c] = pc]
  /\ err' = [err EXCEPT ![c] = @ \cup causes]

\* The first call takes started; ServeListener differs only in where the
\* listener comes from.
Start(c) ==
  /\ serve[c] = "idle"
  /\ budget.calls > 0 /\ budget' = [budget EXCEPT !.calls = @ - 1]
  /\ started' = TRUE
  /\ IF started THEN Goto(c, "returned", {"already_started"})
     ELSE IF ctxDone THEN Goto(c, "provider", {})
     ELSE Goto(c, "listen", {})
  /\ UNCHANGED <<failed, contextVars, running, registered, provider, controllerVars, serverVars, publicationVars>>

\* net.Listen or Register fails.  serveListener closes the listener.
SetUpFails(c, cause) ==
  /\ serve[c] = "listen"
  /\ Fault(cause)
  /\ Goto(c, "provider", {cause})
  /\ UNCHANGED <<contextVars, started, running, registered, provider, controllerVars, serverVars, publicationVars>>

\* serveListener up to its select, or its early return.
ServeListener(c) ==
  /\ serve[c] = "listen"
  /\ NoFault
  /\ IF ctxDone
       THEN /\ Goto(c, "provider", {})
            /\ UNCHANGED <<running, registered, controller, inventory, server>>
       ELSE /\ Goto(c, "select", {})
            /\ registered' = TRUE /\ running' = TRUE
            /\ controller' = "load" /\ inventory' = "run" /\ server' = "serving"
  /\ UNCHANGED <<contextVars, started, provider, runtimeErr, loaded, inventoryDone, runtime,
                 worker, serverDone, publicationVars>>

\* Fault: the runtime is left alone when the server fails.
StopServingQuietly(c) ==
  /\ serve[c] = "select"
  /\ \/ /\ ctxDone \/ controller = "done"
        /\ Goto(c, "shutdown", {})
        /\ UNCHANGED serverDone
     \/ /\ serverDone # {}
        /\ Goto(c, "shutdown_alone", UNION serverDone)
        /\ serverDone' = {}
  /\ running' = FALSE
  /\ NoFault
  /\ UNCHANGED <<contextVars, started, registered, provider, controllerVars, server, publicationVars>>

\* The select, then running.Store(false) and cancel.
StopServing(c) ==
  /\ serve[c] = "select"
  /\ \/ /\ ctxDone \/ controller = "done"
        /\ Goto(c, "shutdown", {})
        /\ UNCHANGED serverDone
     \/ /\ serverDone # {}
        /\ Goto(c, "shutdown_alone", UNION serverDone)
        /\ serverDone' = {}
  /\ running' = FALSE /\ runDone' = TRUE
  /\ NoFault
  /\ UNCHANGED <<ctxDone, innerDone, started, registered, provider, controllerVars, server, publicationVars>>

Handling == scrape.pc \in {"accepted", "pods"}

\* server.Shutdown closes the listener and waits for the handlers; after its
\* timeout Close leaves them running.
Shutdown(c) ==
  /\ serve[c] \in {"shutdown", "shutdown_alone"}
  /\ server' = IF server = "serving" THEN "closed" ELSE server
  /\ LET next == IF serve[c] = "shutdown" THEN "join" ELSE "join_alone"
     IN  \/ ~Handling /\ Goto(c, next, {}) /\ NoFault
         \/ /\ Handling /\ Goto(c, next, {"shutdown"})
            /\ failed' = failed \cup {"shutdown"} /\ UNCHANGED budget
         \/ /\ Handling /\ server = "serving" /\ NoFault
            /\ UNCHANGED <<serve, err>>
  /\ UNCHANGED <<contextVars, started, running, registered, provider, controllerVars, serverDone, publicationVars>>

\* Fault: the server's goroutine is not waited for.
JoinRuntimeOnly(c) ==
  /\ serve[c] \in {"join", "join_alone"}
  /\ controller = "done"
  /\ Goto(c, "unregister", runtimeErr)
  /\ NoFault
  /\ UNCHANGED <<contextVars, started, running, registered, provider, controllerVars, server, serverDone, publicationVars>>

\* <-runtimeDone, and <-serverDone when the select did not receive it.
Join(c) ==
  /\ serve[c] \in {"join", "join_alone"}
  /\ controller = "done"
  /\ \/ /\ serve[c] = "join" /\ serverDone # {}
        /\ Goto(c, "unregister", (UNION serverDone) \cup runtimeErr)
        /\ serverDone' = {}
     \/ /\ serve[c] = "join_alone"
        /\ Goto(c, "unregister", runtimeErr)
        /\ UNCHANGED serverDone
  /\ NoFault
  /\ UNCHANGED <<contextVars, started, running, registered, provider, controllerVars, server, publicationVars>>

\* The deferred Unregister of serveListener, which waits for a callback (external).
Unregister(c) ==
  /\ serve[c] = "unregister"
  /\ scrape.pc # "pods"
  /\ registered' = FALSE
  /\ Goto(c, "provider", {})
  /\ NoFault
  /\ UNCHANGED <<contextVars, started, running, provider, controllerVars, serverVars, publicationVars>>

\* The deferred shutdown of Serve.
ShutdownProvider(c) ==
  /\ serve[c] = "provider"
  /\ provider' = FALSE
  /\ \/ NoFault /\ Goto(c, "returned", {})
     \/ Fault("provider") /\ Goto(c, "returned", {"provider"})
  /\ UNCHANGED <<contextVars, started, running, registered, controllerVars, serverVars, publicationVars>>

ServeStep(c) ==
  \/ ServeListener(c) \/ StopServing(c) \/ Shutdown(c) \/ Join(c)
  \/ Unregister(c) \/ ShutdownProvider(c)

-------------------------------------------------------------------------------
(* RunController *)

\* WaitLoaded.  The inventory may have stopped before it was loaded.
WaitLoaded ==
  /\ controller = "load"
  /\ \/ /\ loaded
        /\ controller' = "run" /\ runtime' = "select" /\ worker' = "get"
        /\ UNCHANGED <<runtimeErr, innerDone>>
     \/ /\ InnerCtxDone
        /\ controller' = "join" /\ innerDone' = TRUE
        /\ runtimeErr' = IF RunCtxDone THEN {} ELSE {"canceled"}
        /\ UNCHANGED <<runtime, worker>>
     \/ /\ inventory \in {"stopped", "failed", "sent", "done"} /\ ~loaded /\ ~InnerCtxDone
        /\ controller' = "join" /\ innerDone' = TRUE
        /\ runtimeErr' = {"inventory"}
        /\ UNCHANGED <<runtime, worker>>
  /\ NoFault
  /\ UNCHANGED <<ctxDone, runDone, serveVars, inventory, loaded, inventoryDone, serverVars, publicationVars>>

\* Runtime.Run returned, and the deferred function cancels.
RuntimeReturned ==
  /\ controller = "run" /\ runtime = "returned"
  /\ controller' = "join" /\ innerDone' = TRUE
  /\ NoFault
  /\ UNCHANGED <<ctxDone, runDone, serveVars, runtimeErr, inventory, loaded, inventoryDone,
                 runtime, worker, serverVars, publicationVars>>

\* Fault: a runtime that stops by itself is taken for a cancelled one.
ReportedQuietly(causes) == causes \ {"canceled"}

\* What serveListener's goroutine makes of RunController's error.
Reported(causes) ==
  IF causes = {} /\ ~RunCtxDone THEN {"stopped"}
  ELSE IF causes = {"canceled"} /\ RunCtxDone THEN {} ELSE causes

\* <-inventoryDone, and the end of the goroutine.
JoinInventory ==
  /\ controller = "join" /\ inventoryDone # {}
  /\ controller' = "done"
  /\ runtimeErr' = Reported(runtimeErr \cup UNION inventoryDone)
  /\ inventoryDone' = {}
  /\ NoFault
  /\ UNCHANGED <<contextVars, serveVars, inventory, loaded, runtime, worker, serverVars, publicationVars>>

ControllerStep == WaitLoaded \/ RuntimeReturned \/ JoinInventory

-------------------------------------------------------------------------------
(* Definitions.Run and its goroutine *)

\* Replace applied the first list (external, the Inventory module).
Load ==
  /\ inventory = "run" /\ ~loaded
  /\ loaded' = TRUE
  /\ NoFault
  /\ UNCHANGED <<contextVars, serveVars, controller, runtimeErr, inventory, inventoryDone,
                 runtime, worker, serverVars, publicationVars>>

\* Run returns nil once its context ends: the done channel closes.
InventoryReturns ==
  /\ inventory = "run" /\ InnerCtxDone
  /\ inventory' = "stopped"
  /\ NoFault
  /\ UNCHANGED <<contextVars, serveVars, controller, runtimeErr, loaded, inventoryDone,
                 runtime, worker, serverVars, publicationVars>>

\* Another DefinitionRunner may give up by itself (external), with an error or
\* without one.
InventoryStops ==
  /\ inventory = "run"
  /\ \/ inventory' = "failed" /\ Fault("inventory")
     \/ inventory' = "stopped" /\ ~InnerCtxDone /\ Fault("stopped_early")
  /\ UNCHANGED <<contextVars, serveVars, controller, runtimeErr, loaded, inventoryDone,
                 runtime, worker, serverVars, publicationVars>>

\* inventoryDone <- err: no error while the context lives is an error.
SendInventory ==
  /\ inventory \in {"stopped", "failed"}
  /\ inventoryDone' = {IF inventory = "failed" \/ ~InnerCtxDone THEN {"inventory"} ELSE {}}
  /\ inventory' = "sent"
  /\ NoFault
  /\ UNCHANGED <<contextVars, serveVars, controller, runtimeErr, loaded, runtime, worker,
                 serverVars, publicationVars>>

CancelAfterInventory ==
  /\ inventory = "sent"
  /\ inventory' = "done" /\ innerDone' = TRUE
  /\ NoFault
  /\ UNCHANGED <<ctxDone, runDone, serveVars, controller, runtimeErr, loaded, inventoryDone,
                 runtime, worker, serverVars, publicationVars>>

InventoryStep == InventoryReturns \/ SendInventory \/ CancelAfterInventory

-------------------------------------------------------------------------------
(* Runtime.Run *)

\* The loop ends with the context; then cancel, the queues' ShutDown and stopWatches.
StopRuntime ==
  /\ runtime = "select" /\ InnerCtxDone
  /\ runtime' = "wait"
  /\ NoFault
  /\ UNCHANGED <<contextVars, serveVars, controller, runtimeErr, inventory, loaded, inventoryDone,
                 worker, serverVars, publicationVars>>

\* A Runner may also stop by itself: here because the changes channel closes;
\* another one (external) may give no reason.
RuntimeStops ==
  /\ runtime = "select" /\ ~InnerCtxDone
  /\ runtime' = "wait"
  /\ \/ runtimeErr' = {"changes"} /\ Fault("changes")
     \/ UNCHANGED runtimeErr /\ Fault("stopped_early")
  /\ UNCHANGED <<contextVars, serveVars, controller, inventory, loaded, inventoryDone,
                 worker, serverVars, publicationVars>>

\* runWorker: Get returns a key while the queue is open, reconcile ends also
\* when its context does, and Get reports the shutdown of the queue.
WorkerStep ==
  /\ \/ worker = "get" /\ runtime = "select" /\ worker' = "job"
     \/ worker = "job" /\ worker' = "get"
     \/ worker = "get" /\ runtime = "wait" /\ worker' = "gone"
  /\ NoFault
  /\ UNCHANGED <<contextVars, serveVars, controller, runtimeErr, inventory, loaded, inventoryDone,
                 runtime, serverVars, publicationVars>>

\* wg.Wait.
WaitWorkers ==
  /\ runtime = "wait" /\ worker = "gone"
  /\ runtime' = "returned"
  /\ NoFault
  /\ UNCHANGED <<contextVars, serveVars, controller, runtimeErr, inventory, loaded, inventoryDone,
                 worker, serverVars, publicationVars>>

RuntimeStep == StopRuntime \/ WaitWorkers

-------------------------------------------------------------------------------
(* The HTTP server *)

\* server.Serve returns: ErrServerClosed counts as none.
ServerReturns ==
  /\ \/ server = "closed" /\ serverDone' = {{}} /\ NoFault
     \/ server = "serving" /\ Fault("serve") /\ serverDone' = {{"serve"}}
  /\ server' = "returned"
  /\ UNCHANGED <<contextVars, serveVars, controllerVars, publicationVars>>

\* A request for /metrics.
Accept ==
  /\ server = "serving" /\ scrape.pc \in {"none", "done"}
  /\ budget.scrapes > 0
  /\ budget' = [budget EXCEPT !.scrapes = @ - 1]
  /\ scrape' = [pc |-> "accepted"]
  /\ UNCHANGED <<contextVars, serveVars, controllerVars, serverVars, failed, stored>>

\* The handler gathers: a callback that is no longer registered, or a provider
\* that was shut down, yields nothing (external).
Gather ==
  /\ scrape.pc = "accepted"
  /\ IF registered /\ provider THEN Capture
     ELSE scrape' = NoScrape /\ UNCHANGED stored
  /\ UNCHANGED applicationVars

Collect == Collecting /\ UNCHANGED applicationVars

-------------------------------------------------------------------------------

\* SIGINT or SIGTERM.
Signal ==
  /\ ~ctxDone
  /\ budget.signals > 0
  /\ budget' = [budget EXCEPT !.signals = @ - 1]
  /\ ctxDone' = TRUE
  /\ UNCHANGED <<runDone, innerDone, serveVars, controllerVars, serverVars, failed, publicationVars>>

\* Workers and watches write while the runtime is there.
Publish ==
  /\ runtime \in {"select", "wait"}
  /\ budget.writes > 0
  /\ budget' = [budget EXCEPT !.writes = @ - 1]
  /\ Writers
  /\ UNCHANGED <<contextVars, serveVars, controllerVars, serverVars, failed>>

External ==
  \/ \E c \in Callers, cause \in {"listen", "register"} : SetUpFails(c, cause)
  \/ Load \/ InventoryStops \/ RuntimeStops \/ Accept \/ Signal \/ Publish

Next ==
  \/ \E c \in Callers : Start(c) \/ ServeStep(c)
  \/ ControllerStep \/ InventoryStep \/ RuntimeStep \/ WorkerStep
  \/ ServerReturns \/ Gather \/ Collect
  \/ External

ApplicationSpec == ApplicationInit /\ [][Next]_vars

\* Every goroutine that can go on does: reconcile and the reflector obey their
\* context, Shutdown closes the listener, and a handler ends.
FairApplicationSpec ==
  /\ ApplicationSpec
  /\ \A c \in Callers : WF_vars(ServeStep(c))
  /\ WF_vars(ControllerStep) /\ WF_vars(InventoryStep)
  /\ WF_vars(RuntimeStep) /\ WF_vars(WorkerStep)
  /\ WF_vars(server = "closed" /\ ServerReturns)
  /\ WF_vars(Gather) /\ WF_vars(Collect)

-------------------------------------------------------------------------------
(* Properties *)

\* The meter provider is shut down, and Serve returns, only when everything it
\* started has ended: no worker, no inventory, no server goroutine is left, and
\* no callback of the collector is registered or still reads Store.  A goroutine
\* is joined through its channel, so the inventory's may still have to cancel.
StopsInOrder ==
  ~provider =>
    /\ controller \in {"off", "done"} /\ inventory \in {"off", "sent", "done"}
    /\ runtime \in {"off", "returned"} /\ worker \in {"off", "gone"}
    /\ server \in {"off", "returned"}
    /\ ~registered /\ scrape.pc # "pods" /\ ~running

\* What Serve returns explains why it ended: without an error only when it was
\* cancelled, with one only when something failed or gave up, and then with
\* every failure that occurred, in whatever order the goroutines ended.
StopIsExplained ==
  \A c \in Callers :
    serve[c] = "returned" /\ err[c] # {"already_started"} =>
      /\ err[c] = {} => ctxDone
      /\ err[c] # {} => failed # {}
      /\ failed \ {"stopped_early"} \subseteq err[c]

\* A signal, or the end of any one component, ends the others and Serve.
StopsWhenAsked ==
  ctxDone \/ failed # {} ~> \A c \in Callers : serve[c] \in {"idle", "returned"}
===============================================================================
