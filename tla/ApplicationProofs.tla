-------------------------- MODULE ApplicationProofs --------------------------
(***************************************************************************)
(* Proofs about the exporter's process for any number of callers, any      *)
(* budget of faults, signals, scrapes and writes, and any Store: Serve     *)
(* stops everything it started before it gives up the meter provider, and  *)
(* what it returns explains why it ended; and a finished scrape shows      *)
(* exactly one moment of Store, in whatever order the Pods are observed    *)
(* and whatever is written meanwhile.                                      *)
(***************************************************************************)
EXTENDS Application, FiniteSetTheorems, TLAPS

-------------------------------------------------------------------------------
(* The process *)

\* Causes that a goroutine of RunController can report, and those that count
\* as something going wrong.
RunCauses == {"canceled", "inventory", "changes", "stopped"}
FaultCauses ==
  {"listen", "register", "shutdown", "provider", "inventory", "changes", "serve",
   "stopped_early"}

ServeSteps ==
  {"idle", "listen", "select", "shutdown", "shutdown_alone", "join",
   "join_alone", "unregister", "provider", "returned"}

ProcessType ==
  /\ serve \in [Callers -> ServeSteps]
  /\ err \in [Callers -> SUBSET (RunCauses \cup FaultCauses \cup {"already_started"})]
  /\ controller \in {"off", "load", "run", "join", "done"}
  /\ inventory \in {"off", "run", "stopped", "failed", "sent", "done"}
  /\ runtime \in {"off", "select", "wait", "returned"}
  /\ worker \in {"off", "get", "job", "gone"}
  /\ server \in {"off", "serving", "closed", "returned"}
  /\ runtimeErr \in SUBSET RunCauses
  /\ inventoryDone \in SUBSET SUBSET {"inventory"}
  /\ serverDone \in SUBSET SUBSET {"serve"}
  /\ failed \in SUBSET FaultCauses

\* How far the goroutines of RunController, of the inventory, of the runtime
\* and of the server can be from each other.
Goroutines ==
  /\ controller = "off" =>
       /\ inventory = "off" /\ server = "off" /\ runtimeErr = {}
       /\ ~registered /\ ~running /\ ~runDone /\ ~innerDone
  /\ controller # "off" => server # "off"
  /\ controller \in {"off", "load"} => runtime = "off" /\ worker = "off"
  /\ controller = "load" => runtimeErr = {}
  /\ controller = "run" => runtime # "off"
  /\ controller \in {"join", "done"} => runtime \in {"off", "returned"}
  /\ controller = "done" => inventory \in {"sent", "done"} /\ inventoryDone = {}
  /\ inventory \notin {"sent", "done"} => inventoryDone = {}
  /\ runtime = "off" => worker = "off"
  /\ runtime = "select" => worker \in {"get", "job"} /\ runtimeErr = {}
  /\ runtime = "returned" => worker = "gone"
  /\ server # "returned" => serverDone = {}
  /\ scrape.pc = "pods" => registered

Active(c) == serve[c] \notin {"idle", "returned"}

\* The caller whom started belongs to: the others were sent away at once.
Leader(c) == serve[c] # "idle" /\ err[c] # {"already_started"}

\* Nothing was started, or all of it has ended.
Quiet ==
  \/ controller = "off"
  \/ controller = "done" /\ server = "returned" /\ ~registered /\ ~running

\* Only one call of Serve is under way.
OneCaller ==
  /\ \A c, d \in Callers : Active(c) /\ c # d => ~Active(d)
  /\ ~started => provider /\ controller = "off" /\ failed = {} /\ \A c \in Callers : serve[c] = "idle"
  /\ ~provider => \A c \in Callers : ~Active(c)
  /\ \A c \in Callers : serve[c] = "idle" => err[c] = {}
  /\ \A c \in Callers : Active(c) => "already_started" \notin err[c]
  /\ \A c \in Callers : Leader(c) /\ serve[c] = "returned" => ~provider

BeforeJoin == {"select", "shutdown", "shutdown_alone", "join", "join_alone"}

\* What the step Serve is at says of the goroutines it started.
ServeInv ==
  /\ \A c \in Callers : serve[c] = "listen" => controller = "off"
  /\ \A c \in Callers : serve[c] = "select" =>
       controller # "off" /\ ~runDone /\ server # "closed" /\ serverDone \subseteq {{"serve"}}
  /\ \A c \in Callers : serve[c] \in (BeforeJoin \ {"select"}) \cup {"unregister"} =>
       controller # "off" /\ ~running
  /\ \A c \in Callers : serve[c] \in {"shutdown_alone", "join_alone", "unregister"} =>
       server = "returned" /\ serverDone = {}
  /\ \A c \in Callers : serve[c] = "join" => server \in {"closed", "returned"}
  /\ \A c \in Callers : serve[c] = "unregister" => controller = "done"
  /\ \A c \in Callers : serve[c] = "provider" => Quiet
  /\ ~provider => Quiet

\* Whatever ended did so after a signal or a fault, and no error is made up.
EndsForAReason ==
  /\ \/ innerDone \/ runDone \/ controller \in {"join", "done"}
     \/ inventory \in {"stopped", "failed", "sent", "done"} \/ runtime \in {"wait", "returned"}
     \/ server \in {"closed", "returned"}
     => ctxDone \/ failed # {}
  /\ \/ inventory = "failed" \/ runtimeErr # {} \/ UNION inventoryDone # {}
     \/ UNION serverDone # {} \/ \E c \in Callers : Leader(c) /\ err[c] # {}
     => failed # {}

\* Causes on their way to Serve's error.
InFlight ==
  runtimeErr \cup (UNION inventoryDone) \cup (UNION serverDone)
    \cup (IF inventory = "failed" THEN {"inventory"} ELSE {})

\* A fault is in Serve's error or on its way, and without a signal Serve goes on
\* to its end only with an error, in hand or on its way.
Explained ==
  /\ \A c \in Callers : Leader(c) =>
       failed \ {"stopped_early"} \subseteq err[c] \cup (IF serve[c] \in BeforeJoin THEN InFlight ELSE {})
  /\ controller = "done" => ctxDone \/ runDone \/ runtimeErr # {}
  /\ \A c \in Callers : Leader(c) /\ serve[c] \notin {"listen", "select"} =>
       \/ ctxDone \/ err[c] # {}
       \/ serve[c] \in BeforeJoin /\ controller = "done" /\ runtimeErr # {}

ProcessInv == ProcessType /\ Goroutines /\ OneCaller /\ ServeInv /\ EndsForAReason /\ Explained

-------------------------------------------------------------------------------

\* A channel that holds one error at most holds this one.
LEMMA OneError ==
  ASSUME NEW channel, NEW error, channel \subseteq {error}, channel # {}
  PROVE  UNION channel = error
<1>1. channel = {error}
  OBVIOUS
<1> QED
  BY <1>1

\* While anything that Serve started still runs, Serve has not joined it.
LEMMA RunningIsNotJoined ==
  ASSUME ProcessInv, inventory = "run" \/ runtime = "select" \/ server = "serving"
  PROVE  \A c \in Callers : Leader(c) => serve[c] \in BeforeJoin
BY DEF ProcessInv, ProcessType, ServeSteps, Goroutines, OneCaller, ServeInv, Active, Leader,
       Quiet, BeforeJoin

\* Serve up to the select of serveListener.
LEMMA SetUpKeeps ==
  ASSUME ProcessInv, NEW c \in Callers,
         \/ Start(c) \/ ServeListener(c)
         \/ \E cause \in {"listen", "register"} : SetUpFails(c, cause)
  PROVE  ProcessInv'
<1> USE DEF ProcessInv, ProcessType, RunCauses, FaultCauses, Goroutines, OneCaller, ServeInv,
           Active, Leader, Quiet, BeforeJoin
<1> USE DEF Goto, Fault, NoFault, contextVars, serveVars, controllerVars, serverVars, publicationVars
<1>1. CASE Start(c)
  <2> USE <1>1 DEF Start
  <2>1. ProcessType' /\ Goroutines'
    BY DEF ServeSteps
  <2>2. OneCaller' /\ ServeInv'
    OBVIOUS
  <2>3. EndsForAReason' /\ Explained'
    BY DEF EndsForAReason, Explained, InFlight
  <2> QED
    BY <2>1, <2>2, <2>3
<1>2. CASE \E cause \in {"listen", "register"} : SetUpFails(c, cause)
  <2> USE <1>2 DEF SetUpFails
  <2>1. ProcessType' /\ Goroutines'
    BY DEF ServeSteps
  <2>2. OneCaller' /\ ServeInv'
    OBVIOUS
  <2>3. EndsForAReason' /\ Explained'
    BY DEF EndsForAReason, Explained, InFlight
  <2> QED
    BY <2>1, <2>2, <2>3
<1>3. CASE ServeListener(c)
  <2> USE <1>3 DEF ServeListener
  <2>1. ProcessType' /\ Goroutines'
    BY DEF ServeSteps
  <2>2. OneCaller' /\ ServeInv'
    OBVIOUS
  <2>3. EndsForAReason' /\ Explained'
    BY DEF EndsForAReason, Explained, InFlight
  <2> QED
    BY <2>1, <2>2, <2>3
<1> QED
  BY <1>1, <1>2, <1>3

\* Serve from its select to its return.
LEMMA TearDownKeeps ==
  ASSUME ProcessInv, NEW c \in Callers,
         StopServing(c) \/ Shutdown(c) \/ Join(c) \/ Unregister(c) \/ ShutdownProvider(c)
  PROVE  ProcessInv'
<1> USE DEF ProcessInv, ProcessType, RunCauses, FaultCauses, Goroutines, OneCaller, ServeInv,
           Active, Leader, Quiet, BeforeJoin
<1> USE DEF Goto, Fault, NoFault, contextVars, serveVars, controllerVars, serverVars, publicationVars
<1>1. CASE /\ StopServing(c)
           /\ Goto(c, "shutdown", {})
  <2> USE <1>1 DEF StopServing
  <2>1. ProcessType' /\ Goroutines'
    BY DEF ServeSteps
  <2>2. OneCaller' /\ ServeInv'
    OBVIOUS
  <2>3. EndsForAReason' /\ Explained'
    BY DEF EndsForAReason, Explained, InFlight
  <2> QED
    BY <2>1, <2>2, <2>3
<1>2. CASE /\ StopServing(c)
           /\ Goto(c, "shutdown_alone", UNION serverDone)
  <2> USE <1>2 DEF StopServing
  <2>1. ProcessType' /\ Goroutines'
    BY DEF ServeSteps
  <2>2. OneCaller' /\ ServeInv'
    OBVIOUS
  <2>3. EndsForAReason' /\ Explained'
    <3>1. EndsForAReason'
      BY DEF EndsForAReason
    <3>2. UNION serverDone = {"serve"}
      <4>0. serverDone \subseteq {{"serve"}} /\ serverDone # {}
        OBVIOUS
      <4> QED
        BY <4>0, OneError
    <3>3. \A d \in Callers : Leader(d)' => d = c
      OBVIOUS
    <3>4. /\ err'[c] = err[c] \cup {"serve"} /\ InFlight \subseteq InFlight' \cup {"serve"}
          /\ failed' = failed /\ serve'[c] \in BeforeJoin /\ Leader(c)
      BY <3>2 DEF InFlight
    <3>5. failed' \ {"stopped_early"} \subseteq err'[c] \cup InFlight'
      BY <3>4 DEF Explained
    <3>6. controller' = "done" => ctxDone' \/ runDone' \/ runtimeErr' # {}
      OBVIOUS
    <3> QED
      BY <3>1, <3>3, <3>4, <3>5, <3>6 DEF Explained
  <2> QED
    BY <2>1, <2>2, <2>3
<1>3. CASE /\ Shutdown(c)
           /\ serve[c] = "shutdown" /\ Goto(c, "join", {}) /\ NoFault
  <2> USE <1>3 DEF Shutdown
  <2>1. ProcessType' /\ Goroutines'
    BY DEF ServeSteps
  <2>2. OneCaller' /\ ServeInv'
    OBVIOUS
  <2>3. EndsForAReason' /\ Explained'
    BY DEF EndsForAReason, Explained, InFlight
  <2> QED
    BY <2>1, <2>2, <2>3
<1>4. CASE /\ Shutdown(c)
           /\ serve[c] = "shutdown_alone" /\ Goto(c, "join_alone", {}) /\ NoFault
  <2> USE <1>4 DEF Shutdown
  <2>1. ProcessType' /\ Goroutines'
    BY DEF ServeSteps
  <2>2. OneCaller' /\ ServeInv'
    OBVIOUS
  <2>3. EndsForAReason' /\ Explained'
    BY DEF EndsForAReason, Explained, InFlight
  <2> QED
    BY <2>1, <2>2, <2>3
<1>5. CASE /\ Shutdown(c)
           /\ serve[c] = "shutdown" /\ Goto(c, "join", {"shutdown"})
           /\ failed' = failed \cup {"shutdown"}
  <2> USE <1>5 DEF Shutdown
  <2>1. ProcessType' /\ Goroutines'
    BY DEF ServeSteps
  <2>2. OneCaller' /\ ServeInv'
    OBVIOUS
  <2>3. EndsForAReason' /\ Explained'
    BY DEF EndsForAReason, Explained, InFlight
  <2> QED
    BY <2>1, <2>2, <2>3
<1>6. CASE /\ Shutdown(c)
           /\ serve[c] = "shutdown_alone" /\ Goto(c, "join_alone", {"shutdown"})
           /\ failed' = failed \cup {"shutdown"}
  <2> USE <1>6 DEF Shutdown
  <2>1. ProcessType' /\ Goroutines'
    BY DEF ServeSteps
  <2>2. OneCaller' /\ ServeInv'
    OBVIOUS
  <2>3. EndsForAReason' /\ Explained'
    BY DEF EndsForAReason, Explained, InFlight
  <2> QED
    BY <2>1, <2>2, <2>3
<1>7. CASE /\ Shutdown(c)
           /\ NoFault /\ UNCHANGED <<serve, err>>
  <2> USE <1>7 DEF Shutdown
  <2>1. ProcessType' /\ Goroutines'
    BY DEF ServeSteps
  <2>2. OneCaller' /\ ServeInv'
    OBVIOUS
  <2>3. EndsForAReason' /\ Explained'
    BY DEF EndsForAReason, Explained, InFlight
  <2> QED
    BY <2>1, <2>2, <2>3
<1>8. CASE /\ Join(c)
           /\ serve[c] = "join"
  <2> USE <1>8 DEF Join
  <2>1. ProcessType' /\ Goroutines'
    <3>1. err' \in [Callers -> SUBSET (RunCauses \cup FaultCauses \cup {"already_started"})]
      <4>1. (UNION serverDone) \cup runtimeErr \subseteq RunCauses \cup FaultCauses
        OBVIOUS
      <4>2. err[c] \cup ((UNION serverDone) \cup runtimeErr)
              \in SUBSET (RunCauses \cup FaultCauses \cup {"already_started"})
        BY <4>1
      <4> HIDE DEF RunCauses, FaultCauses
      <4> QED
        BY <4>2
    <3> QED
      BY <3>1 DEF ServeSteps
  <2>2. OneCaller' /\ ServeInv'
    OBVIOUS
  <2>3. EndsForAReason' /\ Explained'
    BY DEF EndsForAReason, Explained, InFlight
  <2> QED
    BY <2>1, <2>2, <2>3
<1>9. CASE /\ Join(c)
           /\ serve[c] = "join_alone"
  <2> USE <1>9 DEF Join
  <2>1. ProcessType' /\ Goroutines'
    <3>1. err' \in [Callers -> SUBSET (RunCauses \cup FaultCauses \cup {"already_started"})]
      <4>1. runtimeErr \subseteq RunCauses \cup FaultCauses
        OBVIOUS
      <4>2. err[c] \cup (runtimeErr)
              \in SUBSET (RunCauses \cup FaultCauses \cup {"already_started"})
        BY <4>1
      <4> HIDE DEF RunCauses, FaultCauses
      <4> QED
        BY <4>2
    <3> QED
      BY <3>1 DEF ServeSteps
  <2>2. OneCaller' /\ ServeInv'
    OBVIOUS
  <2>3. EndsForAReason' /\ Explained'
    BY DEF EndsForAReason, Explained, InFlight
  <2> QED
    BY <2>1, <2>2, <2>3
<1>10. CASE Unregister(c)
  <2> USE <1>10 DEF Unregister
  <2>1. ProcessType' /\ Goroutines'
    BY DEF ServeSteps
  <2>2. OneCaller' /\ ServeInv'
    OBVIOUS
  <2>3. EndsForAReason' /\ Explained'
    BY DEF EndsForAReason, Explained, InFlight
  <2> QED
    BY <2>1, <2>2, <2>3
<1>11. CASE ShutdownProvider(c)
  <2> USE <1>11 DEF ShutdownProvider
  <2>1. ProcessType' /\ Goroutines'
    BY DEF ServeSteps
  <2>2. OneCaller' /\ ServeInv'
    OBVIOUS
  <2>3. EndsForAReason' /\ Explained'
    BY DEF EndsForAReason, Explained, InFlight
  <2> QED
    BY <2>1, <2>2, <2>3
<1> QED
  <2>1. CASE Shutdown(c)
    BY <2>1, <1>3, <1>4, <1>5, <1>6, <1>7 DEF Shutdown
  <2> QED
    BY <2>1, <1>1, <1>2, <1>8, <1>9, <1>10, <1>11 DEF StopServing, Join

\* RunController.
LEMMA ControllerKeeps ==
  ASSUME ProcessInv, ControllerStep
  PROVE  ProcessInv'
<1> USE DEF ProcessInv, ProcessType, RunCauses, FaultCauses, Goroutines, OneCaller, ServeInv,
           Active, Leader, Quiet, BeforeJoin
<1> USE DEF InnerCtxDone, RunCtxDone, Fault, NoFault, contextVars, serveVars, controllerVars, serverVars, publicationVars
<1>1. CASE /\ WaitLoaded
           /\ controller' = "run"
  <2> USE <1>1 DEF WaitLoaded
  <2>1. ProcessType' /\ Goroutines'
    BY DEF ServeSteps
  <2>2. OneCaller' /\ ServeInv'
    OBVIOUS
  <2>3. EndsForAReason' /\ Explained'
    BY DEF EndsForAReason, Explained, InFlight
  <2> QED
    BY <2>1, <2>2, <2>3
<1>2. CASE /\ WaitLoaded
           /\ controller' = "join"
  <2> USE <1>2 DEF WaitLoaded
  <2>1. ProcessType' /\ Goroutines'
    BY DEF ServeSteps
  <2>2. OneCaller' /\ ServeInv'
    OBVIOUS
  <2>3. EndsForAReason' /\ Explained'
    BY DEF EndsForAReason, Explained, InFlight
  <2> QED
    BY <2>1, <2>2, <2>3
<1>3. CASE RuntimeReturned
  <2> USE <1>3 DEF RuntimeReturned
  <2>1. ProcessType' /\ Goroutines'
    BY DEF ServeSteps
  <2>2. OneCaller' /\ ServeInv'
    OBVIOUS
  <2>3. EndsForAReason' /\ Explained'
    BY DEF EndsForAReason, Explained, InFlight
  <2> QED
    BY <2>1, <2>2, <2>3
<1>4. CASE JoinInventory
  <2> USE <1>4 DEF JoinInventory, Reported
  <2>1. ProcessType' /\ Goroutines'
    BY DEF ServeSteps
  <2>2. OneCaller' /\ ServeInv'
    OBVIOUS
  <2>3. EndsForAReason' /\ Explained'
    BY DEF EndsForAReason, Explained, InFlight
  <2> QED
    BY <2>1, <2>2, <2>3
<1> QED
  BY <1>1, <1>2, <1>3, <1>4 DEF ControllerStep, WaitLoaded

\* Definitions.Run and its goroutine.
LEMMA InventoryKeeps ==
  ASSUME ProcessInv, InventoryStep \/ InventoryStops
  PROVE  ProcessInv'
<1> USE DEF ProcessInv, ProcessType, RunCauses, FaultCauses, Goroutines, OneCaller, ServeInv,
           Active, Leader, Quiet, BeforeJoin
<1> USE DEF InnerCtxDone, RunCtxDone, Fault, NoFault, contextVars, serveVars, controllerVars, serverVars, publicationVars
<1>1. CASE InventoryReturns
  <2> USE <1>1 DEF InventoryReturns
  <2>1. ProcessType' /\ Goroutines'
    BY DEF ServeSteps
  <2>2. OneCaller' /\ ServeInv'
    OBVIOUS
  <2>3. EndsForAReason' /\ Explained'
    BY DEF EndsForAReason, Explained, InFlight
  <2> QED
    BY <2>1, <2>2, <2>3
<1>2. CASE /\ InventoryStops
           /\ inventory' = "failed" /\ failed' = failed \cup {"inventory"}
  <2> USE <1>2 DEF InventoryStops
  <2>0. \A c \in Callers : Leader(c) => serve[c] \in BeforeJoin
    BY RunningIsNotJoined
  <2>1. ProcessType' /\ Goroutines'
    BY DEF ServeSteps
  <2>2. OneCaller' /\ ServeInv'
    OBVIOUS
  <2>3. EndsForAReason' /\ Explained'
    BY <2>0 DEF EndsForAReason, Explained, InFlight
  <2> QED
    BY <2>1, <2>2, <2>3
<1>3. CASE /\ InventoryStops
           /\ inventory' = "stopped" /\ failed' = failed \cup {"stopped_early"}
  <2> USE <1>3 DEF InventoryStops
  <2>0. \A c \in Callers : Leader(c) => serve[c] \in BeforeJoin
    BY RunningIsNotJoined
  <2>1. ProcessType' /\ Goroutines'
    BY DEF ServeSteps
  <2>2. OneCaller' /\ ServeInv'
    OBVIOUS
  <2>3. EndsForAReason' /\ Explained'
    BY <2>0 DEF EndsForAReason, Explained, InFlight
  <2> QED
    BY <2>1, <2>2, <2>3
<1>4. CASE SendInventory
  <2> USE <1>4 DEF SendInventory
  <2>1. ProcessType' /\ Goroutines'
    BY DEF ServeSteps
  <2>2. OneCaller' /\ ServeInv'
    OBVIOUS
  <2>3. EndsForAReason' /\ Explained'
    BY DEF EndsForAReason, Explained, InFlight
  <2> QED
    BY <2>1, <2>2, <2>3
<1>5. CASE CancelAfterInventory
  <2> USE <1>5 DEF CancelAfterInventory
  <2>1. ProcessType' /\ Goroutines'
    BY DEF ServeSteps
  <2>2. OneCaller' /\ ServeInv'
    OBVIOUS
  <2>3. EndsForAReason' /\ Explained'
    BY DEF EndsForAReason, Explained, InFlight
  <2> QED
    BY <2>1, <2>2, <2>3
<1> QED
  BY <1>1, <1>2, <1>3, <1>4, <1>5 DEF InventoryStep, InventoryStops

\* Runtime.Run and its worker.
LEMMA RuntimeKeeps ==
  ASSUME ProcessInv, RuntimeStep \/ RuntimeStops \/ WorkerStep
  PROVE  ProcessInv'
<1> USE DEF ProcessInv, ProcessType, RunCauses, FaultCauses, Goroutines, OneCaller, ServeInv,
           Active, Leader, Quiet, BeforeJoin
<1> USE DEF InnerCtxDone, RunCtxDone, Fault, NoFault, contextVars, serveVars, controllerVars, serverVars, publicationVars
<1>1. CASE StopRuntime
  <2> USE <1>1 DEF StopRuntime
  <2>1. ProcessType' /\ Goroutines'
    BY DEF ServeSteps
  <2>2. OneCaller' /\ ServeInv'
    OBVIOUS
  <2>3. EndsForAReason' /\ Explained'
    BY DEF EndsForAReason, Explained, InFlight
  <2> QED
    BY <2>1, <2>2, <2>3
<1>2. CASE /\ RuntimeStops
           /\ runtimeErr' = {"changes"} /\ failed' = failed \cup {"changes"}
  <2> USE <1>2 DEF RuntimeStops
  <2>0. \A c \in Callers : Leader(c) => serve[c] \in BeforeJoin
    BY RunningIsNotJoined
  <2>1. ProcessType' /\ Goroutines'
    BY DEF ServeSteps
  <2>2. OneCaller' /\ ServeInv'
    OBVIOUS
  <2>3. EndsForAReason' /\ Explained'
    BY <2>0 DEF EndsForAReason, Explained, InFlight
  <2> QED
    BY <2>1, <2>2, <2>3
<1>3. CASE /\ RuntimeStops
           /\ runtimeErr' = runtimeErr /\ failed' = failed \cup {"stopped_early"}
  <2> USE <1>3 DEF RuntimeStops
  <2>0. \A c \in Callers : Leader(c) => serve[c] \in BeforeJoin
    BY RunningIsNotJoined
  <2>1. ProcessType' /\ Goroutines'
    BY DEF ServeSteps
  <2>2. OneCaller' /\ ServeInv'
    OBVIOUS
  <2>3. EndsForAReason' /\ Explained'
    BY <2>0 DEF EndsForAReason, Explained, InFlight
  <2> QED
    BY <2>1, <2>2, <2>3
<1>4. CASE WorkerStep
  <2> USE <1>4 DEF WorkerStep
  <2>1. ProcessType' /\ Goroutines'
    BY DEF ServeSteps
  <2>2. OneCaller' /\ ServeInv'
    OBVIOUS
  <2>3. EndsForAReason' /\ Explained'
    BY DEF EndsForAReason, Explained, InFlight
  <2> QED
    BY <2>1, <2>2, <2>3
<1>5. CASE WaitWorkers
  <2> USE <1>5 DEF WaitWorkers
  <2>1. ProcessType' /\ Goroutines'
    BY DEF ServeSteps
  <2>2. OneCaller' /\ ServeInv'
    OBVIOUS
  <2>3. EndsForAReason' /\ Explained'
    BY DEF EndsForAReason, Explained, InFlight
  <2> QED
    BY <2>1, <2>2, <2>3
<1> QED
  BY <1>1, <1>2, <1>3, <1>4, <1>5 DEF RuntimeStep, RuntimeStops

\* The HTTP server returns, or a signal arrives.
LEMMA ServerKeeps ==
  ASSUME ProcessInv, ServerReturns \/ Signal
  PROVE  ProcessInv'
<1> USE DEF ProcessInv, ProcessType, RunCauses, FaultCauses, Goroutines, OneCaller, ServeInv,
           Active, Leader, Quiet, BeforeJoin
<1> USE DEF InnerCtxDone, RunCtxDone, Fault, NoFault, contextVars, serveVars, controllerVars, serverVars, publicationVars
<1>1. CASE /\ ServerReturns
           /\ server = "closed" /\ serverDone' = {{}}
  <2> USE <1>1 DEF ServerReturns
  <2>1. ProcessType' /\ Goroutines'
    BY DEF ServeSteps
  <2>2. OneCaller' /\ ServeInv'
    OBVIOUS
  <2>3. EndsForAReason' /\ Explained'
    BY DEF EndsForAReason, Explained, InFlight
  <2> QED
    BY <2>1, <2>2, <2>3
<1>2. CASE /\ ServerReturns
           /\ server = "serving" /\ serverDone' = {{"serve"}} /\ failed' = failed \cup {"serve"}
  <2> USE <1>2 DEF ServerReturns
  <2>0. \A c \in Callers : Leader(c) => serve[c] \in BeforeJoin
    BY RunningIsNotJoined
  <2>1. ProcessType' /\ Goroutines'
    BY DEF ServeSteps
  <2>2. OneCaller' /\ ServeInv'
    OBVIOUS
  <2>3. EndsForAReason' /\ Explained'
    BY <2>0 DEF EndsForAReason, Explained, InFlight
  <2> QED
    BY <2>1, <2>2, <2>3
<1>3. CASE Signal
  <2> USE <1>3 DEF Signal
  <2>1. ProcessType' /\ Goroutines'
    BY DEF ServeSteps
  <2>2. OneCaller' /\ ServeInv'
    OBVIOUS
  <2>3. EndsForAReason' /\ Explained'
    BY DEF EndsForAReason, Explained, InFlight
  <2> QED
    BY <2>1, <2>2, <2>3
<1> QED
  BY <1>1, <1>2, <1>3 DEF ServerReturns

\* Steps that touch only Store, the scrape, the budget and the loaded channel.
LEMMA ScrapeKeeps ==
  ASSUME ProcessInv,
         UNCHANGED <<contextVars, serveVars, serverVars, failed>>,
         UNCHANGED <<controller, runtimeErr, inventory, inventoryDone, runtime, worker>>,
         scrape'.pc = "pods" => registered
  PROVE  ProcessInv'
<1> USE DEF ProcessInv, ProcessType, RunCauses, FaultCauses, Goroutines, OneCaller, ServeInv,
           Active, Leader, Quiet, BeforeJoin
<1> USE DEF contextVars, serveVars, controllerVars, serverVars, publicationVars
<1>1. ProcessType' /\ Goroutines'
  BY DEF ServeSteps
<1>2. OneCaller' /\ ServeInv'
  OBVIOUS
<1>3. EndsForAReason' /\ Explained'
  BY DEF EndsForAReason, Explained, InFlight
<1> QED
  BY <1>1, <1>2, <1>3

\* No step of the process, of a scrape or of Store's writers breaks it.
LEMMA NextProcessInv == ProcessInv /\ [Next]_vars => ProcessInv'
<1> SUFFICES ASSUME ProcessInv, [Next]_vars PROVE ProcessInv'
  OBVIOUS
<1>1. ASSUME NEW c \in Callers, Start(c) \/ ServeStep(c)
      PROVE  ProcessInv'
  BY <1>1, SetUpKeeps, TearDownKeeps DEF ServeStep
<1>2. ASSUME NEW c \in Callers, NEW cause \in {"listen", "register"}, SetUpFails(c, cause)
      PROVE  ProcessInv'
  BY <1>2, SetUpKeeps
<1>3. CASE ControllerStep
  BY <1>3, ControllerKeeps
<1>4. CASE InventoryStep \/ InventoryStops
  BY <1>4, InventoryKeeps
<1>5. CASE RuntimeStep \/ RuntimeStops \/ WorkerStep
  BY <1>5, RuntimeKeeps
<1>6. CASE ServerReturns \/ Signal
  BY <1>6, ServerKeeps
<1>7. CASE Load
  BY <1>7, ScrapeKeeps DEF Load, NoFault, controllerVars, publicationVars, ProcessInv, Goroutines
<1>8. CASE Accept
  BY <1>8, ScrapeKeeps DEF Accept, controllerVars
<1>9. CASE Gather
  <2>1. scrape'.pc = "pods" => registered
    BY <1>9 DEF Gather, NoScrape
  <2> QED
    BY <1>9, <2>1, ScrapeKeeps DEF Gather, applicationVars, controllerVars
<1>10. CASE Collect
  <2>1. registered
    BY <1>10 DEF Collect, Collecting, ObservePod, ObserveWorkload, ProcessInv, Goroutines
  <2> QED
    BY <1>10, <2>1, ScrapeKeeps DEF Collect, applicationVars, controllerVars
<1>11. CASE Publish
  <2>1. scrape' = scrape
    BY <1>11 DEF Publish, Writers, RemovePod, PublishPodFailure, PublishPod, FailWorkload,
                 PublishWorkload, RemoveWorkload, SetSourceHealth, RemoveSourceHealth,
                 SetDiscoveryFailure, RemoveDiscoveryFailure, UpsertPod, UpsertWorkload, Write
  <2> QED
    BY <1>11, <2>1, ScrapeKeeps DEF Publish, controllerVars, ProcessInv, Goroutines
<1>12. CASE UNCHANGED vars
  BY <1>12, ScrapeKeeps DEF vars, applicationVars, controllerVars, publicationVars, ProcessInv,
                            Goroutines
<1> QED
  BY <1>1, <1>2, <1>3, <1>4, <1>5, <1>6, <1>7, <1>8, <1>9, <1>10, <1>11, <1>12
     DEF Next, External

\* The process starts with nothing under way.
LEMMA InitProcessInv == ApplicationInit => ProcessInv
<1> SUFFICES ASSUME ApplicationInit PROVE ProcessInv
  OBVIOUS
<1>1. scrape.pc # "pods"
  BY DEF ApplicationInit, PublicationInit, NoScrape
<1>2. ProcessType
  BY DEF ApplicationInit, ProcessType, ServeSteps
<1>3. Goroutines
  BY <1>1 DEF ApplicationInit, Goroutines
<1>4. OneCaller /\ ServeInv /\ EndsForAReason /\ Explained
  BY DEF ApplicationInit, OneCaller, ServeInv, EndsForAReason, Explained, Active, Leader, BeforeJoin
<1> QED
  BY <1>2, <1>3, <1>4 DEF ProcessInv

\* The meter provider is shut down, and Serve returns, only when the workers,
\* the inventory, the server's goroutine and the collector's callback are gone.
THEOREM ApplicationStopsInOrder == ApplicationSpec => []StopsInOrder
<1>1. ProcessInv => StopsInOrder
  BY DEF ProcessInv, ProcessType, Goroutines, OneCaller, ServeInv, Quiet, StopsInOrder
<1> QED
  BY <1>1, InitProcessInv, NextProcessInv, PTL DEF ApplicationSpec

\* Serve returns without an error only when it was cancelled, with one only
\* when something failed, and then with every failure that occurred.
THEOREM ApplicationStopIsExplained == ApplicationSpec => []StopIsExplained
<1>1. ProcessInv => StopIsExplained
  <2> SUFFICES ASSUME ProcessInv, NEW c \in Callers,
                      serve[c] = "returned", err[c] # {"already_started"}
               PROVE  /\ err[c] = {} => ctxDone
                      /\ err[c] # {} => failed # {}
                      /\ failed \ {"stopped_early"} \subseteq err[c]
    BY DEF StopIsExplained
  <2>1. Leader(c) /\ serve[c] \notin BeforeJoin
    BY DEF Leader, BeforeJoin
  <2> QED
    BY <2>1 DEF ProcessInv, EndsForAReason, Explained
<1> QED
  BY <1>1, InitProcessInv, NextProcessInv, PTL DEF ApplicationSpec

-------------------------------------------------------------------------------
(* The scrape *)

USE PublicationAssumption

-------------------------------------------------------------------------------
(* Valid and failureReason *)

\* Among a few small numbers one is the least.
LEMMA LeastRank ==
  ASSUME NEW S, S \subseteq 1..5, S # {}
  PROVE  Min(S) \in S
<1>1. \E a \in S : \A b \in S : a =< b
  <2>1. CASE 1 \in S
    BY <2>1
  <2>2. CASE 1 \notin S /\ 2 \in S
    BY <2>2
  <2>3. CASE 1 \notin S /\ 2 \notin S /\ 3 \in S
    BY <2>3
  <2>4. CASE 1 \notin S /\ 2 \notin S /\ 3 \notin S /\ 4 \in S
    BY <2>4
  <2>5. CASE 1 \notin S /\ 2 \notin S /\ 3 \notin S /\ 4 \notin S
    <3>1. \A b \in S : b = 5
      BY <2>5
    <3>2. PICK a : a \in S
      OBVIOUS
    <3>3. 5 =< 5
      OBVIOUS
    <3> QED
      BY <3>1, <3>2, <3>3
  <2> QED
    BY <2>1, <2>2, <2>3, <2>4, <2>5
<1> QED
  BY <1>1 DEF Min

\* Every error ranks in Reasons.
LEMMA RankType == \A reason : Rank(reason) \in 1..5
<1>1. DOMAIN Reasons = 1..5
  BY DEF Reasons
<1> QED
  BY <1>1 DEF Rank

\* failureReason returns nothing exactly when it is given nothing, and never
\* the word for a valid result.
LEMMA ReasonOfNothing ==
  ASSUME NEW reasons
  PROVE  /\ FailureReason(reasons) = Unset <=> reasons \subseteq {Unset, "none"}
         /\ FailureReason(reasons) # "none"
<1> DEFINE ranks == {Rank(r) : r \in reasons \ {Unset, "none"}}
<1>1. ranks = {} <=> reasons \subseteq {Unset, "none"}
  OBVIOUS
<1>2. ranks \subseteq 1..5
  BY RankType
<1>3. \A i \in 1..5 : Reasons[i] \notin {Unset, "none"}
  BY DEF Reasons, Unset
<1>4. FailureReason(reasons) = IF ranks = {} THEN Unset ELSE Reasons[Min(ranks)]
  BY DEF FailureReason
<1> HIDE DEF ranks
<1>5. CASE ranks = {}
  BY <1>1, <1>4, <1>5 DEF Unset
<1>6. CASE ranks # {}
  <2>1. Min(ranks) \in 1..5
    BY <1>2, <1>6, LeastRank
  <2> QED
    BY <1>1, <1>3, <1>4, <1>6, <2>1
<1> QED
  BY <1>5, <1>6

\* Valid calls a result current exactly when its job succeeded and all its
\* sources are healthy, and otherwise says why.
LEMMA ValidIsSound ==
  ASSUME NEW view, NEW sources, NEW error, error # "none"
  PROVE  /\ Valid(view, sources, error) = "none" <=> error = Unset /\ Healthy(view, sources)
         /\ Valid(view, sources, error) # Unset
<1> DEFINE health(k) == IF k \in DOMAIN view.sources THEN view.sources[k] ELSE "absent"
           ill == {health(k) : k \in sources} \ {"healthy"}
<1>1. Valid(view, sources, error) =
        IF error \notin {Unset, "none"} THEN error
        ELSE IF ill = {} THEN "none"
        ELSE IF "permission_denied" \in ill THEN "permission_denied" ELSE "api_unavailable"
  BY DEF Valid
<1>2. ill = {} <=> Healthy(view, sources)
  BY DEF Healthy
<1> HIDE DEF ill
<1> QED
  BY <1>1, <1>2 DEF Unset

-------------------------------------------------------------------------------
(* What Store holds *)

Partial(keys, values) == UNION {[some -> values] : some \in SUBSET keys}

JobErrors == Causes \cup {Unset, "evaluation_failed"}

PodResult ==
  [ref : Versions \cup {NoVersion}, value : BOOLEAN, error : JobErrors, sources : SUBSET SourceKeys]

WorkloadResult ==
  [ref : Versions, value : BOOLEAN, status : BOOLEAN, error : JobErrors, statusError : JobErrors,
   sources : SUBSET SourceKeys, creationSources : SUBSET SourceKeys]

Stores ==
  [pods : Partial(Pods, PodResult), workload : SUBSET WorkloadResult, failures : SUBSET Causes,
   sources : Partial(SourceKeys, Healths)]

\* There is one workload at most.
OneResult(store) == \A r, s \in store.workload : r = s

StoreType == stored \in Stores /\ OneResult(stored)

\* A partial function is what its name says.
LEMMA PartialType ==
  ASSUME NEW keys, NEW values, NEW f
  PROVE  f \in Partial(keys, values) <=>
           f \in [DOMAIN f -> values] /\ DOMAIN f \subseteq keys
BY DEF Partial

\* Upsert and Set on Store's maps.
LEMMA PutType ==
  ASSUME NEW keys, NEW values, NEW f \in Partial(keys, values), NEW k \in keys, NEW v \in values
  PROVE  Put(f, k, v) \in Partial(keys, values)
<1>1. f \in [DOMAIN f -> values] /\ DOMAIN f \subseteq keys
  BY PartialType
<1>2. Put(f, k, v) \in [DOMAIN f \cup {k} -> values]
  BY <1>1 DEF Put
<1> QED
  BY <1>1, <1>2, PartialType

\* Remove on Store's maps.
LEMMA WithoutType ==
  ASSUME NEW keys, NEW values, NEW f \in Partial(keys, values), NEW k
  PROVE  Without(f, k) \in Partial(keys, values)
<1>1. f \in [DOMAIN f -> values] /\ DOMAIN f \subseteq keys
  BY PartialType
<1>2. Without(f, k) \in [DOMAIN f \ {k} -> values]
  BY <1>1 DEF Without, Restrict
<1> QED
  BY <1>1, <1>2, PartialType

\* A result of Store is read back with its type.
LEMMA StoredPod ==
  ASSUME StoreType, NEW p \in DOMAIN stored.pods
  PROVE  stored.pods[p] \in PodResult
<1>1. stored.pods \in [DOMAIN stored.pods -> PodResult]
  BY PartialType DEF StoreType, Stores
<1> QED
  BY <1>1

\* UpsertPod and RemovePod keep the type.
LEMMA PodWriteType ==
  ASSUME StoreType, NEW p \in Pods, NEW result \in PodResult,
         UpsertPod(p, result) \/ RemovePod(p)
  PROVE  StoreType' /\ scrape' = scrape
<1>1. stored.pods \in Partial(Pods, PodResult)
  BY DEF StoreType, Stores
<1>2. CASE UpsertPod(p, result)
  BY <1>1, <1>2, PutType DEF UpsertPod, Write, StoreType, Stores, OneResult
<1>3. CASE RemovePod(p)
  BY <1>1, <1>3, WithoutType DEF RemovePod, Write, StoreType, Stores, OneResult
<1> QED
  BY <1>2, <1>3

\* UpsertWorkload keeps the type.
LEMMA WorkloadWriteType ==
  ASSUME StoreType, NEW result \in WorkloadResult, UpsertWorkload(result)
  PROVE  StoreType' /\ scrape' = scrape
BY DEF UpsertWorkload, Write, StoreType, Stores, OneResult

\* publishPod and publishPodFailure store a result, and leave the scrape alone.
LEMMA PodWriters ==
  ASSUME StoreType, NEW p \in Pods,
         \/ RemovePod(p)
         \/ \E cause \in Causes :
              \/ PublishPodFailure(p, PodKeys \cup {DefinitionKey}, cause, {})
              \/ \E v \in Versions : PublishPodFailure(p, SourceKeys, cause, {v})
         \/ \E v \in Versions, failure, removed \in BOOLEAN : PublishPod(p, v, failure, removed)
  PROVE  StoreType' /\ scrape' = scrape
<1>1. CASE RemovePod(p)
  <2>1. [ref |-> NoVersion, value |-> FALSE, error |-> Unset, sources |-> {}] \in PodResult
    BY DEF PodResult, JobErrors
  <2> QED
    BY <1>1, <2>1, PodWriteType
<1>2. ASSUME NEW cause \in Causes, NEW sources \in SUBSET SourceKeys, NEW roots \in SUBSET Versions,
             PublishPodFailure(p, sources, cause, roots)
      PROVE  StoreType' /\ scrape' = scrape
  <2> DEFINE blank == [ref |-> IF roots = {} THEN NoVersion ELSE OnlyOf(roots),
                       value |-> FALSE, error |-> cause, sources |-> sources]
             kept == IF stored.pods[p].value \/ roots = {} THEN stored.pods[p] ELSE blank
             result == IF p \notin DOMAIN stored.pods THEN blank
                       ELSE [kept EXCEPT !.error = cause,
                                         !.sources = stored.pods[p].sources \cup sources]
  <2>1. blank \in PodResult
    BY DEF PodResult, JobErrors, OnlyOf
  <2>2. result \in PodResult
    <3>1. CASE p \in DOMAIN stored.pods
      <4>1. stored.pods[p] \in PodResult
        BY <3>1, StoredPod
      <4>2. kept \in PodResult
        BY <2>1, <4>1
      <4>3. /\ stored.pods[p].sources \cup sources \in SUBSET SourceKeys
            /\ cause \in JobErrors
        BY <4>1 DEF PodResult, JobErrors
      <4> HIDE DEF kept
      <4> QED
        BY <3>1, <4>2, <4>3 DEF PodResult
    <3> QED
      BY <2>1, <3>1
  <2>3. UpsertPod(p, result)
    BY <1>2 DEF PublishPodFailure
  <2> QED
    BY <2>2, <2>3, PodWriteType
<1>3. ASSUME NEW v \in Versions, NEW failure \in BOOLEAN, NEW removed \in BOOLEAN,
             PublishPod(p, v, failure, removed)
      PROVE  StoreType' /\ scrape' = scrape
  <2> DEFINE fresh == [ref |-> v, value |-> TRUE, error |-> Unset, sources |-> SourceKeys]
             ref == IF p \in DOMAIN stored.pods /\ stored.pods[p].value /\ ~removed
                      THEN stored.pods[p].ref ELSE v
             result == IF ~failure THEN fresh
                       ELSE [fresh EXCEPT !.ref = ref, !.error = "evaluation_failed"]
  <2>1. ref \in Versions \cup {NoVersion}
    BY StoredPod DEF PodResult
  <2>2. fresh \in PodResult /\ "evaluation_failed" \in JobErrors
    BY DEF PodResult, JobErrors
  <2>3. UpsertPod(p, result)
    BY <1>3 DEF PublishPod
  <2> HIDE DEF ref
  <2>4. result \in PodResult
    BY <2>1, <2>2 DEF PodResult
  <2> QED
    BY <2>3, <2>4, PodWriteType
<1>4. /\ PodKeys \cup {DefinitionKey} \in SUBSET SourceKeys /\ SourceKeys \in SUBSET SourceKeys
      /\ {} \in SUBSET Versions /\ \A v \in Versions : {v} \in SUBSET Versions
  BY DEF SourceKeys, ObjectKeys
<1> QED
  BY <1>1, <1>2, <1>3, <1>4

\* publishWorkload and failWorkload do so for the workload.
LEMMA WorkloadWriters ==
  ASSUME StoreType, NEW v \in Versions,
         \/ \E cause \in Causes : FailWorkload(v, cause)
         \/ \E e \in Causes \cup {Unset}, evaluated, removed \in BOOLEAN :
              PublishWorkload(v, evaluated, e, removed)
  PROVE  StoreType' /\ scrape' = scrape
<1>1. stored.workload \in SUBSET WorkloadResult
  BY DEF StoreType, Stores
<1>2. RootKeys \subseteq SourceKeys /\ RootKeys \cup {DefinitionKey} \subseteq SourceKeys
  BY DEF SourceKeys, ObjectKeys
<1>3. ASSUME NEW cause \in Causes, FailWorkload(v, cause)
      PROVE  StoreType' /\ scrape' = scrape
  <2> DEFINE sources == RootKeys \cup {DefinitionKey}
             old == OnlyOf(stored.workload)
             result ==
               IF stored.workload = {}
                 THEN [ref |-> v, value |-> FALSE, status |-> FALSE, error |-> cause,
                       statusError |-> Unset, sources |-> sources, creationSources |-> sources]
                 ELSE [old EXCEPT !.error = cause, !.sources = @ \cup sources,
                                  !.creationSources = @ \cup sources]
  <2>1. UpsertWorkload(result)
    BY <1>3 DEF FailWorkload
  <2>2. cause \in JobErrors /\ Unset \in JobErrors
    BY DEF JobErrors
  <2>3. CASE stored.workload = {}
    <3>1. result \in WorkloadResult
      BY <1>2, <2>2, <2>3 DEF WorkloadResult
    <3> QED
      BY <2>1, <3>1, WorkloadWriteType
  <2>4. CASE stored.workload # {}
    <3>1. old \in WorkloadResult
      BY <1>1, <2>4 DEF OnlyOf
    <3> HIDE DEF old
    <3>2. result \in WorkloadResult
      BY <1>2, <2>2, <2>4, <3>1 DEF WorkloadResult
    <3> QED
      BY <2>1, <3>2, WorkloadWriteType
  <2> QED
    BY <2>3, <2>4
<1>4. ASSUME NEW e \in Causes \cup {Unset}, NEW evaluated \in BOOLEAN, NEW removed \in BOOLEAN,
             PublishWorkload(v, evaluated, e, removed)
      PROVE  StoreType' /\ scrape' = scrape
  <2> DEFINE kept == {r \in stored.workload : e # Unset /\ r.value /\ ~removed}
             ref == IF kept = {} THEN v ELSE OnlyOf(kept).ref
             status == IF kept = {} THEN evaluated ELSE OnlyOf(kept).status
             result == [ref |-> ref, status |-> status, value |-> TRUE, error |-> Unset,
                        statusError |-> e, sources |-> RootKeys \cup {DefinitionKey},
                        creationSources |-> RootKeys]
  <2>1. UpsertWorkload(result)
    BY <1>4 DEF PublishWorkload
  <2>2. kept \subseteq WorkloadResult
    BY <1>1
  <2> HIDE DEF kept
  <2>3. ref \in Versions /\ status \in BOOLEAN
    BY <2>2 DEF WorkloadResult, OnlyOf
  <2> HIDE DEF ref, status
  <2>4. e \in JobErrors /\ Unset \in JobErrors
    BY DEF JobErrors
  <2>5. result \in WorkloadResult
    BY <1>2, <2>3, <2>4 DEF WorkloadResult
  <2> QED
    BY <2>1, <2>5, WorkloadWriteType
<1> QED
  BY <1>3, <1>4

\* No writer takes Store out of its type or touches a scrape under way.
LEMMA WritersType ==
  ASSUME StoreType, Writers
  PROVE  StoreType' /\ scrape' = scrape
<1>1. stored.sources \in Partial(SourceKeys, Healths)
  BY DEF StoreType, Stores
<1>2. ASSUME NEW key \in SourceKeys, NEW health \in Healths, SetSourceHealth(key, health)
      PROVE  StoreType' /\ scrape' = scrape
  BY <1>1, <1>2, PutType DEF SetSourceHealth, Write, StoreType, Stores, OneResult
<1>3. ASSUME NEW key \in SourceKeys, RemoveSourceHealth(key)
      PROVE  StoreType' /\ scrape' = scrape
  BY <1>1, <1>3, WithoutType DEF RemoveSourceHealth, Write, StoreType, Stores, OneResult
<1>4. CASE RemoveWorkload
  BY <1>4 DEF RemoveWorkload, Write, StoreType, Stores, OneResult
<1>5. CASE RemoveDiscoveryFailure \/ \E cause \in Causes : SetDiscoveryFailure(cause)
  BY <1>5 DEF RemoveDiscoveryFailure, SetDiscoveryFailure, Write, StoreType, Stores, OneResult
<1> QED
  BY <1>2, <1>3, <1>4, <1>5, PodWriters, WorkloadWriters DEF Writers

-------------------------------------------------------------------------------
(* A scrape *)

SourceRows(view) ==
  {[metric |-> "source", of |-> k, reason |-> Valid(view, {k}, Unset)] : k \in DOMAIN view.sources}

PodRows(view, pods) ==
  {[metric |-> "pod", of |-> p, ref |-> view.pods[p].ref, valid |-> Sound(view, view.pods[p])] :
     p \in {q \in pods : view.pods[q].value}}

\* The Pods among these whose failure counts against the workload, and against
\* the discovery of owners.
Failing(view, pods) == {p \in pods : view.pods[p].ref # NoVersion /\ ~Sound(view, view.pods[p])}
Undiscovered(view, pods) == {p \in pods : view.pods[p].ref = NoVersion /\ ~Sound(view, view.pods[p])}

Seen == DOMAIN scrape.view.pods \ scrape.todo

\* What collect has made of the captured view so far depends on which Pods it
\* has seen, not on their order nor on Store.
ScrapeInv ==
  scrape.pc = "pods" =>
    /\ DOMAIN scrape = {"pc", "view", "todo", "failure", "discovery", "rows"}
    /\ scrape.view \in Stores /\ OneResult(scrape.view)
    /\ scrape.todo \subseteq DOMAIN scrape.view.pods
    /\ scrape.rows = SourceRows(scrape.view) \cup PodRows(scrape.view, Seen)
    /\ Failing(scrape.view, Seen) = {} => scrape.failure = NoFailure
    /\ Failing(scrape.view, Seen) # {} =>
         /\ scrape.failure.reason \notin {Unset, "none"}
         /\ \E p \in Failing(scrape.view, Seen) : scrape.failure.ref = scrape.view.pods[p].ref
         /\ \A p \in Failing(scrape.view, Seen) : scrape.failure.ref =< scrape.view.pods[p].ref
    /\ scrape.discovery # {} <=> scrape.view.failures # {} \/ Undiscovered(scrape.view, Seen) # {}

PublicationInv == StoreType /\ ScrapeInv /\ ScrapeIsExact

\* A result of the captured view has its type.
LEMMA ViewedPod ==
  ASSUME NEW view \in Stores, NEW p \in DOMAIN view.pods
  PROVE  view.pods[p] \in PodResult
<1>1. view.pods \in [DOMAIN view.pods -> PodResult]
  BY PartialType DEF Stores
<1> QED
  BY <1>1

\* A Pod's result is valid exactly when it is sound.
LEMMA PodValidIsSound ==
  ASSUME NEW view \in Stores, NEW p \in DOMAIN view.pods
  PROVE  LET r == view.pods[p] IN
         /\ Valid(view, r.sources, r.error) = "none" <=> Sound(view, r)
         /\ Valid(view, r.sources, r.error) # Unset
<1>1. view.pods[p].error # "none"
  BY ViewedPod DEF PodResult, JobErrors, Unset
<1> QED
  BY <1>1, ValidIsSound DEF Sound

\* Capture starts a scrape that has seen no Pod.
LEMMA CaptureKeeps ==
  ASSUME StoreType, Capture
  PROVE  ScrapeInv' /\ scrape'.pc = "pods"
<1>1. /\ scrape'.pc = "pods" /\ scrape'.view = stored /\ scrape'.todo = DOMAIN stored.pods
      /\ scrape'.failure = NoFailure
      /\ scrape'.discovery = {FailureReason({f}) : f \in stored.failures}
      /\ scrape'.rows = SourceRows(stored)
      /\ DOMAIN scrape' = {"pc", "view", "todo", "failure", "discovery", "rows"}
  BY DEF Capture, SourceRows
<1>2. Seen' = {}
  BY <1>1 DEF Seen
<1>3. /\ PodRows(stored, {}) = {} /\ Failing(stored, {}) = {} /\ Undiscovered(stored, {}) = {}
  BY DEF PodRows, Failing, Undiscovered
<1>4. scrape'.discovery # {} <=> stored.failures # {}
  <2>1. stored.failures = {} => {FailureReason({f}) : f \in stored.failures} = {}
    OBVIOUS
  <2>2. \A f \in stored.failures : FailureReason({f}) \in {FailureReason({g}) : g \in stored.failures}
    OBVIOUS
  <2> QED
    BY <1>1, <2>1, <2>2
<1>5. /\ (PodRows(scrape.view, Seen))' = {} /\ (Failing(scrape.view, Seen))' = {}
      /\ (Undiscovered(scrape.view, Seen))' = {} /\ (SourceRows(scrape.view))' = SourceRows(stored)
  BY <1>1, <1>2, <1>3
<1> QED
  BY <1>1, <1>4, <1>5 DEF ScrapeInv, StoreType

\* One more Pod: what the scrape holds becomes what it holds for that Pod too.
LEMMA ObservePodKeeps ==
  ASSUME ScrapeInv, NEW p, ObservePod(p)
  PROVE  ScrapeInv' /\ scrape'.pc = "pods"
<1> DEFINE view == scrape.view
           result == view.pods[p]
           reason == Valid(view, result.sources, result.error)
<1>1. /\ scrape.pc = "pods" /\ p \in scrape.todo
      /\ DOMAIN scrape = {"pc", "view", "todo", "failure", "discovery", "rows"}
      /\ view \in Stores /\ OneResult(view)
      /\ scrape.todo \subseteq DOMAIN view.pods
  BY DEF ObservePod, ScrapeInv
<1>2. /\ scrape'.pc = "pods" /\ scrape'.view = view /\ scrape'.todo = scrape.todo \ {p}
      /\ DOMAIN scrape' = DOMAIN scrape
      /\ scrape'.discovery = IF reason # "none" /\ result.ref = NoVersion
                               THEN scrape.discovery \cup {FailureReason({reason})}
                               ELSE scrape.discovery
      /\ scrape'.failure = IF reason # "none" /\ result.ref # NoVersion
                             THEN [ref |-> SmallestRef(scrape.failure.ref, result.ref),
                                   reason |-> FailureReason({scrape.failure.reason, reason})]
                             ELSE scrape.failure
      /\ scrape'.rows = IF result.value
                          THEN scrape.rows \cup {[metric |-> "pod", of |-> p, ref |-> result.ref,
                                                  valid |-> reason = "none"]}
                          ELSE scrape.rows
  BY <1>1 DEF ObservePod
<1>3. result \in PodResult
  BY <1>1, ViewedPod
<1>4. /\ reason = "none" <=> Sound(view, result)
      /\ reason # Unset
  BY <1>1, PodValidIsSound
<1>5. Seen' = Seen \cup {p} /\ Seen \subseteq DOMAIN view.pods
  BY <1>1, <1>2 DEF Seen
<1>6. (SourceRows(scrape.view))' = SourceRows(view)
  BY <1>2 DEF SourceRows
<1>7. (PodRows(scrape.view, Seen))' = PodRows(view, Seen \cup {p})
  BY <1>2, <1>5 DEF PodRows
<1>8. (Failing(scrape.view, Seen))' = Failing(view, Seen \cup {p})
  BY <1>2, <1>5 DEF Failing
<1>9. (Undiscovered(scrape.view, Seen))' = Undiscovered(view, Seen \cup {p})
  BY <1>2, <1>5 DEF Undiscovered
<1> HIDE DEF reason
<1>10. scrape'.rows = SourceRows(view) \cup PodRows(view, Seen \cup {p})
  <2> DEFINE row == [metric |-> "pod", of |-> p, ref |-> result.ref, valid |-> Sound(view, result)]
  <2>1. PodRows(view, Seen \cup {p}) =
          PodRows(view, Seen) \cup (IF result.value THEN {row} ELSE {})
    BY DEF PodRows
  <2>2. scrape.rows = SourceRows(view) \cup PodRows(view, Seen)
    BY <1>1 DEF ScrapeInv
  <2>3. (reason = "none") = Sound(view, result)
    BY <1>4 DEF Sound, Healthy
  <2>4. result.value => scrape'.rows = scrape.rows \cup {row}
    BY <1>2, <2>3
  <2>5. ~result.value => scrape'.rows = scrape.rows
    BY <1>2
  <2> HIDE DEF row
  <2> QED
    BY <2>1, <2>2, <2>4, <2>5
<1>11. scrape'.discovery # {} <=> view.failures # {} \/ Undiscovered(view, Seen \cup {p}) # {}
  <2>1. scrape.discovery # {} <=> view.failures # {} \/ Undiscovered(view, Seen) # {}
    BY <1>1 DEF ScrapeInv
  <2>2. Undiscovered(view, Seen \cup {p}) =
          Undiscovered(view, Seen) \cup
            (IF result.ref = NoVersion /\ ~Sound(view, result) THEN {p} ELSE {})
    BY DEF Undiscovered
  <2> QED
    BY <1>2, <1>4, <2>1, <2>2
<1>12. Failing(view, Seen \cup {p}) =
         Failing(view, Seen) \cup
           (IF result.ref # NoVersion /\ ~Sound(view, result) THEN {p} ELSE {})
  BY DEF Failing
<1>13. CASE result.ref # NoVersion /\ ~Sound(view, result)
  <2>1. /\ scrape'.failure.ref = SmallestRef(scrape.failure.ref, result.ref)
        /\ scrape'.failure.reason = FailureReason({scrape.failure.reason, reason})
    BY <1>2, <1>4, <1>13
  <2>2. scrape'.failure.reason \notin {Unset, "none"}
    BY <1>4, <1>13, <2>1, ReasonOfNothing
  <2>3. \A q \in DOMAIN view.pods : view.pods[q].ref \in Nat
    <3>1. \A q \in DOMAIN view.pods : view.pods[q].ref \in Versions \cup {NoVersion}
      BY <1>1, ViewedPod DEF PodResult
    <3>2. Versions \cup {NoVersion} \subseteq Nat
      BY DEF NoVersion
    <3> QED
      BY <3>1, <3>2
  <2>4. Failing(view, Seen) \subseteq DOMAIN view.pods /\ p \in DOMAIN view.pods
    BY <1>1, <1>5 DEF Failing
  <2>5. CASE Failing(view, Seen) = {}
    <3>1. scrape.failure.ref = NoVersion
      BY <1>1, <2>5 DEF ScrapeInv, NoFailure
    <3>2. scrape'.failure.ref = result.ref
      BY <2>1, <3>1 DEF SmallestRef
    <3>3. Failing(view, Seen \cup {p}) = {p}
      BY <1>12, <1>13, <2>5
    <3>4. result.ref =< result.ref
      BY <2>3, <2>4
    <3> QED
      BY <1>1, <1>2, <1>5, <1>6, <1>7, <1>8, <1>9, <1>10, <1>11, <2>2, <3>2, <3>3, <3>4 DEF ScrapeInv
  <2>6. CASE Failing(view, Seen) # {}
    <3>1. PICK q \in Failing(view, Seen) : scrape.failure.ref = view.pods[q].ref
      BY <1>1, <2>6 DEF ScrapeInv
    <3>2. \A s \in Failing(view, Seen) : scrape.failure.ref =< view.pods[s].ref
      BY <1>1, <2>6 DEF ScrapeInv
    <3>3. scrape.failure.ref \in Nat /\ scrape.failure.ref # NoVersion /\ result.ref \in Nat
      BY <2>3, <2>4, <3>1 DEF Failing
    <3>4. scrape'.failure.ref = IF result.ref < scrape.failure.ref THEN result.ref ELSE scrape.failure.ref
      BY <2>1, <3>3 DEF SmallestRef
    <3>5. Failing(view, Seen \cup {p}) = Failing(view, Seen) \cup {p}
      BY <1>12, <1>13
    <3>6. \E s \in Failing(view, Seen) \cup {p} : scrape'.failure.ref = view.pods[s].ref
      BY <3>1, <3>4
    <3>7. \A s \in Failing(view, Seen) \cup {p} : scrape'.failure.ref =< view.pods[s].ref
      <4> TAKE s \in Failing(view, Seen) \cup {p}
      <4>1. view.pods[s].ref \in Nat
        BY <2>3, <2>4
      <4>2. s # p => scrape.failure.ref =< view.pods[s].ref
        BY <3>2
      <4> HIDE DEF view
      <4> QED
        BY <3>3, <3>4, <4>1, <4>2
    <3> QED
      BY <1>1, <1>2, <1>5, <1>6, <1>7, <1>8, <1>9, <1>10, <1>11, <2>2, <3>5, <3>6, <3>7 DEF ScrapeInv
  <2> QED
    BY <2>5, <2>6
<1>14. CASE ~(result.ref # NoVersion /\ ~Sound(view, result))
  <2>1. scrape'.failure = scrape.failure
    BY <1>2, <1>4, <1>14
  <2>2. Failing(view, Seen \cup {p}) = Failing(view, Seen)
    BY <1>12, <1>14
  <2>3. /\ Failing(view, Seen) = {} => scrape.failure = NoFailure
        /\ Failing(view, Seen) # {} =>
             /\ scrape.failure.reason \notin {Unset, "none"}
             /\ \E q \in Failing(view, Seen) : scrape.failure.ref = view.pods[q].ref
             /\ \A q \in Failing(view, Seen) : scrape.failure.ref =< view.pods[q].ref
    BY <1>1 DEF ScrapeInv
  <2> QED
    BY <1>1, <1>2, <1>5, <1>6, <1>7, <1>8, <1>9, <1>10, <1>11, <2>1, <2>2, <2>3 DEF ScrapeInv
<1> QED
  BY <1>13, <1>14

\* The rows of collect's last step, one set per metric.
FailureRows(reason, ref) ==
  IF reason = Unset THEN {} ELSE {[metric |-> "workload", ref |-> ref, reason |-> reason]}

DiscoveryRows(discovery) == {[metric |-> "discovery", reason |-> d] : d \in discovery}

\* The last step: the workload's own result, then the failures.
LEMMA ObserveWorkloadIsExact ==
  ASSUME ScrapeInv, ObserveWorkload
  PROVE  ScrapeIsExact' /\ scrape'.pc = "done"
<1> DEFINE view == scrape.view
           pods == DOMAIN view.pods
           created(r) == Valid(view, r.creationSources, r.error)
           status(r) == Valid(view, r.sources, FailureReason({r.error, r.statusError}))
           reason == FailureReason({scrape.failure.reason}
                       \cup (UNION {Range(<<created(r), status(r)>>) : r \in view.workload}))
           ref == IF view.workload = {} THEN scrape.failure.ref ELSE OnlyOf(view.workload).ref
           own == UNION {WorkloadRows(r, created(r), status(r)) : r \in view.workload}
           rows == SourceRows(view) \cup PodRows(view, pods) \cup own
                     \cup FailureRows(reason, ref) \cup DiscoveryRows(scrape.discovery)
<1>1. /\ scrape.pc = "pods" /\ scrape.todo = {}
      /\ view \in Stores /\ OneResult(view)
      /\ scrape.rows = SourceRows(view) \cup PodRows(view, Seen)
      /\ Seen = pods
  BY DEF ObserveWorkload, ScrapeInv, Seen
<1>2. scrape'.pc = "done" /\ scrape'.view = view /\ scrape'.rows = rows
  BY <1>1 DEF ObserveWorkload, FailureRows, DiscoveryRows
<1>3. \A r \in view.workload : r.error # "none" /\ r.statusError # "none"
  BY <1>1 DEF Stores, WorkloadResult, JobErrors, Unset
<1>4. \A r \in view.workload :
        /\ created(r) = "none" <=> r.error = Unset /\ Healthy(view, r.creationSources)
        /\ created(r) # Unset
  BY <1>3, ValidIsSound
<1>5. \A r \in view.workload :
        /\ status(r) = "none" <=> Sound(view, r) /\ r.statusError = Unset
        /\ status(r) # Unset
  <2> TAKE r \in view.workload
  <2>1. /\ FailureReason({r.error, r.statusError}) # "none"
        /\ FailureReason({r.error, r.statusError}) = Unset <=> r.error = Unset /\ r.statusError = Unset
    BY <1>3, ReasonOfNothing
  <2> QED
    BY <2>1, ValidIsSound DEF Sound
<1> HIDE DEF created, status
<1>6. reason = Unset <=>
        /\ scrape.failure.reason \in {Unset, "none"}
        /\ \A r \in view.workload : created(r) = "none" /\ status(r) = "none"
  <2>1. \A r : Range(<<created(r), status(r)>>) = {created(r), status(r)}
    BY DEF Range
  <2> DEFINE all == {scrape.failure.reason}
                      \cup (UNION {Range(<<created(r), status(r)>>) : r \in view.workload})
  <2>2. all \subseteq {Unset, "none"} <=>
          /\ scrape.failure.reason \in {Unset, "none"}
          /\ \A r \in view.workload : created(r) \in {Unset, "none"} /\ status(r) \in {Unset, "none"}
    <3>1. \A r \in view.workload : created(r) \in all /\ status(r) \in all
      <4> TAKE r \in view.workload
      <4>1. {created(r), status(r)} \in {Range(<<created(x), status(x)>>) : x \in view.workload}
        BY <2>1, Zenon
      <4> QED
        BY <4>1, Zenon
    <3>2. \A x \in all : \/ x = scrape.failure.reason
                       \/ \E r \in view.workload : x = created(r) \/ x = status(r)
      <4> SUFFICES ASSUME NEW x \in all, x # scrape.failure.reason
                   PROVE  \E r \in view.workload : x = created(r) \/ x = status(r)
        OBVIOUS
      <4>1. PICK r \in view.workload : x \in Range(<<created(r), status(r)>>)
        BY Zenon
      <4> QED
        BY <2>1, <4>1
    <3>3. scrape.failure.reason \in all
      OBVIOUS
    <3> HIDE DEF all
    <3> QED
      BY <3>1, <3>2, <3>3
  <2>3. reason = Unset <=> all \subseteq {Unset, "none"}
    BY ReasonOfNothing
  <2> QED
    BY <1>4, <1>5, <2>2, <2>3
<1>7. /\ scrape.failure.reason \in {Unset, "none"} <=> Failing(view, pods) = {}
      /\ scrape.discovery # {} <=> view.failures # {} \/ Undiscovered(view, pods) # {}
  BY <1>1 DEF ScrapeInv, NoFailure
<1>8. Failing(view, pods) # {} => scrape.failure.ref = Min({view.pods[p].ref : p \in Failing(view, pods)})
  <2> SUFFICES ASSUME Failing(view, pods) # {}
               PROVE  scrape.failure.ref = Min({view.pods[p].ref : p \in Failing(view, pods)})
    OBVIOUS
  <2> DEFINE refs == {view.pods[p].ref : p \in Failing(view, pods)}
  <2>1. scrape.failure.ref \in refs /\ \A x \in refs : scrape.failure.ref =< x
    BY <1>1 DEF ScrapeInv
  <2>2. refs \subseteq Nat
    <3>1. \A q \in pods : view.pods[q].ref \in Versions \cup {NoVersion}
      BY <1>1, ViewedPod DEF PodResult
    <3>2. Versions \cup {NoVersion} \subseteq Nat
      BY DEF NoVersion
    <3> QED
      BY <3>1, <3>2 DEF Failing
  <2> HIDE DEF refs
  <2>3. Min(refs) \in refs /\ \A x \in refs : Min(refs) =< x
    BY <2>1 DEF Min
  <2>4. scrape.failure.ref = Min(refs)
    <3>1. /\ scrape.failure.ref \in Nat /\ Min(refs) \in Nat
          /\ scrape.failure.ref =< Min(refs) /\ Min(refs) =< scrape.failure.ref
      BY <2>1, <2>2, <2>3
    <3> QED
      BY <3>1
  <2> QED
    BY <2>4 DEF refs
<1>9. /\ \A row \in SourceRows(view) : row.metric = "source"
      /\ \A row \in PodRows(view, pods) : row.metric = "pod"
      /\ \A row \in own : row.metric \in {"created", "status"}
      /\ \A row \in FailureRows(reason, ref) : row.metric = "workload"
      /\ \A row \in DiscoveryRows(scrape.discovery) : row.metric = "discovery"
  <2>1. \A row \in own : row.metric \in {"created", "status"}
    BY DEF WorkloadRows
  <2> HIDE DEF own, reason, ref
  <2>2. \A row \in SourceRows(view) : row.metric = "source"
    <3> SUFFICES ASSUME NEW row \in SourceRows(view) PROVE row.metric = "source"
      OBVIOUS
    <3>1. PICK k \in DOMAIN view.sources :
            row = [metric |-> "source", of |-> k, reason |-> Valid(view, {k}, Unset)]
      BY Zenon DEF SourceRows
    <3> QED
      BY <3>1
  <2>3. \A row \in PodRows(view, pods) : row.metric = "pod"
    BY DEF PodRows
  <2>4. \A row \in FailureRows(reason, ref) : row.metric = "workload"
    BY DEF FailureRows
  <2>5. \A row \in DiscoveryRows(scrape.discovery) : row.metric = "discovery"
    BY DEF DiscoveryRows
  <2> QED
    BY <2>1, <2>2, <2>3, <2>4, <2>5
<1>10. (\E row \in own : row.metric = "created")
         <=> \E r \in view.workload : r.value /\ created(r) = "none"
  <2> DEFINE row(r) == [metric |-> "created", ref |-> NoVersion, valid |-> created(r) = "none"]
  <2>1. \A r : row(r) \in WorkloadRows(r, created(r), status(r)) <=> r.value /\ created(r) = "none"
    BY DEF WorkloadRows
  <2>2. \A r : \A x \in WorkloadRows(r, created(r), status(r)) : x.metric = "created" => x = row(r)
    BY DEF WorkloadRows
  <2>3. \A r : row(r).metric = "created"
    OBVIOUS
  <2> HIDE DEF row
  <2> QED
    BY <2>1, <2>2, <2>3
<1>11. /\ (\E row \in own : row.metric = "status")
            <=> \E r \in view.workload : r.value /\ r.status
       /\ \A row \in own : row.metric = "status" =>
            \E r \in view.workload : row.valid = (status(r) = "none")
  <2> DEFINE row(r) == [metric |-> "status", ref |-> r.ref, valid |-> status(r) = "none"]
  <2>1. \A r : row(r) \in WorkloadRows(r, created(r), status(r)) <=> r.value /\ r.status
    BY DEF WorkloadRows
  <2>2. \A r : \A x \in WorkloadRows(r, created(r), status(r)) : x.metric = "status" => x = row(r)
    BY DEF WorkloadRows
  <2>3. \A r : row(r).metric = "status" /\ row(r).valid = (status(r) = "none")
    OBVIOUS
  <2> HIDE DEF row
  <2> QED
    BY <2>1, <2>2, <2>3
<1> HIDE DEF own, reason, ref
<1> DEFINE Of(metric) == {row \in rows : row.metric = metric}
<1>12. Of("pod") = PodRows(view, pods)
  BY <1>9
<1>13. Of("workload") = FailureRows(reason, ref)
  BY <1>9
<1>14. Of("discovery") = DiscoveryRows(scrape.discovery)
  BY <1>9
<1>15. /\ Of("created") # {} <=> \E row \in own : row.metric = "created"
       /\ Of("status") = {row \in own : row.metric = "status"}
  BY <1>9
<1> HIDE DEF rows
<1>16. DiscoveryRows(scrape.discovery) # {} <=> scrape.discovery # {}
  BY DEF DiscoveryRows
<1>17. Of("discovery") # {} <=> \/ view.failures # {}
                                \/ \E p \in pods : view.pods[p].ref = NoVersion /\ ~Sound(view, view.pods[p])
  BY <1>7, <1>14, <1>16 DEF Undiscovered
<1> DEFINE ill == \E r \in view.workload :
                    r.statusError # Unset \/ ~Sound(view, r) \/ ~Healthy(view, r.creationSources)
<1>18. reason # Unset <=> Failing(view, pods) # {} \/ ill
  BY <1>4, <1>5, <1>6, <1>7 DEF Sound
<1>19. Cardinality(Of("workload")) = IF Failing(view, pods) # {} \/ ill THEN 1 ELSE 0
  BY <1>13, <1>18, FS_EmptySet, FS_Singleton DEF FailureRows
<1>20. \A row \in Of("workload") :
         row.ref = IF view.workload # {} THEN OnlyOf(view.workload).ref
                   ELSE Min({view.pods[p].ref : p \in Failing(view, pods)})
  <2> TAKE row \in Of("workload")
  <2>1. row.ref = ref /\ reason # Unset
    BY <1>13 DEF FailureRows
  <2>2. view.workload = {} => Failing(view, pods) # {}
    BY <1>18, <2>1
  <2> QED
    BY <1>8, <2>1, <2>2 DEF ref
<1>21. Of("created") # {} <=>
         \E r \in view.workload : r.value /\ r.error = Unset /\ Healthy(view, r.creationSources)
  BY <1>4, <1>10, <1>15
<1>22. Of("status") # {} <=> \E r \in view.workload : r.value /\ r.status
  BY <1>11, <1>15
<1>23. \A row \in Of("status") :
         row.valid <=> \E r \in view.workload : Sound(view, r) /\ r.statusError = Unset
  <2> TAKE row \in Of("status")
  <2>1. PICK r \in view.workload : row.valid = (status(r) = "none")
    BY <1>11, <1>15
  <2>2. \A q \in view.workload : q = r
    BY <1>1 DEF OneResult
  <2> QED
    BY <1>5, <2>1, <2>2
<1>24. Exact(view, rows)
  <2> HIDE DEF view
  <2> QED
    BY <1>12, <1>17, <1>19, <1>20, <1>21, <1>22, <1>23 DEF Exact, Failing, PodRows
<1> QED
  BY <1>2, <1>24 DEF ScrapeIsExact

-------------------------------------------------------------------------------

\* The Store of controller.New and no scrape.
LEMMA InitPublicationInv == ApplicationInit => PublicationInv
<1> SUFFICES ASSUME ApplicationInit PROVE PublicationInv
  OBVIOUS
<1>1. stored = NewStore /\ scrape.pc = "none"
  BY DEF ApplicationInit, PublicationInit, NoScrape
<1>2. Empty \in Partial(Pods, PodResult)
  <2>1. Empty \in [{} -> PodResult] /\ DOMAIN Empty = {}
    BY DEF Empty
  <2> QED
    BY <2>1, PartialType
<1>3. [k \in {DefinitionKey} |-> "unsynced"] \in Partial(SourceKeys, Healths)
  <2>1. [k \in {DefinitionKey} |-> "unsynced"] \in [{DefinitionKey} -> Healths]
    BY DEF Healths
  <2>2. {DefinitionKey} \subseteq SourceKeys
    BY DEF SourceKeys
  <2> QED
    BY <2>1, <2>2, PartialType
<1>4. StoreType
  BY <1>1, <1>2, <1>3 DEF StoreType, Stores, OneResult, NewStore
<1> QED
  BY <1>1, <1>4 DEF PublicationInv, ScrapeInv, ScrapeIsExact

\* A step that leaves the scrape alone.
LEMMA SameScrape ==
  ASSUME ScrapeInv, ScrapeIsExact, scrape' = scrape
  PROVE  ScrapeInv' /\ ScrapeIsExact'
<1>1. ScrapeInv'
  BY DEF ScrapeInv, Seen
<1> QED
  BY <1>1 DEF ScrapeIsExact

\* Only a request, the collector and Store's writers touch a scrape or Store.
LEMMA NextPublicationInv == PublicationInv /\ [Next]_vars => PublicationInv'
<1> SUFFICES ASSUME PublicationInv, [Next]_vars PROVE PublicationInv'
  OBVIOUS
<1> USE DEF PublicationInv
<1>1. CASE UNCHANGED publicationVars
  <2>1. StoreType'
    BY <1>1 DEF publicationVars, StoreType, OneResult
  <2> QED
    BY <1>1, <2>1, SameScrape DEF publicationVars
<1>2. CASE Publish
  BY <1>2, WritersType, SameScrape DEF Publish
<1>3. ASSUME stored' = stored
      PROVE  StoreType'
  BY <1>3 DEF StoreType, OneResult
<1>4. CASE Accept
  BY <1>3, <1>4 DEF Accept, ScrapeInv, ScrapeIsExact
<1>5. CASE Gather
  <2>1. CASE Capture
    BY <1>3, <2>1, CaptureKeeps DEF Capture, ScrapeIsExact
  <2>2. CASE scrape' = NoScrape /\ UNCHANGED stored
    BY <1>3, <2>2 DEF NoScrape, ScrapeInv, ScrapeIsExact
  <2> QED
    BY <1>5, <2>1, <2>2 DEF Gather
<1>6. ASSUME NEW p \in Pods, ObservePod(p)
      PROVE  PublicationInv'
  BY <1>3, <1>6, ObservePodKeeps DEF ObservePod, ScrapeIsExact
<1>7. CASE ObserveWorkload
  BY <1>3, <1>7, ObserveWorkloadIsExact DEF ObserveWorkload, ScrapeInv
<1>8. ASSUME NEW c \in Callers, Start(c) \/ ServeStep(c)
      PROVE  UNCHANGED publicationVars
  BY <1>8 DEF Start, ServeStep, ServeListener, StopServing, Shutdown, Join, Unregister,
              ShutdownProvider
<1>9. ASSUME ControllerStep \/ InventoryStep \/ RuntimeStep \/ WorkerStep \/ ServerReturns
      PROVE  UNCHANGED publicationVars
  BY <1>9 DEF ControllerStep, WaitLoaded, RuntimeReturned, JoinInventory, InventoryStep,
              InventoryReturns, SendInventory, CancelAfterInventory, RuntimeStep, StopRuntime,
              WaitWorkers, WorkerStep, ServerReturns
<1>10. ASSUME NEW c \in Callers, NEW cause \in {"listen", "register"}, SetUpFails(c, cause)
       PROVE  UNCHANGED publicationVars
  BY <1>10 DEF SetUpFails
<1>11. ASSUME Load \/ InventoryStops \/ RuntimeStops \/ Signal
       PROVE  UNCHANGED publicationVars
  BY <1>11 DEF Load, InventoryStops, RuntimeStops, Signal
<1> QED
  BY <1>1, <1>2, <1>4, <1>5, <1>6, <1>7, <1>8, <1>9, <1>10, <1>11
     DEF Next, External, Collect, Collecting, vars

\* A finished scrape shows exactly one moment of Store: every value with the
\* validity it had then, and the workload's failure once and under one version.
THEOREM PublicationScrapeIsExact == ApplicationSpec => []ScrapeIsExact
<1>1. PublicationInv => ScrapeIsExact
  BY DEF PublicationInv
<1> QED
  BY <1>1, InitPublicationInv, NextPublicationInv, PTL DEF ApplicationSpec
===============================================================================
