----------------------------- MODULE KartaStatus -----------------------------
(***************************************************************************)
(* The status of a workload as karta/sdk/pkg/resource/accessor.go derives  *)
(* it: phase and conditions are extracted as the definition says and every *)
(* status with a matcher that holds is reported.                           *)
(*                                                                         *)
(* An observed object is [phase, conds, facts]: the phase string or Null,  *)
(* condition type -> [status, reason] or Null, and the fields the jq       *)
(* expressions of the catalog read.  A status definition is                *)
(* [phase, conditions, reason, mappings]: what it extracts, and status ->  *)
(* set of matchers [phase, conds, expr].  Expressions are named; Holds is  *)
(* the value the jq program has.                                           *)
(***************************************************************************)
EXTENDS KartaStructure

ByPhase(phase) == [phase |-> phase, conds |-> {}, expr |-> Null]
Expect(type, status) == [type |-> type, status |-> status, reason |-> Null]
ExpectReason(type, status, reason) == [type |-> type, status |-> status, reason |-> reason]
ByConditions(conds) == [phase |-> Null, conds |-> conds, expr |-> Null]
ByExpression(expr) == [phase |-> Null, conds |-> {}, expr |-> expr]
Requiring(matcher, expr) == [matcher EXCEPT !.expr = expr]

IsCondition(obs, type, status) == obs.conds[type] # Null /\ obs.conds[type].status = status
ReasonOf(obs, type) == obs.conds[type].reason

\* The reasons of llmStartupReasons behave alike: one stands for all nine.
LLMStartupReasons == {"Progressing"}
LLMStopReason == "Stopped"

SuspendRequested(obs) == obs.facts.suspend = TRUE
NotSuspendedMode(obs) == obs.facts.operatingMode # "Suspended"
Generations(f) == f.observedGeneration = f.generation

\* Fault: a stale Suspended condition does not keep a Sandbox from Running.
SandboxRunningIgnoringCondition(obs) == NotSuspendedMode(obs)

\* (.spec.operatingMode // "Running") != "Suspended" and no Suspended=True
SandboxRunning(obs) == NotSuspendedMode(obs) /\ ~IsCondition(obs, "Suspended", "True")

\* Ready=Unknown unless the preset merge failed.
LLMConverging(obs) ==
  IsCondition(obs, "Ready", "Unknown") /\ ~IsCondition(obs, "PresetsCombined", "False")

StatefulSetRunning(f) ==
  /\ Generations(f) /\ f.currentRevision = f.updateRevision
  /\ {f.replicas, f.readyReplicas, f.updatedReplicas} = {f.desired}
StatefulSetDegraded(f) ==
  /\ f.readyReplicas > 0 /\ f.readyReplicas < f.desired /\ f.updatedReplicas = f.desired
  /\ f.currentRevision = f.updateRevision /\ Generations(f)
StatefulSetDraining(f) == Generations(f) /\ f.replicas > f.desired
StatefulSetRolling(f) ==
  /\ f.desired > 0
  /\ \/ ~Generations(f) \/ f.readyReplicas = 0
     \/ f.updatedReplicas # f.desired \/ f.currentRevision # f.updateRevision

\* A JobSet reports per replicated job the active, ready and failed counts.
JobSetStarting(jobs) ==
  (\E j \in jobs : j.active > 0 /\ j.ready = 0) /\ \A j \in jobs : j.failed = 0
JobSetWorking(jobs) ==
  (\E j \in jobs : j.active > 0 \/ j.ready > 0) /\ \A j \in jobs : j.failed = 0

Holds(expr, obs) ==
  LET f == obs.facts
  IN  CASE expr = "job pods active, none ready" -> f.active > 0 /\ f.ready = 0
        [] expr = "job pods active and ready" -> f.active > 0 /\ f.ready > 0
        [] expr = "job below parallelism" ->
             f.parallelism > 1 /\ f.ready < f.parallelism /\ f.finished > 0
        [] expr = "never scheduled" -> ~SuspendRequested(obs) /\ ~f.scheduled
        [] expr = "has been scheduled" -> ~SuspendRequested(obs) /\ f.scheduled
        [] expr = "suspend requested" -> SuspendRequested(obs)
        [] expr = "statefulset at desired state" -> StatefulSetRunning(f)
        [] expr = "statefulset partly ready" -> StatefulSetDegraded(f)
        [] expr = "statefulset draining" -> StatefulSetDraining(f)
        [] expr = "statefulset rolling" -> StatefulSetRolling(f)
        [] expr = "jobset starting" -> JobSetStarting(f.jobs)
        [] expr = "jobset working" -> JobSetWorking(f.jobs)
        [] expr = "raycluster suspended" -> SuspendRequested(obs) /\ obs.phase \in {"suspended", Null}
        [] expr = "deployment initializing" -> f.jobDeploymentStatus = "Initializing"
        [] expr = "deployment suspended" -> f.jobDeploymentStatus = "Suspended"
        [] expr = "all groups ready and updated" ->
             f.replicas > 0 /\ f.readyReplicas = f.replicas /\ f.updatedReplicas = f.replicas
        [] expr = "replicas available" -> f.availableReplicas >= f.desired
        [] expr = "replicas missing" -> f.desired > 0 /\ f.availableReplicas < f.desired
        [] expr = "mode not suspended" -> NotSuspendedMode(obs)
        [] expr = "mode running, not suspended" -> SandboxRunning(obs)
        [] expr = "mode suspended, still running" ->
             ~NotSuspendedMode(obs) /\ ~IsCondition(obs, "Suspended", "True")
        [] expr = "mode suspended" -> ~NotSuspendedMode(obs)
        [] expr = "llm converging" -> LLMConverging(obs)
        [] expr = "llm starting" ->
             IsCondition(obs, "Ready", "False") /\ ReasonOf(obs, "Ready") \in LLMStartupReasons
        [] expr = "llm failed" ->
             /\ IsCondition(obs, "Ready", "False")
             /\ ReasonOf(obs, "Ready") \notin LLMStartupReasons \cup {LLMStopReason}
        [] expr = "llm presets failed" ->
             /\ IsCondition(obs, "Ready", "Unknown") /\ IsCondition(obs, "PresetsCombined", "False")
             /\ ReasonOf(obs, "PresetsCombined") # LLMStopReason

\* extractConditions: only what the definition names is read.
ExtractConditions(def, obs) ==
  IF ~def.conditions THEN [type \in {} |-> Null]
  ELSE [type \in {t \in DOMAIN obs.conds : obs.conds[t] # Null} |->
          [status |-> obs.conds[type].status,
           reason |-> IF def.reason THEN obs.conds[type].reason ELSE Null]]

ExtractPhase(def, obs) == IF def.phase THEN obs.phase ELSE Null

\* match with checkCondition and matchByExpression: every part a matcher gives
\* must hold.
Match(def, obs, matcher) ==
  LET conds == ExtractConditions(def, obs)
  IN  /\ matcher.phase # Null => ExtractPhase(def, obs) = matcher.phase
      /\ \A want \in matcher.conds :
           /\ want.type \in DOMAIN conds
           /\ want.status = Null \/ want.status = conds[want.type].status
           /\ want.reason = Null \/ want.reason = conds[want.type].reason
      /\ matcher.expr # Null => Holds(matcher.expr, obs)

\* matchStatus and evaluateMatchers; "Undefined" when no status matches.
MatchedStatuses(def, obs) ==
  LET matched == {s \in DOMAIN def.mappings : \E m \in def.mappings[s] : Match(def, obs, m)}
  IN  IF matched = {} THEN {"Undefined"} ELSE matched
=============================================================================
