----------------------------- MODULE Publication -----------------------------
(***************************************************************************)
(* Store and the OpenTelemetry collector                                   *)
(* (dsx-workload-exporter/pkg/store/store.go and                           *)
(* pkg/adapters/otel/collector.go): what the controller's writers leave in *)
(* Store (pkg/controller/state.go), and what a scrape makes of one         *)
(* captured view while they go on writing.                                 *)
(*                                                                         *)
(* One workload is discovered under one or two API versions.  A result     *)
(* keeps the version of its workload's reference (0 before the owner is    *)
(* known), whether it has a value, its error and its sources.           *)
(***************************************************************************)
EXTENDS Naturals, Sequences, FiniteSets, FiniteSetsExt, Functions

CONSTANTS
  Pods,          \* Pods that may have a result
  Versions,      \* API versions the workload is served under, as numbers
  PodKeys,       \* collections that hold the Pods
  RootKeys,      \* collections that hold the workload
  DefinitionKey, \* the collection of Kartas
  Causes,        \* errors a job may end with
  SourceErrors   \* errors of a collection

ObjectKeys == PodKeys \cup RootKeys      \* what the path from a Pod to its workload reads
SourceKeys == ObjectKeys \cup {DefinitionKey}

Unset == "unset"      \* "" in the code

\* A job that failed has a reason.
ASSUME PublicationAssumption ==
  /\ Versions \subseteq Nat \ {0}
  /\ DefinitionKey \notin ObjectKeys
  /\ Unset \notin Causes /\ "none" \notin Causes

VARIABLES
  stored,    \* Store: pods, workload, sources, failures
  scrape     \* one run of collect

NoVersion == 0
Empty == [k \in {} |-> Unset]

\* controller.New marks the Karta source as not synced yet.
NewStore ==
  [pods |-> Empty, workload |-> {}, failures |-> {},
   sources |-> [k \in {DefinitionKey} |-> "unsynced"]]

NoScrape == [pc |-> "none"]

PublicationInit == stored = NewStore /\ scrape = NoScrape

-------------------------------------------------------------------------------
(* Writers *)

Put(f, k, v) == [x \in DOMAIN f \cup {k} |-> IF x = k THEN v ELSE f[x]]

Without(f, k) == Restrict(f, DOMAIN f \ {k})

OnlyOf(set) == CHOOSE x \in set : TRUE

Write(next) == next # stored /\ stored' = next /\ UNCHANGED scrape

UpsertPod(p, result) == Write([stored EXCEPT !.pods = Put(@, p, result)])

RemovePod(p) == p \in DOMAIN stored.pods /\ Write([stored EXCEPT !.pods = Without(@, p)])

UpsertWorkload(result) == Write([stored EXCEPT !.workload = {result}])

RemoveWorkload == Write([stored EXCEPT !.workload = {}])

SetSourceHealth(key, health) == Write([stored EXCEPT !.sources = Put(@, key, health)])

\* A watch that is retired, or that its replacement takes over.
RemoveSourceHealth(key) ==
  /\ key \in ObjectKeys
  /\ Write([stored EXCEPT !.sources = Without(@, key)])

\* failSelectedObjectDiscovery, and the job that clears it.
SetDiscoveryFailure(cause) == Write([stored EXCEPT !.failures = {cause}])
RemoveDiscoveryFailure == Write([stored EXCEPT !.failures = {}])

\* publishPod: a label that cannot be rendered keeps the value of before, unless
\* the definition it came from is gone.
PublishPod(p, v, labelFailed, definitionRemoved) ==
  LET fresh == [ref |-> v, value |-> TRUE, error |-> Unset, sources |-> SourceKeys]
      kept  == p \in DOMAIN stored.pods /\ stored.pods[p].value /\ ~definitionRemoved
  IN  UpsertPod(p, IF ~labelFailed THEN fresh
                   ELSE [fresh EXCEPT !.ref = IF kept THEN stored.pods[p].ref ELSE v,
                                      !.error = "evaluation_failed"])

\* publishPodFailure, before (roots = {}) or after the root is known.
PublishPodFailure(p, sources, cause, roots) ==
  LET blank == [ref |-> IF roots = {} THEN NoVersion ELSE OnlyOf(roots),
                value |-> FALSE, error |-> cause, sources |-> sources]
  IN  UpsertPod(p,
        IF p \notin DOMAIN stored.pods THEN blank
        ELSE [(IF stored.pods[p].value \/ roots = {} THEN stored.pods[p] ELSE blank)
                EXCEPT !.error = cause, !.sources = stored.pods[p].sources \cup sources])

\* publishWorkload, at the end of reconcileWorkload: the creation time does not
\* depend on the Kartas, and a status that cannot be evaluated keeps the last one.
PublishWorkload(v, hasStatus, statusError, definitionRemoved) ==
  LET kept == {r \in stored.workload : statusError # Unset /\ r.value /\ ~definitionRemoved}
  IN  UpsertWorkload(
        [ref |-> IF kept = {} THEN v ELSE OnlyOf(kept).ref,
         status |-> IF kept = {} THEN hasStatus ELSE OnlyOf(kept).status,
         value |-> TRUE, error |-> Unset, statusError |-> statusError,
         sources |-> RootKeys \cup {DefinitionKey}, creationSources |-> RootKeys])

\* failWorkload.
FailWorkload(v, cause) ==
  LET sources == RootKeys \cup {DefinitionKey}
  IN  UpsertWorkload(
        IF stored.workload = {}
          THEN [ref |-> v, value |-> FALSE, status |-> FALSE, error |-> cause, statusError |-> Unset,
                sources |-> sources, creationSources |-> sources]
          ELSE [OnlyOf(stored.workload)
                  EXCEPT !.error = cause, !.sources = @ \cup sources,
                         !.creationSources = @ \cup sources])

Healths == {"unsynced", "healthy"} \cup SourceErrors

Writers ==
  \/ \E p \in Pods :
       \/ RemovePod(p)
       \/ \E cause \in Causes : \/ PublishPodFailure(p, PodKeys \cup {DefinitionKey}, cause, {})
                             \/ \E v \in Versions : PublishPodFailure(p, SourceKeys, cause, {v})
       \/ \E v \in Versions, failed, removed \in BOOLEAN : PublishPod(p, v, failed, removed)
  \/ \E v \in Versions :
       \/ \E cause \in Causes : FailWorkload(v, cause)
       \/ \E e \in Causes \cup {Unset}, evaluated, removed \in BOOLEAN :
            PublishWorkload(v, evaluated, e, removed)
  \/ RemoveWorkload
  \/ \E key \in SourceKeys, health \in Healths : SetSourceHealth(key, health)
  \/ \E key \in SourceKeys : RemoveSourceHealth(key)
  \/ \E cause \in Causes : SetDiscoveryFailure(cause)
  \/ RemoveDiscoveryFailure

-------------------------------------------------------------------------------
(* Valid and failureReason *)

Reasons == <<"permission_denied", "api_unavailable", "invalid_definition",
             "unresolved_owner", "evaluation_failed">>

\* An error that is not in the list ranks with api_unavailable.
Rank(reason) ==
  IF \E i \in DOMAIN Reasons : Reasons[i] = reason
    THEN CHOOSE i \in DOMAIN Reasons : Reasons[i] = reason ELSE 2

\* failureReason, over the set of what is passed.
FailureReason(reasons) ==
  LET ranks == {Rank(r) : r \in reasons \ {Unset, "none"}}
  IN  IF ranks = {} THEN Unset ELSE Reasons[Min(ranks)]

\* Valid: "none", or why the result may not be taken for current.
Valid(view, sources, error) ==
  IF error \notin {Unset, "none"} THEN error
  ELSE LET ill == {IF k \in DOMAIN view.sources THEN view.sources[k] ELSE "absent" :
                     k \in sources} \ {"healthy"}
       IN  IF ill = {} THEN "none"
           ELSE IF "permission_denied" \in ill THEN "permission_denied" ELSE "api_unavailable"

-------------------------------------------------------------------------------
(* collect *)

NoFailure == [ref |-> NoVersion, reason |-> Unset]

\* Capture, and what collect reports before it looks at the Pods.
Capture ==
  /\ scrape' = [pc |-> "pods", view |-> stored, todo |-> DOMAIN stored.pods,
                failure |-> NoFailure,
                discovery |-> {FailureReason({f}) : f \in stored.failures},
                rows |-> {[metric |-> "source", of |-> k,
                           reason |-> Valid(stored, {k}, Unset)] : k \in DOMAIN stored.sources}]
  /\ UNCHANGED stored

\* Fault: the first reference seen of a workload stays.
FirstRef(previous, ref) == IF previous = NoVersion THEN ref ELSE previous

\* Pods may know one workload under several versions: the smallest is kept.
SmallestRef(previous, ref) ==
  IF previous = NoVersion \/ ref < previous THEN ref ELSE previous

\* One Pod of the captured slice, whose order is not specified.
ObservePod(p) ==
  /\ scrape.pc = "pods" /\ p \in scrape.todo
  /\ LET result == scrape.view.pods[p]
         reason == Valid(scrape.view, result.sources, result.error)
     IN  scrape' = [scrape EXCEPT
           !.todo = @ \ {p},
           !.discovery = IF reason # "none" /\ result.ref = NoVersion
                           THEN @ \cup {FailureReason({reason})} ELSE @,
           !.failure = IF reason # "none" /\ result.ref # NoVersion
                         THEN [ref |-> SmallestRef(@.ref, result.ref),
                               reason |-> FailureReason({@.reason, reason})] ELSE @,
           !.rows = IF result.value
                      THEN @ \cup {[metric |-> "pod", of |-> p, ref |-> result.ref,
                                    valid |-> reason = "none"]} ELSE @]
  /\ UNCHANGED stored

WorkloadRows(result, created, status) ==
  {row \in {[metric |-> "created", ref |-> NoVersion, valid |-> created = "none"],
            [metric |-> "status", ref |-> result.ref, valid |-> status = "none"]} :
     result.value /\ IF row.metric = "created" THEN row.valid ELSE result.status}

\* The workload's own result, whose reference replaces that of its Pods, and
\* then the failures.
ObserveWorkload ==
  /\ scrape.pc = "pods" /\ scrape.todo = {}
  /\ LET view == scrape.view
         own(r) == <<Valid(view, r.creationSources, r.error),
                     Valid(view, r.sources, FailureReason({r.error, r.statusError}))>>
         reason == FailureReason({scrape.failure.reason}
                     \cup (UNION {Range(own(r)) : r \in view.workload}))
         ref == IF view.workload = {} THEN scrape.failure.ref
                ELSE OnlyOf(view.workload).ref
     IN  scrape' = [pc |-> "done", view |-> view, rows |->
           scrape.rows
             \cup (UNION {WorkloadRows(r, own(r)[1], own(r)[2]) : r \in view.workload})
             \cup (IF reason = Unset THEN {}
                   ELSE {[metric |-> "workload", ref |-> ref, reason |-> reason]})
             \cup {[metric |-> "discovery", reason |-> d] : d \in scrape.discovery}]
  /\ UNCHANGED stored

Collecting == (\E p \in Pods : ObservePod(p)) \/ ObserveWorkload

-------------------------------------------------------------------------------
(* Properties *)

\* Every collection the result was computed from is synced and without error.
Healthy(view, sources) ==
  \A k \in sources : k \in DOMAIN view.sources /\ view.sources[k] = "healthy"

Sound(view, r) == r.error = Unset /\ Healthy(view, r.sources)

\* What rows say is what view holds.
Exact(view, rows) ==
  LET of(metric) == {row \in rows : row.metric = metric}
      failing == {p \in DOMAIN view.pods : view.pods[p].ref # NoVersion /\ ~Sound(view, view.pods[p])}
      ill == \E r \in view.workload :
               r.statusError # Unset \/ ~Sound(view, r) \/ ~Healthy(view, r.creationSources)
  IN  /\ of("pod") = {[metric |-> "pod", of |-> p, ref |-> view.pods[p].ref,
                       valid |-> Sound(view, view.pods[p])] :
                        p \in {q \in DOMAIN view.pods : view.pods[q].value}}
      /\ of("created") # {} <=>
           \E r \in view.workload : r.value /\ r.error = Unset /\ Healthy(view, r.creationSources)
      /\ of("status") # {} <=> \E r \in view.workload : r.value /\ r.status
      /\ \A row \in of("status") :
           row.valid <=> \E r \in view.workload : Sound(view, r) /\ r.statusError = Unset
      /\ Cardinality(of("workload")) = IF failing # {} \/ ill THEN 1 ELSE 0
      /\ \A row \in of("workload") :
           row.ref = IF view.workload # {} THEN OnlyOf(view.workload).ref
                     ELSE Min({view.pods[p].ref : p \in failing})
      /\ of("discovery") # {} <=>
           \/ view.failures # {}
           \/ \E p \in DOMAIN view.pods : view.pods[p].ref = NoVersion /\ ~Sound(view, view.pods[p])

\* A finished scrape shows one moment of Store, whatever order the results came
\* in and whatever was written meanwhile: a value is marked valid exactly when
\* its job succeeded and all its sources were healthy in that moment, a creation
\* time does not wait for the Kartas, and the workload is reported as failing
\* exactly when it or a Pod attributed to it is not sound, once, under its own
\* version or else under the smallest its failing Pods know.
ScrapeIsExact == scrape.pc = "done" => Exact(scrape.view, scrape.rows)
===============================================================================
