# Verification of the workload map

TLA+ models, TLC runs and TLAPS proofs for `dsx-ai-factory/workload-map`. The
repository turns *Karta* definitions (a description of how a kind of workload is
built from components) into answers about running workloads. Its concurrent core
is the **workload exporter**, which keeps a mapping from Pods to workloads up to
date from Kubernetes watches and exports it. Around it are the **operator**, which
checks Kartas, the **SDK**, which reads and writes workload objects through a Karta
and brings a catalog of built-in ones, and the command line tool **kli**.

## 1. Inventory of the system

| Component | State | Operations | Interacts with |
| --- | --- | --- | --- |
| Definition inventory (`pkg/kartadefinitioninventory`) | `cluster` map, `synced`, `failure`, failure counters, one-element `changes` channel | reflector callbacks `list`, `startWatch`, `forward`, `Add`, `Delete`, `Replace`; reads `Lookup`, `List`; `Run` | API server; controller through `List` and `Changes` |
| Controller state (`pkg/controller/state.go`) | object cache, roots, Pod and selected-object membership, definitions and their version, all under `stateMu` | `registerPodRoot`, `publishPod`, `unregisterPod`, `publishWorkload`, `removeRoot`, ... | jobs, watches, Store |
| Watches (`sources.go`, `reader.go`) | `watches`, `replacements`, `watchFailures`, source health | `ensureWatch`, `Replace`, `applyWatchEvent`, `updateWatchHealth`, `syncWatches` | API server, queues |
| Runtime (`runtime.go`) | three work queues, worker goroutines | `Run`, `runWorker`, `refreshDefinitions`, `ready` | inventory, jobs |
| Pod jobs (`leaf.go`), workload jobs (`root.go`) | locals between reads and writes | `reconcilePod`, `reconcileWorkload`, `resolveSelectedObjectRoot` | discovery, state |
| Owner discovery (`pkg/discovery`) | none | `Get`, `ControllerOwner` | object cache |
| Store and collector (`pkg/store`, `pkg/adapters/otel`) | results, source health, failures | upserts, `Capture`, `Valid`, `collect` | controller, scrapes |
| Application (`pkg/app`, `pkg/bootstrap`) | started and running flags, goroutines | `Serve`, `RunController`, shutdown | all of the exporter |
| Labels, configuration | compiled expressions, parsed file | `Resolve`, `Evaluate` | jobs |
| Operator (`operator/pkg`) | Karta status and labels at the API server | `Reconcile`, `MapCRDToKartaEvent`, admission webhooks | API server |
| SDK (`karta/sdk/pkg`) | none of its own; the workload object belongs to its controller and its users | validation, structure summary, Pod inference, gang scheduling, accessors (read, update, suspend, resume, status), tree | exporter, operator, CLI |
| Catalog (`karta/sdk/pkg/catalog`) | the built-in definitions | lookup by GVK | exporter, CLI |
| CLI (`cli`) | definitions, REST mapper and owner caches of one run | `get`, `get --all-types`, `describe` | API server, SDK |
| wasm, Headlamp plugin, hack, charts | none that outlives a command | rendering, release | SDK |

What is hard about it:

* **Concurrency.** Reflector goroutines, a sources worker, Pod workers and
  workload workers share one mutex, but discovery and evaluation run outside it.
  Everything a job read may be stale when it writes.
* **Ordering and delivery.** Watches fail, resume, relist from lagging caches and
  are replaced by watches of another kind of object. Keys are coalesced.
* **Identity.** Objects are recreated under the same name, re-parented, and served
  in several versions with a cache of their own.
* **Failure.** The inventory fails and recovers, kinds are not installed yet,
  definitions do not validate or do not evaluate; any goroutine of the process may
  end first.
* **Partial information.** Spec and status of a workload are written by different
  actors, values are paired with instances by position, and a command sees the
  cluster through a sequence of calls between which it changes.

What makes each component correct:

* inventory: it shows one version of the cluster at a time and never an older
  one; it is healthy only after a list that is newer than every failure; the
  election is deterministic; no change goes unnoticed by the controller;
* controller: membership is consistent in both directions; nothing stale is
  written; once the queues have nothing left for a key, Store says what the
  current inputs imply; health is reported honestly; work ends;
* Store and collector: a scrape shows one moment of Store and marks as valid no
  value whose job or whose sources failed;
* application: whatever ends first, everything is stopped, in order, and the
  returned error says why;
* operator: conditions and labels converge to the spec and the CRDs;
* SDK: an accepted definition is a tree; what is read, written, counted and matched
  through it agrees with a reference definition over the whole object, and no
  workload reports contradictory statuses;
* CLI: what is hidden or attributed is truly owned, and nothing disappears without
  a warning.

## 2. Modules

| Module | Models |
| --- | --- |
| `KartaElection` | which Karta wins a kind (`electLocked`, filters) |
| `DefinitionSource` | abstract: what the exporter expects of a source of definitions |
| `Inventory` | the inventory and the reflector that feeds it; extends `KartaElection`, implements `DefinitionSource` |
| `InventoryObserver` | the inventory composed with the controller's signal loop and sources worker |
| `InventoryProofs` | proofs about `InventoryObserver` and the `Inventory` in it |
| `ControllerState` | the state under `stateMu` and the helpers that read it |
| `ControllerSources` | watches, accepted objects, definition refreshes |
| `ControllerPods` | Pod jobs, rescans, owner discovery |
| `ControllerWorkloads` | root-UID jobs and selected-object jobs |
| `Controller` | their composition, its fairness and its properties |
| `Publication` | Store and the collector: what writers leave there, and one scrape |
| `Application` | the process: `Serve`, `RunController`, runtime, HTTP server, provider; extends `Publication` |
| `Operator` | the Karta reconciler, the mapping of CRD events and admission |
| `KartaStructure` | a definition, its validation, the structure summary, gang candidates, the component of a Pod |
| `KartaStatus` | phases, conditions and status matching; extends `KartaStructure` |
| `KartaExtraction` | reading and updating an object through instances, the tree, the scale of a subtree; extends `KartaStructure` |
| `KartaCatalog` | the built-in definitions; extends `KartaStatus` |
| `Workload` | a workload object changed by its controller, its users and the SDK; composes the four above |
| `KliDescribe` | the view `kli describe` builds of an object and its Pods; extends `Workload` |
| `KliDefinitions` | the definitions of the CLI and the resolution of a type |
| `Kli` | one run of the CLI against a changing cluster; extends `KliDefinitions` |
| `ControllerProofs` | proofs about the controller's types, source health, membership and pending work, with lemmas about its maps, walks and jobs; extends `Controller` |
| `ControllerFreshness` | proofs that nothing stale is published and that what Store holds at rest is right; extends `ControllerProofs` |
| `ControllerSettled` | proofs that what Store says of a Pod at rest is right and that the root of a cached object is tracked; extends `ControllerFreshness` |
| `ApplicationProofs` | proofs about the process and about a scrape; extends `Application` |
| `OperatorProofs` | proof about the conditions the reconciler leaves; extends `Operator` |
| `WorkloadProofs` | proofs about validation and about matched statuses; extends `Workload` |
| `KliProofs` | proofs about the owner walks; extends `Kli` |
| `MCInventory`, `MCController`, `MCOperator`, `MCApp`, `MCWorkload`, `MCKli` | instances |

### Inventory

A state of the API server's Kartas is a function from names to Kartas; `history`
is the sequence of all of them, and its indices are the resource versions. The
reflector is external: its `phase` says whether it is listing, streaming a list,
about to call `Replace`, watching or about to resume. `stream` and `received` are
the watch as the `forward` goroutine sees it, so that a close can be recorded
before or after `Replace`. Every action is one critical section of `Inventory.mu`
or one step of the reflector. `appliedFrom` is a history variable: the failure
count at the start of the list now applied.

The clock appears only in `shortWatch`, as a free choice, except where the code
makes it certain (between the end bookmark and `Replace`). Validation of a Karta is
its `form`.

### Controller

An object leads a *life*, a sequence of states at the API server. A cache entry is
a position in that life, which also serves as the resource version. Every version
of a kind has a watch and positions of its own. The variables are the maps of
`controllerState` and of Store; `dirty` is the set of keys in the queues, and
`job[k]` what the worker processing key `k` has learned so far. A *scenario* is a
configuration (workers, resource rules) and what the cluster does under it (the
lives of its objects, the answers of the inventory, kinds that are installed late,
watch failures); a behaviour follows one of the `Scenarios` of its run.

| Code | Actions |
| --- | --- |
| `reconcilePod` | `ResolvePod`, `RegisterPodRoot`, `ReadPodRoot`, `FailPodEvaluation`, `PublishPod`, `UnregisterPod` |
| `requeueScope` | `RequeueScope` |
| `reconcileWorkload` | `ReadWorkload`, `WithdrawWorkload`, `RemoveWorkload`, `PublishWorkload` |
| `resolveSelectedObjectRoot` | `ResolveSelectedObject`, `ReplaceSelectedObjectTracking`, `RegisterSelectedObjectRoot`, `ExcludeSelectedObject`, `UnregisterSelectedObject` |
| `Replace`, `applyWatchEvent` | `Replace`, `WatchEvent` |
| `listResource`, `watchResource`, `recordWatchStart` | `WatchFails`, `WatchStarts` |
| `prepareDefinitions`, `refreshDefinitions`, `syncWatches` | `RefreshDefinitions`, `SyncWatch`, `SyncReturns` |
| `ensureWatch` | operator `EnsureWatch` in the steps that call it |

A handler is cut where it writes shared state or validates what it read. Reads that
follow one another are one step. They look at different objects or at the
definitions, which are changed by independent steps of the environment: if two
changes fall between two such reads, the behaviour in which they happen in the
other order has one moment at which both values are current. Where the code reads
the *same* object twice (the Pod before and in discovery, a root before `isRoot`),
a change in between makes it return an error and retry; in the model the step runs
before or after the change. An error return writes its failure in the step that
met the error: only the job of a key writes that key's result, and a key is
processed by one worker at a time.

Abstractions, each of which could be refined:

* no namespace selector: one scope, so that all rescans are one key, watches are
  never retired and failures of namespaced requests are dropped by every sync pass;
* `definitionVersion` alone decides `isDefinitionCurrent`: every change of the
  selected definitions takes a new version, so comparing GVK and origin adds nothing;
* `watchFailures` stands for the discovery failures Store keeps for them;
* a retry is immediate: back-off only delays it; the queue's order is not modelled,
  which allows more behaviours than the FIFO queue of the code;
* results carry what identifies their inputs (root, version, Karta) and their
  errors, not the labels, phases and components computed from them; the `Sources`
  of a result, and what an error keeps of the result before it, are in `Publication`;
* whether a definition's expressions evaluate, and whether an object's labels
  render, is a property of the definition and of the object's state;
* `RefreshDefinitions` reads and commits the inventory at once; `InventoryObserver`
  is where the gap between the two is checked;
* an object a watch rejects as malformed is a watch failure;
* the first list of a replacement watch may be older than the cache: it is a new
  reflector and its first list may be served from any cache of the API server.

### Operator

One Karta is followed from the API server (`server`) through the watch (`stream`)
into the manager's cache, where `Reconcile` reads it. `worker` holds what a
reconcile has read and computed: `Take` is `Get`, the default conditions and the
validation; `CheckCRDExists` reads the cached CRDs; `EnsureLabels` is the label
patch with the derivation of `Ready`; `PatchStatus` sends the difference to what was
read and returns. `others` is the set of root kinds of other Kartas, which only the
webhook's uniqueness check looks at. `webhook` is chosen once, and a Karta may have
been created before the operator started, without labels and without validation.

The patch client is modelled by what it does with the objects it is given: the
answer to the label patch replaces the conditions computed so far (unless the server
has none), and the status patch that follows a label patch carries its resource
version, one that follows none carries no precondition. Content stands for the
resource version. A request that fails may have been applied. The model shows that
a Karta whose labels the webhook refuses (it is invalid, or another Karta has its
kind) is retried forever without `Ready` being derived; `StatusConverges` excepts
`Ready` there and nothing else.

### Publication and Application

`stored` is Store for one workload that may be known under two API versions: the
results of its Pods, its own result, the health of the collections and the discovery
failure. A result keeps the version of its reference, whether it has a value, its
error and its sources. The writers are the controller's functions as far as what they
leave in Store goes; they take any outcome a job can have, so that `Publication` does
not depend on the abstractions of the controller modules. `scrape` is one run of
`collect`: `Capture` copies the view, `ObservePod` takes the Pods in any order and
`ObserveWorkload` finishes. The scrape's context is never cancelled: the Prometheus
exporter collects with a context of its own.

`Application` has one variable per goroutine and per channel between them: `serve`
(each call of `Serve`), `controller` (the goroutine of `RunController`), `inventory`,
`runtime`, `worker`, `server`, with the three contexts nested as in the code. An error
is the set of its causes. `DefinitionRunner` and `Runner` are interfaces, and the
application handles runners that end by themselves; these ends are external actions.
`failed` is a history variable.

### Workload: structure, status, extraction

The SDK's functions are operators over a definition and an object. jq paths are
abstracted to their *shape*, that is, to how many results they yield for a list of
elements and what an absent field gives (`KartaExtraction` lists the shapes); jq
expressions of status mappings are named, and `Holds` says what they compute.
`KartaCatalog` gives every built-in definition in this form.

A behaviour of `Workload` follows one definition and one half of an object. On the
status side the controller and the users write one field at a time in any order
(`Report`), and `Suspend` and `Resume` are the SDK's. On the spec side users change
values, what a `select` looks at and the list of elements (`Edit`), and a client
reads a component, changes one field of one instance and writes all of them back
(`Update`). The properties compare what the SDK makes of the current object with
definitions that do not use its algorithms: `ExactScale`, `ExactRequest`, `HoldsRaw`,
`OwnValue`, and the climb to the root in `IsTree`. The fields of an object are edited
one by one, also where a path multiplies several of them (`jobset.go`, `dynamo.go`,
`grove_podcliqueset.go`): their product is one value of the element. Only the worker
count of a LeaderWorkerSet is computed from fields that two other components read as
their own (`lws.go:63,79,96`), and `WithComputed` keeps it so. Counts wrap at `Width`
bits as `int32` does at 32.

### Kli

A run of the CLI is a sequence of API calls: the Kartas (`Load`), discovery
(`Discover`), the lists (`ListKind`) or the object (`GetRoot`), then one owner per
step for each object (`Climb`). Objects are deleted, created under the same name and
uninstalled with their kind in between. An object's references are fixed when it is
created; `born` remembers every object there was, so that the properties can speak of
true owners by UID. Discovery failures, missing permissions and ambiguous or
unreadable Kartas are part of the initial state, which is any of `Forests` (the
objects), `Clusters` (everything else about the API server) and `Commands`.
`Ancestors` is the least set of true owners that is closed under owning, so that it
can be reasoned about without recursion. `KliDescribe` is what `describe`
makes of the result.

## 3. Runs

All bounds are constants. Each run finishes within about four minutes on two workers.

| Run | Instance | Shows |
| --- | --- | --- |
| `inventory` | 3 names, 1 of them filtered out, 4 contents, 1 edit, 1 failure, from an empty or a filled API server; fair observer | types, `HealthyMeansFresh`, `ClusterMatchesPosition`, `ElectionOrderIndependent` over every iteration order, `NoChangeLost`, `EventuallyCommitted`, refinement of `DefinitionSource` |
| `ownership` | a Pod `q` that adopts a Job, a Pod `p` that loses its owning Job | `MembershipMirror`, `PodSettled`, `NoStalePublish` |
| `lifetime` | Pod and Job: recreation, loss of scope, malformed and ignored owners, labels that stop rendering; or four inventory states with one change | `StoredWorkloadTracked`, `WorkloadSettled`, `PodSettled`, `NoStalePublish` |
| `versions` | a Job in two versions, definitions valid or not, two workload workers; or a Pod and its Job under resource rules that select one version | `SelectedSettled`, `NoOutcomeIsPending` |
| `upgrade` | metadata watch replaced by a full one, two watch failures | `HealthHonest`, `FailureIsPending` |
| `progress` | Pod and Job, kind installed late, one watch failure, fair | types, `Converges` |
| `operator` | one Karta, 5 specs over a CRD with two versions and a native kind, 2 changes, webhook on or off, fair | `StatusSettled`, `StatusConverges` |
| `app` | two calls of `Serve`, one signal, two faults, one scrape, fair; or two Pods, a workload in two versions, three writes, one scrape | `StopsInOrder`, `StopIsExplained`, `StopsWhenAsked`, `ScrapeIsExact` |
| `workload` | the catalog, 250 structures of three children with any owners; any reports, 2 changes of the spec, counts of 3 bits, 4 results | the ten properties of `Workload` and `KliDescribe` |
| `cli` | two workload kinds and one in between, five objects in every ownership, 2 changes, owner depth 1, one abnormality of the cluster | `MatchedIsOwned`, `EndedIsTop`, `SiblingsAgree`, `NothingVanishes` |
| `rescope` | a Pod adopted by a Job under resource rules that select one of two versions | **violates** `PodSettled` |
| `extraction` | the built-in LLMInferenceService | **violates** `ObjectIsReadable` |

Why the bounds are enough. One edit and one failure of the inventory let a list be
overtaken by a failure and a commit by a change; what more of them could do is
covered by the proofs, which have no bounds. In the controller, an instance holds one
chain of owners, and each life has the one or two changes whose races its run is
about; a job is cut into at most four steps, so one change between any two of them
already shows a missing validation, and a second one a missing requeue. For the
operator, two changes (writes of users, changes of the CRD, failed patches, in any
combination) are a deletion and a recreation, or a change of the CRD while labels are
missing, within one reconcile; what the operator writes itself is not bounded. In
`app`, two faults let a second component fail while the first one's end is being
handled; three writes give a scrape two Pods under different versions and a source
that fails. In `workload`, status reports are not bounded; two changes of a spec are
an edit under an update, or two updates that meet; three bits let a product of two
scales overflow; two instances listed out of the order of their ids show a pairing by
the wrong order. The spec side leaves out Milvus (components like those of others,
only many) and one of the two identical LLMInferenceService versions. In `cli`, two
changes replace an owner by another of its name, and chains are as long as the depth
limit and one longer. Each mutant in `PROJECT.json` (a dropped validation, a requeue
that is forgotten, a comparison that is too coarse, ...) is found within these bounds.

One worker per pool suffices for the races between jobs of different pools and of
the sources worker; except in `versions`, jobs of the same pool then interleave only
as wholes, which is a restriction of these runs. No run uses symmetry: the objects
play different roles. `CHECK_DEADLOCK FALSE` is set because a run ends when the
bounded environment has nothing left to do: queues are empty, the command or `Serve`
has returned.

**Fairness.** `FairObserverSpec`: the signal loop and the sources worker are
goroutines that nothing blocks, hence weak fairness of each. `Controller!FairSpec`: a
work queue hands keys out in the order in which they were added, so a key that is
waiting again and again is processed again and again although other keys keep
taking the worker: strong fairness for the steps of each key. A reflector retries
its lists for ever and delivers what it watches: weak fairness of lists and events
of each version. Failures, inventory changes and the installation of a kind are
not fair; `Converges` assumes only that every kind is installed eventually.
`Operator!FairSpec`: watches deliver, handlers run and the one reconcile worker goes
on, each weakly fair; a request that fails is queued again by controller-runtime.
`FairApplicationSpec`: every goroutine that can go on does, a reconcile and the
reflector obey their context and a handler ends; a server that was not closed need
not return, and signals and failures need not happen.

**What `rescope` shows.** A Pod is registered under itself, then adopted by a Job
whose selected version the resource rules exclude. Its job reads that definition
and is about to call `unregisterPod`. The definition now moves to the included
version: `refreshDefinitions` queues the Pods whose *registered* root has the
changed kind, and this Pod's registered root is still itself. `unregisterPod` does
not validate the definition and removes the Pod; nothing is queued for it. The Pod
has no mapping until some other event concerns it, although
`pkg/controller/README.md` promises another pass instead of a stale write. With a
Pod that was always owned by the Job the race is benign.

**What `extraction` shows.** In the built-in LLMInferenceService definitions the
components `main` and `leader` select on the absence and the presence of
`.spec.worker`, and have no `instanceIdPath`. For any object one of the two selects
nothing, `zipWithInstanceIds` is given one implicit instance and no result, and
fails; so do the tree of the object and `kli get` and `kli describe` of it. The rule
that forbids such paths is in `skills/add-workload-type/reference/technical-guide.md`.

Met while modelling, not the subject of a run; the modules follow the code:

* `rayjob.go:85`, `rayservice.go:69` and `grove_podcliqueset.go:75,96` put `// 1` after
  the iterator, which the same guide forbids: one element without the field makes
  the object unreadable or, if no element has it, gives a single 1. The container
  and image paths of `dynamo_v1beta1.go:48-49` select the container `main` and skip a
  component that has none likewise.
* `sandbox.go:30-31` and `:121-123` say that a companion Pod maps to the component
  `companion`; `InferPodComponent` (`instructions/pod.go:16-18`) gives every Pod to the
  only component with a pod definition, `agent`.
* A JobSet can be `Initializing` and `Running` at once, a StatefulSet `Degraded` and
  `Initializing` while it drains; `Exclusive` in `Workload` names what cannot coincide.
* `gang_scheduling.go:154-160` treats a scale of zero like an absent one; `ExactScale`
  has the same rule and does not tell them apart. It also multiplies the scale of a
  level with that of its children; the counts of a LeaderWorkerSet's leader and worker
  already contain the number of groups, as `cli/pkg/workload/describe_test.go:320-325`
  says for `describe`. Neither speaks of the gang size, and `ExactScale` is the product
  there too.
* `runner.go:149` reports an error at exactly `maxResults` results.
* `summary.go:169-170` can be read as keeping the order of the YAML among all mentions of
  ancestors; the code enters them from the nearest ancestor upwards and keeps that order,
  which is what makes `GangOrderIndependent` hold. The comment speaks of a stable sort and the
  code calls `sort.Slice`, which is stable only for short lists; the model keeps the order.
* An update of a KServe container that the object does not have writes nothing and
  returns no error; `UpdateIsExact` excepts it.
* An update that fails keeps the fields it had written (`accessor.go:422-470`): in a
  `DynamoGraphDeployment` v1beta1, when only some components have a container `main`, a new
  scheduler name is written, and then the image fails. `UpdateIsExact` says what such an update
  leaves: a prefix of what the successful one writes, in the order of the code.
* `describe.go` adds a sidecar to the running containers but not to the init
  containers that start after it, and does not multiply the children of a grouping
  component by its own scale; `ExactRequest` does the same.
* An object that resource rules exclude (`excludeSelectedObject`, `state.go:310-324`) does
  not enter the Pods on its owner path in `ancestorPods`; only `ensureRoot`
  (`state.go:474`) does. When such a Pod's owner changes, `queueObjectChange`
  (`sources.go:494-496`) sees no ancestor and queues no rescan, and the exclusion outlives
  its reason until something else touches the object, although
  `pkg/controller/README.md:60` announces a rescan for every change of an intermediate
  owner reference. `SelectedSettled` fails then, and is proved for the scenarios that
  have no resource rules or in which no Pod owns anything (section 4).
* The same happens to a Pod whose root the resource rules leave out: `reconcilePod`
  (`leaf.go:50-60`) unregisters it and does not enter the Pods on its path in
  `ancestorPods`. Take rules that select only Pods, and a Pod whose owner is another Pod, owned
  by a Job. When the Job releases the latter, it becomes a selected root, no rescan is
  queued, and the former has no result until something else touches it.

## 4. Proofs

The runs check small instances; the theorems hold for every value of the constants
that satisfies the named assumptions of the modules. Each theorem has an inductive
invariant that says what the property alone does not, with one lemma for each action
or group of actions that disturbs the same conjuncts.

| Theorem | Property | Inductive invariant |
| --- | --- | --- |
| `InventoryProofs!TypeCorrect`, `HealthIsFresh`, `ClusterIsConsistent` | `TypeOK`, `HealthyMeansFresh`, `ClusterMatchesPosition` | `Inv` |
| `InventoryProofs!Implements` | `ImplementsSource` (refinement) | steps map to steps or stutters under `Inv` |
| `InventoryProofs!ObserverNoChangeLost` | `NoChangeLost` | `ObserverInv` |
| `InventoryProofs!ElectionIsOrderIndependent` | `ElectionOrderIndependent` | `Wins` along the loop, under `TypeOK` |
| `ControllerProofs!ControllerTypeOK` | `TypeOK` | `TypeInv` |
| `ControllerProofs!ControllerHealthHonest` | `HealthHonest` | `HealthInv` |
| `ControllerProofs!ControllerMembershipMirror`, `ControllerStoredWorkloadTracked` | `MembershipMirror`, `StoredWorkloadTracked` | the two together, under `TypeInv` |
| `ControllerProofs!ControllerNoOutcomeIsPending`, `ControllerFailureIsPending` | `NoOutcomeIsPending`, `FailureIsPending` | the two together, under `TypeInv` |
| `ControllerFreshness!ControllerNoStalePublish` | `NoStalePublish` (action property) | `ReadInv` |
| `ControllerFreshness!ControllerWorkloadSettled` | `WorkloadSettled` | `SettledInv`, under `TypeInv`, `ReadInv` and `Mirror` |
| `ControllerSettled!ControllerPodSettled` | `PodSettled`, under `SteadyScope` and `PodsHaveOneVersion` | `SettledPods`, under the four above |
| `ControllerSettled!ControllerSelectedSettled` | `SelectedSettled`, under the same two | `SettledKeys`, under `TypeInv`, `ReadInv` and `Mirror` |
| `ApplicationProofs!ApplicationStopsInOrder`, `ApplicationStopIsExplained` | `StopsInOrder`, `StopIsExplained` | `ProcessInv` |
| `ApplicationProofs!PublicationScrapeIsExact` | `ScrapeIsExact` | `PublicationInv` |
| `OperatorProofs!OperatorStatusSettled` | `StatusSettled` | `OperatorInv` |
| `WorkloadProofs!WorkloadAcceptedIsTree` | `AcceptedIsTree` | `Followed`, and `ValidationAcceptsTrees` for one definition |
| `WorkloadProofs!WorkloadReportedAsObserved` | `ReportedAsObserved`, for definitions that extract what their matchers look at | `ObservationOK` |
| `KliProofs!KliMatchedIsOwned`, `KliEndedIsTop` | `MatchedIsOwned`, `EndedIsTop` | `OwnerInv` |
| `KliProofs!KliSiblingsAgree` | `SiblingsAgree` | `OwnerInv`, `JudgedInv` |
| `KliProofs!KliNothingVanishes` | `NothingVanishes` | `OwnerInv`, `StageInv`, `StillInv` |

**Inventory.** `HealthyMeansFresh` is not inductive: `Replace` clears the failure when
`failures = listedFrom`, so one needs that `listedFrom` never exceeds `failures`, and
that a failure, once recorded, moved `failures` past the start of the list now applied.
`FailureInv` states that. `ClusterMatchesPosition` needs to know where the reflector
is (`ReflectorInv`: it holds a list exactly in the phase `replace`, that list is not
older than the applied one, and it only watches after a list was applied) and that
consecutive states of the API server differ in one Karta (`HistoryStepsByOne`), so
that one event brings the map from one resource version to the next (`FilteredStep`).
`Implements` maps every step either to a step of `DefinitionSource` or to a stutter
under `Inv`. For `NoChangeLost`, `ObserverInv` adds what is still on its way while the
worker is between `List` and the commit: if what it prepared is no longer what `List`
returns, a signal or a key is left. `ElectionOrderIndependent` compares a fold with its
specification. The fold is a recursive function on sets of positions; `LoopExists` shows
by the least counterexample that there is such a function, and `LoopWins` likewise that
after each turn the winner is the best candidate so far (`Wins`).

**Controller.** `TypeInv` is stronger than `TypeOK`: a reference's version is one of
its object's kind, a position is within the object's life, and a job has learned what
its next step reads. It needs that discovery returns a chain within the cache;
`Get` is modelled as a function iterated from the Pod (`Iteration`, `WalkOK`,
`RoundOK`). `HealthHonest` alone does not survive the promotion of a replacement watch:
`HealthInv` adds that a replacement that is still there has not listed. `MembershipMirror`
is proved through `Mirror`, the same relation between any three maps, with one lemma for
each way the code rewrites them (`RootsWithoutPodMembers`, ...).
`NoOutcomeIsPending` and `FailureIsPending` rest on lemmas about the queues: no step
of one key takes another key out of a queue or from its worker. `NoStalePublish` relates
a step to what earlier steps have read: `ReadInv` says that a job's chain is a chain of
objects at the versions it names, each the owner its predecessor's state names, and that
its definition is the one of its kind unless the definitions' version has moved;
`isCurrent` and `isDefinitionCurrent` then make this true of the present, and
`WalkIsFound` that discovery would find the same chain now.

`WorkloadSettled` says that Store is right when no job is left for a root, and a job is
all that stands between the two. `SettledRoot` says what that job owes: if none is
*queued* for a tracked root, then either one is running and all that it has read is
`StillTrue`, or none is and Store holds the `RightResult`. A step that changes what the
root depends on (its object, the version that is selected for its kind, its definition)
must therefore queue the root in the same step; `SelectedStepUndisturbed`,
`PodStepUndisturbed` and `WatchingUndisturbed` show that the remaining steps leave it
`Undisturbed`, and `ReadWorkloadSettles`, `RemoveWorkloadSettles` and
`PublishWorkloadSettles` that each end of the root's own job settles the account, the
early returns and the retries included. That a root's members withdraw it only through
its queue needs the membership mirror, and that a job read what was there `ReadInv`.

`PodSettled` is the same promise for Pods, where the inputs are a whole owner chain.
`SettledPods` says of a Pod that is not queued: while its job runs, what the job has
learned still holds (`PodLearned`); otherwise Store holds the `RightPod` result, or
nothing if the Pod is gone or out of scope. Most of this is owed only while no
rescan is queued, since `queueObjectChange` queues a rescan, and not the Pod, when an
intermediate owner changes. `ChainsAgree` and `OneRoot` show that a Pod has one chain;
`CalmStays` that a step which leaves this chain, the state of its root and the definition
alone (`PodCalm`) leaves the Pod settled; and one lemma for each action that it is calm
or queues the Pod or a rescan. `RequeueScope` ends a rescan and queues every Pod at the
same moment. A watch event on a Pod that owns something queues a rescan only if
`ancestorPods` has it, so `Followed` keeps the Pods of the chain in that set.

The theorem has two hypotheses about the scenario, both necessary. `SteadyVersions`: no
two inventories select different versions of a kind (`rescope` is the counterexample).
`NoPodOwns`, only under resource rules: no Pod owns anything (the counterexample is the
last remark of section 3). `PodsHaveOneVersion` says that `v1` is the only version of
Pods. The scenarios of the `ownership` and `lifetime` runs satisfy all three (they set no
resource rules, and in `ownership` Pods own), and TLC found `SettledPods` invariant on them
and on scenarios with rules, metadata watches and failing definitions before it was proved.

`SelectedSettled` is the promise to workloads without Pods: every cached object has its
root tracked. `SettledKeys` follows the same pattern with the selected key of an object,
and says more than the property: `RightRoot` says that the object is registered with the
root of its one chain and not only that something tracks this root, or, for a version that
the definitions do not select (`Swapped`), that the key is gone. `ReadFrom` keeps the chain
that a running job has read; the membership mirror turns the registration into a tracked
root. What is not `Wanted` is owed nothing: an object may have gone or not be discovered
for its own sake. `WatchEventCalmKey`, `RefreshCalmKey` and `OtherJobsCalmKey` show that
what disturbs a key queues it, the withdrawal of its root by the root's own job included.
The hypotheses are those of `PodSettled` and necessary here, too. When a definition moves
the kind of a root to a version that the resource rules select, `refreshDefinitions`
queues the root and not the excluded objects below it, whose root stays untracked until
the root's own key has been processed; TLC finds this in eleven steps, and in nine steps a
Pod that is excluded through another Pod. The `versions` run therefore checks the
property beyond the theorem: its definitions move an object that is its own root.

**Application.** `StopsInOrder` is about the last step of `Serve`; `ServeInv` says for
each step before it which goroutines have ended, and `OneCaller` that only the call that
won `started` has any. For `StopIsExplained`, `EndsForAReason` and `Explained` follow
every cause from the goroutine it arose in, through the channels, to the error of the
call that is running (`InFlight`).

**Publication.** `ScrapeInv` gives the rows collected so far as a function of the view
captured and of the set of Pods observed, which is why their order does not matter.

**Operator.** `StatusSettled` speaks of the moment when nothing is left to do;
`ReconcileInv` says what a reconcile during which nothing arrives has computed at each
of its steps, the replacement of its conditions by the answer to the label patch
included, `RestInv` what the last one left behind, and `Watched` that a
watch ends with what the API server has. A change of the CRD is excused only while its
event is still to be mapped, and `RestInv` keeps the labels by which it will be.

**Kli.** `OwnerInv` keeps, for each walk, the set of objects it has climbed: true owners
without a match, each with its own owner among them unless that one has been deleted.
`CacheInv` is what makes the caches harmless: a list read earlier can lack an object only
if that object was created since, and then no object listed before has it as an ancestor,
because a reference never names a UID that does not exist yet (`AncestorsStay`). For
`SiblingsAgree`, `JudgedInv` says that every walk, finished or not, is the trail through
the caches as they are *now*: what is cached stays cached. Two trails from one
controller cannot part (`TrailsAgree`, by the least place at which they would).
`NothingVanishes` is about a cluster that holds still: `StillInv` says that of every kind
asked for either the list is still to come or all its objects are in the queue, under
way or judged, and that a kind which was left out has no objects or a warning. Of an
object of a covered kind and its owners of such kinds, the topmost (`TopMember`) is
listed and cannot be matched, since what matched it would be an owner above. This needs
`OwnersExist`: `climb` (`owners.go:90-115`) matches on the kind in a reference without
asking whether the owner exists, so that an object whose listed owner is gone, or objects
that own each other, would be hidden with nothing printed for them.

**Workload.** `ValidationAcceptsTrees` is a theorem about the algorithm of
`validateNoOwnershipCycles` and holds for every definition: it is accepted exactly when
its components are valid one by one and form a tree. `checkPathToRoot` climbs with a set
of what it has seen; the argument follows the orbit of a name under "owner of" (`Up`).
An orbit that returns to where it started never reaches the root (`OrbitNoReturn`), so
the growing set of seen names never stops a climb that would have got there
(`ClimbStep`, `ClimbValue`, by the number of names not yet seen). The memory of earlier
climbs stays empty (`CycleFoldValue`): a climb is remembered only if it ended at a
remembered name, so the check is right without it and every component is climbed from
anew. That as many steps as there are children are enough is the pigeonhole principle
(`OrbitShort`). The two folds and the climb are functions given by recursive equations;
`ClimbExists`, `ClimbFoldValue` and `CycleFoldValue` give a function that satisfies each
and show by the least counterexample that it is the only one.
`WorkloadReportedAsObserved` shows what a definition owes its matchers: if it extracts
the phase, the conditions and the reasons they look at, no status is missed or made up;
every built-in definition does, and `DeploymentWithoutReason` is one that does not.

**Assumptions.** They are the `ASSUME`s of the modules, evaluated by TLC in every run.
Besides types: `LivesAssumption` (an incarnation never returns), `OwnersAssumption`
(finitely many objects; an owner reference names a key that exists in the model),
`SnapshotsAssumption` (a definition is filed under its own kind, as `List` does),
`PublicationAssumption` and `OperatorAssumption` (the special values differ from the
ordinary ones; a native kind is not a CRD's), `ClusterAssumption` (when the command
starts, UIDs and names are unique, a reference with the UID of an object
has its name, and the kinds of the objects there are served) and `KliAssumption`
(finitely many kinds, those of the definitions among them). `WorkloadAssumption` says
that nothing but the owners that its children name can be wrong with a definition whose
spec side is followed; `ValidationAcceptsTrees` does without it. `NoneAssumption` and
`NullAssumption` say that the placeholder for nil is no ordinary value.

**Only model-checked**, and why:

* liveness (`EventuallyCommitted`, `Converges`, `StatusConverges`, `StopsWhenAsked`):
  out of the prover's reach;
* `ScaleIsExact`, `RequestIsExact`, `PodsListedOnce`, `GangOrderIndependent`: they
  compare folds or recursive computations over whole trees and sequences, which takes
  induction over data (`KliDescribe` is the only module with RECURSIVE operators and holds
  no theorem);
* `PodSettled` and `SelectedSettled` outside `SteadyScope`, where they do not hold for
  every scenario;
* `NoContradictoryStatuses` and `SuspensionIsReported`: facts about the expressions of
  the built-in catalog, which is written with `:>` and `@@`, operators the provers know
  nothing of; the run enumerates the observations;
* `InstancesReadTheirOwn` and `UpdateIsExact`: pure functions of one document built on
  `SelectSeq` and `@@`, which the provers do not know either. The former is a property of
  the definitions too: two paths of one part that both leave out absent values can
  agree in number and still be paired wrongly. No built-in component has such a part.

## 5. Plan

1. Controller with namespace scopes: `retireWatch`, scoped rescans, removal of the
   roots of a namespace that left the selector; a run with two workers per pool.
2. Operator: startup (`discoverNativeGVKs` between two reads of the API server),
   relists of CRDs under `GenerationChangedPredicate`, concurrent admissions.
3. CLI: a group that fails between the two discoveries of one run.

Not modelled: certificates and the manager's wiring, configuration parsing, the jq and
CEL interpreters and the label rules built on them, rendering, generated code, the wasm
and Headlamp front ends, release tooling: they hold no state of their own or wrap
third-party libraries.
