---------------------------- MODULE KartaCatalog ----------------------------
(***************************************************************************)
(* The built-in definitions of karta/sdk/pkg/catalog: for every workload   *)
(* type its components, what their paths can yield, how Pods are told      *)
(* apart, which statuses it reports and which components form a gang.      *)
(* Messages, grouping keys and the Kubernetes kinds of child components    *)
(* are left out.                                                           *)
(***************************************************************************)
EXTENDS KartaStatus, TLC

GVK(group, version, kind) == [group |-> group, version |-> version, kind |-> kind]

Paths(roles, shape) == [r \in roles |-> shape]
Template == Paths({"podTemplateSpec"}, "plain")
Replicas(shape) == Paths({"replicas"}, shape)
Bounds == Paths({"minReplicas", "maxReplicas"}, "plain")
Affinities == {"podAffinity", "nodeAffinity"}

With(component, paths) == [component EXCEPT !.paths = paths]
Typed(component, key, value) == [component EXCEPT !.type = Selector(key, value)]
Multi(component, key) == [component EXCEPT !.ids = TRUE, !.instance = key]
Replicated(component, key) == [component EXCEPT !.replica = key]

StatusDefinition(extracts, mappings) ==
  [phase |-> "phase" \in extracts, conditions |-> "conditions" \in extracts,
   reason |-> "reason" \in extracts, mappings |-> mappings]
IsTrue(type) == ByConditions({Expect(type, "True")})
IsFalse(type, reason) == ByConditions({ExpectReason(type, "False", reason)})

NoSuspend == <<>>
\* The assignments that suspend and resume: [field, suspended, running].
SuspendFlag == <<[field |-> "suspend", suspended |-> TRUE, running |-> FALSE]>>

\* One pod group; no built-in member has filters.
Gang(names) ==
  <<[members |-> [i \in DOMAIN names |-> [component |-> names[i], filters |-> <<>>]]]>>

Karta(root, children, suspend, status, gang) ==
  [root |-> root, children |-> children, suspend |-> suspend, status |-> status, gang |-> gang]

-----------------------------------------------------------------------------
(* Kubernetes workloads *)

Pod ==
  Karta(With(Root("pod", GVK("", "v1", "Pod")), Template @@ Replicas("literal")), <<>>, NoSuspend,
    StatusDefinition({"phase", "conditions", "reason"},
      "Initializing" :> {ByPhase("Pending")} @@ "Running" :> {ByPhase("Running")}
        @@ "Completed" :> {ByPhase("Succeeded")} @@ "Failed" :> {ByPhase("Failed")}),
    Null)

BatchJob ==
  Karta(With(Root("job", GVK("batch", "v1", "Job")), Template @@ Replicas("default")), <<>>,
    SuspendFlag,
    StatusDefinition({"conditions", "reason"},
      "Initializing" :> {ByExpression("job pods active, none ready")}
        @@ "Running" :> {ByExpression("job pods active and ready")}
        @@ "Completed" :> {IsTrue("Complete"), IsTrue("SuccessCriteriaMet")}
        @@ "Failed" :> {IsTrue("Failed"), IsTrue("FailureTarget")}
        @@ "Degraded" :> {ByExpression("job below parallelism")}
        @@ "Suspended" :> {IsTrue("Suspended")}),
    Gang(<<"job">>))

CronJob ==
  Karta(With(Root("cronjob", GVK("batch", "v1", "CronJob")), Template @@ Replicas("default")),
    <<Child("job", "cronjob")>>, SuspendFlag,
    StatusDefinition({},
      "Initializing" :> {ByExpression("never scheduled")}
        @@ "Running" :> {ByExpression("has been scheduled")}
        @@ "Suspended" :> {ByExpression("suspend requested")}),
    Null)

\* Fault: the reason of a condition is not extracted.
DeploymentWithoutReason ==
  Karta(With(Root("deployment", GVK("apps", "v1", "Deployment")), Template @@ Replicas("default")),
    <<Child("replicaset", "deployment")>>, NoSuspend,
    StatusDefinition({"conditions"},
      "Running" :> {ByConditions({ExpectReason("Progressing", "True", "NewReplicaSetAvailable")})}),
    Null)

Deployment ==
  Karta(With(Root("deployment", GVK("apps", "v1", "Deployment")), Template @@ Replicas("default")),
    <<Child("replicaset", "deployment")>>, NoSuspend,
    StatusDefinition({"conditions", "reason"},
      "Initializing" :> {ByConditions({ExpectReason("Progressing", "True", "NewReplicaSetCreated")}),
                         ByConditions({Expect("Progressing", "True"), Expect("Available", "False")})}
        @@ "Running" :> {ByConditions({ExpectReason("Progressing", "True", "NewReplicaSetAvailable")})}
        @@ "Failed" :> {IsFalse("Progressing", "ProgressDeadlineExceeded")}),
    Null)

StatefulSet ==
  Karta(With(Root("statefulset", GVK("apps", "v1", "StatefulSet")), Template @@ Replicas("default")),
    <<>>, NoSuspend,
    StatusDefinition({},
      "Running" :> {ByExpression("statefulset at desired state")}
        @@ "Degraded" :> {ByExpression("statefulset partly ready")}
        @@ "Initializing" :> {ByExpression("statefulset draining"),
                              ByExpression("statefulset rolling")}),
    Null)

-----------------------------------------------------------------------------
(* Training *)

Jobset ==
  Karta(Root("jobset", GVK("jobset.x-k8s.io", "v1alpha2", "JobSet")),
    <<Multi(With(Child("replicatedjob", "jobset"), Template @@ Replicas("strict")),
            "replicatedjob-name")>>,
    SuspendFlag,
    StatusDefinition({"conditions", "reason"},
      "Initializing" :> {ByExpression("jobset starting")}
        @@ "Running" :> {ByExpression("jobset working")}
        @@ "Completed" :> {IsTrue("Completed")} @@ "Failed" :> {IsTrue("Failed")}
        @@ "Suspended" :> {IsTrue("Suspended")}),
    Gang(<<"replicatedjob">>))

KubeflowStatus ==
  "Initializing" :> {IsTrue("Created")} @@ "Running" :> {IsTrue("Running")}
    @@ "Completed" :> {IsTrue("Succeeded")} @@ "Failed" :> {IsTrue("Failed")}
    @@ "Suspended" :> {IsTrue("Suspended")}

Mpijob ==
  Karta(Root("mpijob", GVK("kubeflow.org", "v2beta1", "MPIJob")),
    <<Typed(With(Child("launcher", "mpijob"), Template @@ Replicas("default")), "job-role", "launcher"),
      Typed(With(Child("worker", "mpijob"), Template @@ Replicas("default")), "job-role", "worker")>>,
    SuspendFlag, StatusDefinition({"conditions", "reason"}, KubeflowStatus),
    Gang(<<"launcher", "worker">>))

Pytorch ==
  Karta(Root("pytorchjob", GVK("kubeflow.org", "v1", "PyTorchJob")),
    <<Typed(With(Child("master", "pytorchjob"), Template @@ Replicas("default")),
            "replica-type", "master"),
      Typed(With(Child("worker", "pytorchjob"), Template @@ Replicas("default") @@ Bounds),
            "replica-type", "worker")>>,
    SuspendFlag, StatusDefinition({"conditions"}, KubeflowStatus),
    Gang(<<"master", "worker">>))

RayHead(owner) ==
  Typed(With(Child("head", owner), Template @@ Replicas("literal")), "node-type", "head")
RayWorker(owner, scale) ==
  Multi(Typed(With(Child("worker", owner), Template @@ scale), "node-type", "worker"), "ray-group")

Raycluster ==
  Karta(Root("raycluster", GVK("ray.io", "v1", "RayCluster")),
    <<RayHead("raycluster"), RayWorker("raycluster", Replicas("plain") @@ Bounds)>>, SuspendFlag,
    StatusDefinition({"phase"},
      "Running" :> {ByPhase("ready")} @@ "Failed" :> {ByPhase("failed")}
        @@ "Suspended" :> {ByExpression("raycluster suspended")}),
    Gang(<<"head", "worker">>))

Rayjob ==
  Karta(Root("rayjob", GVK("ray.io", "v1", "RayJob")),
    <<RayHead("rayjob"), RayWorker("rayjob", Replicas("carried") @@ Bounds)>>, SuspendFlag,
    StatusDefinition({"phase", "conditions"},
      "Initializing" :> {ByPhase("PENDING"), ByExpression("deployment initializing")}
        @@ "Running" :> {ByPhase("RUNNING")} @@ "Completed" :> {ByPhase("SUCCEEDED")}
        @@ "Failed" :> {ByPhase("FAILED")}
        @@ "Suspended" :> {ByExpression("deployment suspended")}),
    Gang(<<"head", "worker">>))

RayService ==
  Karta(Root("rayservice", GVK("ray.io", "v1", "RayService")),
    <<RayHead("rayservice"), RayWorker("rayservice", Replicas("carried"))>>, NoSuspend,
    StatusDefinition({"conditions", "reason"},
      "Running" :> {IsTrue("Ready")} @@ "Initializing" :> {IsFalse("Ready", "Initializing")}
        @@ "Degraded" :> {IsFalse("Ready", "ZeroServeEndpoints")}
        @@ "Failed" :> {IsFalse("Ready", "InitializingTimeout"), IsFalse("Ready", "ValidationFailed")}),
    Gang(<<"head", "worker">>))

\* The worker's count is computed from the fields of the other two (WithComputed).
LWS ==
  Karta(Root("leaderworkerset", GVK("leaderworkerset.x-k8s.io", "v1", "LeaderWorkerSet")),
    <<Replicated(With(Child("group", "leaderworkerset"), Replicas("plain")), "group-index"),
      Typed(With(Child("leader", "group"), Template @@ Replicas("default")), "worker-index", "0"),
      Typed(With(Child("worker", "group"), Template @@ Replicas("plain")), "leader-name", AnyValue)>>,
    NoSuspend,
    StatusDefinition({"conditions"},
      "Initializing" :> {IsTrue("Progressing")}
        @@ "Running" :> {IsTrue("Available"), ByExpression("all groups ready and updated")}
        @@ "Failed" :> {ByConditions({Expect("Available", "False"), Expect("Progressing", "False"),
                                      Expect("UpdateInProgress", "False")})}),
    Gang(<<"group">>))

-----------------------------------------------------------------------------
(* Inference *)

KServe ==
  Karta(Root("inferenceservice", GVK("serving.kserve.io", "v1beta1", "InferenceService")),
    <<Typed(With(Child("predictor", "inferenceservice"),
                 Paths({"schedulerName", "labels", "annotations", "containers", "priorityClassName"}
                         \cup Affinities, "plain")
                   @@ Paths({"container"}, "guarded") @@ Bounds),
            "component", "predictor"),
      Typed(With(Child("transformer", "inferenceservice"),
                 Paths({"podSpec", "metadata"}, "plain") @@ Bounds), "component", "transformer")>>,
    NoSuspend,
    StatusDefinition({"conditions"},
      "Running" :> {ByConditions({Expect("PredictorReady", "True"), Expect("RoutesReady", "True"),
                                  Expect("LatestDeploymentReady", "True")})}
        @@ "Failed" :> {ByConditions({Expect("PredictorReady", "False"),
                                      Expect("PredictorConfigurationReady", "False"),
                                      Expect("RoutesReady", "False")})}),
    Gang(<<"predictor", "transformer">>))

LLMStatus ==
  StatusDefinition({"conditions", "reason"},
    "Initializing" :> {ByExpression("llm converging"), ByExpression("llm starting")}
      @@ "Running" :> {IsTrue("Ready")}
      @@ "Suspended" :> {IsFalse("Ready", LLMStopReason), IsFalse("PresetsCombined", LLMStopReason)}
      @@ "Failed" :> {ByExpression("llm failed"), ByExpression("llm presets failed")})

LLMComponent(name, label, specShape, scaleShape, scaleRoles) ==
  Typed(With(Child(name, "llminferenceservice"),
             Paths({"podSpec"}, specShape) @@ Paths(scaleRoles, scaleShape)), "component", label)

LLMDecode ==
  <<LLMComponent("main", "workload", "guarded", "guarded", ScaleRoles),
    LLMComponent("prefill", "workload-prefill", "guarded", "guarded", ScaleRoles),
    LLMComponent("worker", "workload-worker", "plain", "guarded", ScaleRoles)>>

LLMPrefill ==
  <<LLMComponent("leader", "workload-leader", "guarded", "guarded", ScaleRoles),
    LLMComponent("prefill-leader", "workload-leader-prefill", "guarded", "guarded", ScaleRoles),
    LLMComponent("prefill-worker", "workload-worker-prefill", "plain", "guarded", ScaleRoles),
    LLMComponent("router-scheduler", "router-scheduler", "plain", "plain", {"replicas"})>>

\* The definition for one served version; only the GVK differs.
llmInferenceService(version) ==
  LET components == LLMDecode \o LLMPrefill
  IN  Karta(Root("llminferenceservice", GVK("serving.kserve.io", version, "LLMInferenceService")),
        components, NoSuspend, LLMStatus,
        Gang([i \in DOMAIN components |-> components[i].name]))

LLMInferenceService == llmInferenceService("v1alpha1")
LLMInferenceServiceV1alpha2 == llmInferenceService("v1alpha2")

KnativeServing ==
  Karta(Root("knativeservice", GVK("serving.knative.dev", "v1", "Service")),
    <<With(Child("revision", "knativeservice"),
           Template @@ Paths({"minReplicas"}, "default") @@ Paths({"maxReplicas"}, "optional"))>>,
    NoSuspend,
    StatusDefinition({"conditions"},
      "Running" :> {IsTrue("Ready")} @@ "Initializing" :> {ByConditions({Expect("Ready", "Unknown")})}
        @@ "Failed" :> {IsFalse("Ready", Null)}),
    Gang(<<"revision">>))

NIMService ==
  Karta(With(Root("nimservice", GVK("apps.nvidia.com", "v1alpha1", "NIMService")),
             Paths({"schedulerName", "labels", "annotations", "resources"} \cup Affinities, "plain")
               @@ Replicas("default")),
    <<>>, NoSuspend,
    StatusDefinition({"phase", "conditions"},
      "Initializing" :> {ByPhase("NotReady"), ByPhase("Pending")}
        @@ "Running" :> {ByPhase("Ready")} @@ "Failed" :> {ByPhase("Failed")}),
    Gang(<<"nimservice">>))

NIMCache ==
  Karta(With(Root("nimcache", GVK("apps.nvidia.com", "v1alpha1", "NIMCache")),
             Paths({"resources"}, "plain") @@ Replicas("literal")),
    <<>>, NoSuspend,
    StatusDefinition({"phase", "conditions", "reason"},
      "Initializing" :> {ByPhase("Pending"), ByPhase("NotReady"), ByPhase("PVC-Created"),
                         ByPhase("Started"), IsTrue("NIM_CACHE_JOB_CREATED")}
        @@ "Running" :> {ByPhase("InProgress")}
        @@ "Completed" :> {[IsTrue("NIM_CACHE_JOB_COMPLETED") EXCEPT !.phase = "Ready"]}
        @@ "Failed" :> {ByPhase("Failed")}),
    Null)

DynamoStatus ==
  StatusDefinition({"phase"},
    "Initializing" :> {ByPhase("initializing"), ByPhase("pending")}
      @@ "Running" :> {ByPhase("successful")} @@ "Failed" :> {ByPhase("failed")})

DynamoFields ==
  {"schedulerName", "labels", "annotations", "resourceClaims", "priorityClassName"} \cup Affinities

Dynamo ==
  Karta(Root("dynamographdeployment", GVK("nvidia.com", "v1alpha1", "DynamoGraphDeployment")),
    <<Replicated(Multi(With(Child("service", "dynamographdeployment"),
                            Paths(DynamoFields \cup {"resources", "container", "image"}, "plain")
                              @@ Replicas("default") @@ Bounds),
                       "dynamo-component"), "replica-index")>>,
    NoSuspend, DynamoStatus, Gang(<<"service">>))

DynamoV1beta1 ==
  Karta(Root("dynamographdeployment", GVK("nvidia.com", "v1beta1", "DynamoGraphDeployment")),
    <<Replicated(Multi(With(Child("component", "dynamographdeployment"),
                            Paths(DynamoFields, "plain") @@ Paths({"container", "image"}, "guarded")
                              @@ Replicas("default")),
                       "dynamo-component"), "replica-index")>>,
    NoSuspend, DynamoStatus, Gang(<<"component">>))

-----------------------------------------------------------------------------
(* Milvus, Grove, Sandbox *)

MilvusLabelled(name) ==
  Typed(With(Child(name, "milvus"),
             Paths({"schedulerName", "labels", "annotations", "resources", "priorityClassName"}
                     \cup Affinities, "plain") @@ Replicas("plain")),
        "component", name)

MilvusNodes ==
  <<MilvusLabelled("standalone"), MilvusLabelled("proxy"), MilvusLabelled("mixcoord"),
    MilvusLabelled("datanode"), MilvusLabelled("querynode"), MilvusLabelled("streamingnode")>>

MilvusCoordinators ==
  <<MilvusLabelled("indexnode"), MilvusLabelled("rootcoord"), MilvusLabelled("datacoord"),
    MilvusLabelled("querycoord"), MilvusLabelled("indexcoord"), MilvusLabelled("cdc")>>

\* In-cluster dependencies are told from other Pods by no selector.
MilvusDependencies ==
  LET dependency(name, scale) == With(Child(name, "milvus"), Paths({"resources"}, "plain") @@ scale)
  IN  <<dependency("etcd", Replicas("plain")), dependency("minio", <<>>),
        dependency("pulsar-zookeeper", Replicas("plain")),
        dependency("pulsar-bookkeeper", Replicas("plain")),
        dependency("pulsar-broker", Replicas("plain")), dependency("pulsar-proxy", Replicas("plain"))>>

Milvus ==
  Karta(Root("milvus", GVK("milvus.io", "v1beta1", "Milvus")),
    MilvusNodes \o MilvusCoordinators \o MilvusDependencies, NoSuspend,
    StatusDefinition({"phase", "conditions"},
      "Running" :> {ByPhase("Healthy")} @@ "Initializing" :> {ByPhase("Pending")}
        @@ "Degraded" :> {ByPhase("Unhealthy")}),
    Gang(<<"querynode", "datanode", "streamingnode">>))

GrovePodCliqueSet ==
  LET scaled == Replicas("carried") @@ Bounds
      child(name, paths) ==
        Replicated(Multi(With(Child(name, "podcliqueset"), paths), name), "replica-index")
  IN  Karta(Root("podcliqueset", GVK("grove.io", "v1alpha1", "PodCliqueSet")),
        <<child("clique", Paths({"schedulerName", "labels", "annotations", "containers",
                                 "resourceClaims", "priorityClassName"} \cup Affinities, "plain")
                            @@ scaled),
          child("scalinggroup", scaled)>>,
        NoSuspend,
        StatusDefinition({"conditions", "reason"},
          "Failed" :> {IsTrue("TopologyLevelsUnavailable")}
            @@ "Running" :> {ByExpression("replicas available")}
            @@ "Initializing" :> {ByExpression("replicas missing")}),
        Gang(<<"clique", "scalinggroup">>))

SandboxLabel == "sandbox-name-hash"

Sandbox ==
  Karta(Root("sandbox", GVK("agents.x-k8s.io", "v1beta1", "Sandbox")),
    <<Typed(With(Child("agent", "sandbox"), Template), SandboxLabel, AnyValue),
      Typed(Child("companion", "sandbox"), SandboxLabel, NoValue)>>,
    <<[field |-> "operatingMode", suspended |-> "Suspended", running |-> "Running"]>>,
    StatusDefinition({"conditions", "reason"},
      "Initializing" :> {Requiring(ByConditions({Expect("Ready", "False"), Expect("Suspended", "False")}),
                                   "mode not suspended")}
        @@ "Running" :> {Requiring(IsTrue("Ready"), "mode running, not suspended")}
        @@ "Suspending" :> {ByExpression("mode suspended, still running")}
        @@ "Suspended" :> {Requiring(IsTrue("Suspended"), "mode suspended")}
        @@ "Resuming" :> {Requiring(IsTrue("Suspended"), "mode not suspended")}),
    Gang(<<"agent", "companion">>))

-----------------------------------------------------------------------------
(* The catalog *)

definitions ==
  <<BatchJob, CronJob, Deployment, StatefulSet, Pod, Jobset, Pytorch, Mpijob, Raycluster, Rayjob,
    RayService, LWS, KServe, LLMInferenceService, LLMInferenceServiceV1alpha2, KnativeServing,
    NIMService, NIMCache, Milvus, Dynamo, DynamoV1beta1, GrovePodCliqueSet, Sandbox>>

RootKey(karta) == karta.root.kind

\* newCatalog: an incomplete or a repeated GVK is an error (Null).
newCatalog(defs) ==
  LET keys == {RootKey(defs[i]) : i \in DOMAIN defs}
  IN  IF (\E gvk \in keys : gvk = Null \/ gvk.version = "" \/ gvk.kind = "")
           \/ Cardinality(keys) # Len(defs)
        THEN Null
      ELSE [gvk \in keys |-> defs[CHOOSE i \in DOMAIN defs : RootKey(defs[i]) = gvk]]

\* New, List, Get
Catalog == newCatalog(definitions)
=============================================================================
