SPECIFICATION Spec
CONSTANTS
  Objects = {"p", "j"}
  Kinds = {"Pod", "Job", "Set"}
  GVKs = {"Pod", "Job", "Set"}
  KindOf <- KindsOfGVKs
  KindOfObject <- KindsOfObjects
  PodGVK = "Pod"
  RequiredKinds = {}
  IgnoredOwnerKinds = {"Set"}
  WatchErrors = {"unavailable"}
  Scenarios <- LifetimeAndDefinitionScenarios
  Malformed = Malformed
  None = None
INVARIANTS
  StoredWorkloadTracked
  WorkloadSettled
  PodSettled
PROPERTIES
  NoStalePublish
CHECK_DEADLOCK FALSE
