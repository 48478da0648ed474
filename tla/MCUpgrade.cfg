SPECIFICATION Spec
CONSTANTS
  Objects = {"p", "j"}
  Kinds = {"Pod", "Job"}
  GVKs = {"Pod", "Job"}
  KindOf <- KindsOfGVKs
  KindOfObject <- KindsOfObjects
  PodGVK = "Pod"
  RequiredKinds = {}
  IgnoredOwnerKinds = {}
  WatchErrors = {"unavailable"}
  Scenarios <- UpgradeScenarios
  Malformed = Malformed
  None = None
INVARIANTS
  HealthHonest
  FailureIsPending
CHECK_DEADLOCK FALSE
