SPECIFICATION FairSpec
CONSTANTS
  Objects = {"p", "j"}
  Kinds = {"Pod", "Job"}
  GVKs = {"Pod", "Job"}
  KindOf <- KindsOfGVKs
  KindOfObject <- KindsOfObjects
  PodGVK = "Pod"
  RequiredKinds = {}
  IgnoredOwnerKinds = {}
  WatchErrors = {"unavailable"}
  Scenarios <- ProgressScenarios
  Malformed = Malformed
  None = None
INVARIANTS
  TypeOK
PROPERTIES
  Converges
CHECK_DEADLOCK FALSE
