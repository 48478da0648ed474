SPECIFICATION Spec
CONSTANTS
  Objects = {"p", "j"}
  Kinds = {"Pod", "Job"}
  GVKs = {"Pod", "Job", "Job2"}
  KindOf <- KindsOfGVKs
  KindOfObject <- KindsOfObjects
  PodGVK = "Pod"
  RequiredKinds = {"Job2"}
  IgnoredOwnerKinds = {}
  WatchErrors = {"unavailable"}
  Scenarios <- RescopeScenarios
  Malformed = Malformed
  None = None
INVARIANTS
  PodSettled
CHECK_DEADLOCK FALSE
