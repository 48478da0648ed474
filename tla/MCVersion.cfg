SPECIFICATION Spec
CONSTANTS
  Objects = {"p", "j"}
  Kinds = {"Pod", "Job"}
  GVKs = {"Pod", "Job", "Job2"}
  KindOf <- KindsOfGVKs
  KindOfObject <- KindsOfObjects
  PodGVK = "Pod"
  RequiredKinds = {}
  IgnoredOwnerKinds = {}
  WatchErrors = {"unavailable"}
  Scenarios <- VersionAndFilterScenarios
  Malformed = Malformed
  None = None
INVARIANTS
  SelectedSettled
  NoOutcomeIsPending
CHECK_DEADLOCK FALSE
