SPECIFICATION Spec
CONSTANTS
  Objects = {"p", "q", "j"}
  Kinds = {"Pod", "Job"}
  GVKs = {"Pod", "Job"}
  KindOf <- KindsOfGVKs
  KindOfObject <- KindsOfObjects
  PodGVK = "Pod"
  RequiredKinds = {}
  IgnoredOwnerKinds = {}
  WatchErrors = {"unavailable"}
  Scenarios <- OwnershipScenarios
  Malformed = Malformed
  None = None
INVARIANTS
  MembershipMirror
  PodSettled
PROPERTIES
  NoStalePublish
CHECK_DEADLOCK FALSE
