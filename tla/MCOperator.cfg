SPECIFICATION FairSpec
CONSTANTS
  GroupKinds = {"job"}
  Versions = {"v1", "v2"}
  NativeGVKs <- MCNative
  Specs <- MCSpecs
  MaxChanges = 2
  None = None
INVARIANTS
  StatusSettled
PROPERTIES
  StatusConverges
CHECK_DEADLOCK FALSE
