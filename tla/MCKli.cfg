SPECIFICATION Spec
CONSTANTS
  Null = Null
  Kinds = {"A", "B", "C"}
  PodKind = "C"
  MaxOwnerDepth = 1
  MaxChanges = 2
  Slots <- MCSlots
  Mutable <- MCMutable
  Catalog <- MCCatalog
  Forests <- MCForests
  Clusters <- MCClusters
  Commands <- MCCommands
INVARIANTS
  MatchedIsOwned
  EndedIsTop
  SiblingsAgree
  NothingVanishes
CHECK_DEADLOCK FALSE
