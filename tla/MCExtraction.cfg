SPECIFICATION Spec
CONSTANTS
  Null = Null
  Unparsable = Unparsable
  SpecOf <- MCSpecOf
  MaxResults = 4
  Width = 3
  MaxEdits = 2
  EditedRoles = {"replicas", "minReplicas", "image", "container", "podSpec"}
  Observed <- Nothing
  Documented <- OnlyLLM
INVARIANT ObjectIsReadable
CHECK_DEADLOCK FALSE
