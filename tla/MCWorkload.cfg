SPECIFICATION Spec
CONSTANTS
  Null = Null
  Unparsable = Unparsable
  SpecOf <- MCSpecOf
  MaxResults = 4
  Width = 3
  MaxEdits = 2
  EditedRoles = {"replicas", "minReplicas", "schedulerName", "image", "container", "podSpec"}
  Observed <- MCObserved
  Documented <- MCDocumented
INVARIANTS
  NoContradictoryStatuses
  ReportedAsObserved
  AcceptedIsTree
  ScaleIsExact
  GangOrderIndependent
  InstancesReadTheirOwn
  PodsListedOnce
  RequestIsExact
PROPERTIES
  SuspensionIsReported
  UpdateIsExact
CHECK_DEADLOCK FALSE
