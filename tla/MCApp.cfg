SPECIFICATION FairApplicationSpec
CONSTANTS
  Callers = {"first", "second"}
  Pods = {"p", "q"}
  Versions = {1, 2}
  PodKeys = {"pods"}
  RootKeys = {"jobs"}
  DefinitionKey = "kartas"
  Causes = {"unresolved_owner"}
  SourceErrors = {"permission_denied"}
  Budgets <- MCBudgets
INVARIANTS
  StopsInOrder
  StopIsExplained
  ScrapeIsExact
PROPERTIES
  StopsWhenAsked
CHECK_DEADLOCK FALSE
