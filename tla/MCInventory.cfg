SPECIFICATION MCSpec
CONSTANTS
  Names = {1, 2, 3}
  Kinds = {"train", "serve"}
  Kartas <- MCKartas
  NoKarta = NoKarta
  Included = {1, 2}
  CatalogKinds = {"serve"}
  MaxEdits = 1
  MaxFailures = 1
INVARIANTS
  TypeOK
  HealthyMeansFresh
  ClusterMatchesPosition
  ElectionOrderIndependent
  NoChangeLost
PROPERTIES
  ImplementsSource
  EventuallyCommitted
CHECK_DEADLOCK FALSE
