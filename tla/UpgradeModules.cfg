CONSTANTS
  N = 3
  RecursionLimit = 4
SPECIFICATION Spec
INVARIANTS
  DependenciesFirst
  HonestEnd
PROPERTY
  UpgradeEnds
CHECK_DEADLOCK FALSE
