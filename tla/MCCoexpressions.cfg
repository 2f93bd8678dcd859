SPECIFICATION Spec
CONSTANTS
  MaxCoexprs = 3
  MaxDepth = 2
  MaxScopes = 2
  Loads = 0
INVARIANTS
  TypeOK
  ActivatorReady
  NeverCrashes
  ResultInScope
  ErrorIsFinal
  Lineage
CHECK_DEADLOCK FALSE
