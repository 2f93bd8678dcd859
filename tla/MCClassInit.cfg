SPECIFICATION Spec
CONSTANTS
  Class = {1, 2, 3, 4, 5}
  None = None
  Failed = Failed
  Program <- MCProgram
  Coexpr = {e1, e2}
INVARIANTS ResolvedSoundly InitializedOnce
CHECK_DEADLOCK FALSE
