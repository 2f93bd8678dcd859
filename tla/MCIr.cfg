SPECIFICATION Spec
CONSTANTS
  Programs <- MCPrograms
  Store <- MCStore
  MaxSteps = 1000
  MaxWord = 99
  Refused <- MCRefused
  Misnumbered <- MCMisnumbered
INVARIANTS
  AgreesWithIcon
  FoldingKeepsMeaning
  NoStaleSlot
  NoLostFrame
  TranslatorAccepts
CHECK_DEADLOCK FALSE
