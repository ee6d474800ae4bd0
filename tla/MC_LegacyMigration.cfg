SPECIFICATION Spec
CONSTANTS
  Width = 3
  Registers = {0, 1}
  Programs <- MCPrograms
  Saved <- MCSaved
  Fragments <- MCFragments
  NoMessage = NoMessage
CHECK_DEADLOCK FALSE
INVARIANTS
  MigrationResumes
  FailureIsHarmless
  ProductIsWhole
  DivisionIsEuclid
PROPERTIES
  NeverOnBothSides
  BothEnd
