SPECIFICATION Spec
CONSTANTS
  Width = 2
  Registers = {0, 1}
  fileA = fileA
  fileB = fileB
  Programs <- MCPrograms
  Slices = {0, 1, 2}
  Files = {fileA, fileB}
  Saved <- MCSaved
  Absent = Absent
  NoSnapshot = NoSnapshot
  CommandLines <- MCCommandLines
CHECK_DEADLOCK FALSE
INVARIANTS
  MachinesIsolated
  SlicesAlternate
  FinishedMeansAll
  SnapshotGoesToItsVm
PROPERTIES
  LoopEnds
