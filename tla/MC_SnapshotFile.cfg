SPECIFICATION Spec
CONSTANTS
  Base = 2
  NumberCount = 4
  IntHalf = 8
  SizeSpace = 32
  ByteSpace = 8
  MaxMemory = 3
  Lines = {"vm", "v", ""}
  EmptyLine = ""
  PageTables = {"table1", "table2"}
  Objects <- MCObjects
  NoBreak = NoBreak
  Unreadable = Unreadable
  None = None
INVARIANTS
  WholeFileRestores
  TornNumbersAreAPrefix
  TornMemoryIsAPrefix
