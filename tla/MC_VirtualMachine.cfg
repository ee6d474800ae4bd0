SPECIFICATION Spec
CONSTANTS
  PageSize = 2
  WordSize = 2
  ByteValues = 2
  AddrSpace = 4
  MemBytes = 3
  PhysicalPages = {0, 1}
  Unmapped = Unmapped
  Registers = {0, 1}
  Texts <- MCTexts
  Written <- MCWritten
  NotANumber = NotANumber
  Throws = Throws
  Slice = 2
  Paths = {"direct", "packet", "file"}
CHECK_DEADLOCK FALSE
INVARIANTS
  RestoredContinues
  ParsedAsWritten
PROPERTIES
  OutcomesSuffice
