SPECIFICATION Spec
CONSTANTS
  PageSize = 2
  WordSize = 2
  AddrSpace = 6
  MemBytes = 3
  Sizes = {2, 3, 5}
  Byte = {0, 1}
  Zero = 0
  PhysicalPages = {0, 1, 2, 3}
  Unmapped = Unmapped
  Tables <- MCTables
  Images <- MCImages
INVARIANTS
  TlbCoherent
  WordSeenAtItsAddress
PROPERTIES
  TlbTransparent
