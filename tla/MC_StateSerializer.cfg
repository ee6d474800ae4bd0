SPECIFICATION Spec
CONSTANTS
  ByteValues = 3
  RegisterCount = 1
  MaxName = 2
  MaxMemory = 2
  HashBits = 4
  Basis = 5
  Prime = 3
  Versions = {1, 2}
INVARIANTS
  RoundTrip
  DamageRejected
