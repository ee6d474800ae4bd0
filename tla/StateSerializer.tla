--------------------------- MODULE StateSerializer --------------------------
(***************************************************************************)
(* vmm::StateSerializer: the packet of a snapshot, byte by byte, and what  *)
(* the receiver of a packet that was damaged on its way makes of it.       *)
(*                                                                         *)
(* A field of any width is one byte here, and a byte has ByteValues        *)
(* values; the hash is the FNV-1a of the code on a narrower word.  The     *)
(* page table is not in a packet, see VirtualMachine for what that does.   *)
(***************************************************************************)
EXTENDS Integers, Sequences

CONSTANTS
  ByteValues,     \* number of values of a byte, 256 in the code
  RegisterCount,  \* registers of a machine, 32 in the code
  MaxName,        \* bound on the length of a name
  MaxMemory,      \* bound on the bytes of memory
  HashBits,       \* bits of the hash, 32 in the code
  Basis,          \* where the hash starts, 2166136261 in the code
  Prime,          \* what it is multiplied by, 16777619 in the code
  Versions        \* version numbers a packet may carry

PowerOfTwo[n \in 0 .. HashBits] == IF n = 0 THEN 1 ELSE 2 * PowerOfTwo[n - 1]

HashSpace == PowerOfTwo[HashBits]

Byte == 0 .. ByteValues - 1

Hash == 0 .. HashSpace - 1

ASSUME SerializerAssumption ==
  /\ ByteValues \in Nat /\ RegisterCount \in Nat /\ HashBits \in Nat
  /\ MaxName \in Byte /\ MaxMemory \in Byte
  /\ Byte \subseteq Hash
  /\ Basis \in Hash
  /\ Prime \in Nat /\ Prime % 2 = 1
  /\ 1 \in Versions

BytesUpTo(max) == UNION {[1 .. n -> Byte] : n \in 0 .. max}

VmSnapshot ==
  [vmName : BytesUpTo(MaxName), pc : Byte, hi : Byte, lo : Byte,
   regs : [1 .. RegisterCount -> Byte], memoryBytes : BytesUpTo(MaxMemory)]

VARIABLES
  snapshot,  \* what the sender serialized
  packet     \* what the receiver gets

vars == <<snapshot, packet>>

-----------------------------------------------------------------------------

(* The lowest n bits of a ^ b. *)
Xor[n \in 0 .. HashBits] ==
  IF n = 0 THEN [a \in Hash |-> [b \in Hash |-> 0]]
  ELSE [a \in Hash |-> [b \in Hash |->
          ((a + b) % 2) + 2 * Xor[n - 1][a \div 2][b \div 2]]]

(* Mutant: an even multiplier, which forgets the high bits of the hash. *)
MixedEven(hash, b) == (Xor[HashBits][hash][b] * (Prime + 1)) % HashSpace

(* What one byte does to the hash. *)
Mixed(hash, b) == (Xor[HashBits][hash][b] * Prime) % HashSpace

ComputeChecksum(bytes) ==
  LET hash[n \in 0 .. Len(bytes)] ==
        IF n = 0 THEN Basis ELSE Mixed(hash[n - 1], bytes[n])
  IN hash[Len(bytes)]

Payload(s) ==
  <<Len(s.vmName)>> \o s.vmName \o <<s.pc, s.hi, s.lo>> \o s.regs
    \o <<Len(s.memoryBytes)>> \o s.memoryBytes

Serialize(s) ==
  [version |-> 1, payload |-> Payload(s), checksum |-> ComputeChecksum(Payload(s))]

(* The two tests Deserialize makes before it reads the payload. *)
Accepts(p) == p.version = 1 /\ p.checksum = ComputeChecksum(p.payload)

(* The length bytes after the first offset ones. *)
Extract(payload, offset, length) == SubSeq(payload, offset + 1, offset + length)

(* Mutant: lo is read before hi. *)
DeserializeSwapped(p) ==
  LET nameLen == p.payload[1]
      regsAt == nameLen + 4
      memAt == regsAt + RegisterCount + 1
  IN [vmName |-> Extract(p.payload, 1, nameLen),
      pc |-> p.payload[nameLen + 2],
      hi |-> p.payload[nameLen + 4],
      lo |-> p.payload[nameLen + 3],
      regs |-> Extract(p.payload, regsAt, RegisterCount),
      memoryBytes |-> Extract(p.payload, memAt, p.payload[memAt])]

(* What Deserialize reads out of a payload it accepted, field by field. *)
Deserialize(p) ==
  LET nameLen == p.payload[1]
      regsAt == nameLen + 4
      memAt == regsAt + RegisterCount + 1
  IN [vmName |-> Extract(p.payload, 1, nameLen),
      pc |-> p.payload[nameLen + 2],
      hi |-> p.payload[nameLen + 3],
      lo |-> p.payload[nameLen + 4],
      regs |-> Extract(p.payload, regsAt, RegisterCount),
      memoryBytes |-> Extract(p.payload, memAt, p.payload[memAt])]

-----------------------------------------------------------------------------

Init ==
  /\ snapshot \in VmSnapshot
  /\ packet = Serialize(snapshot)

(* One byte of the payload, the checksum or the version changes in transit. *)
Damage ==
  /\ packet = Serialize(snapshot)
  /\ \/ \E k \in DOMAIN packet.payload, b \in Byte :
          packet' = [packet EXCEPT !.payload[k] = b]
     \/ \E h \in Hash : packet' = [packet EXCEPT !.checksum = h]
     \/ \E v \in Versions : packet' = [packet EXCEPT !.version = v]
  /\ UNCHANGED snapshot

(* The packet is sent again. *)
Resend ==
  /\ packet # Serialize(snapshot)
  /\ packet' = Serialize(snapshot)
  /\ UNCHANGED snapshot

Next == Damage \/ Resend

Spec == Init /\ [][Next]_vars

-----------------------------------------------------------------------------

(***************************************************************************)
(* Deserialize undoes Serialize for every name, empty ones included, and   *)
(* for every size of memory: the offsets it computes from the two lengths  *)
(* in the payload are those Serialize wrote at.                            *)
(***************************************************************************)
RoundTrip ==
  packet = Serialize(snapshot) => Accepts(packet) /\ Deserialize(packet) = snapshot

(***************************************************************************)
(* A packet that differs in one byte of its payload, in its checksum or in *)
(* its version from the one that was sent is rejected: xor with a byte and *)
(* multiplication by an odd number are both one-to-one, so a difference in *)
(* the hash is never lost again.  Damage of several bytes may collide.     *)
(***************************************************************************)
DamageRejected == packet # Serialize(snapshot) => ~Accepts(packet)

=============================================================================
