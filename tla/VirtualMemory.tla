--------------------------- MODULE VirtualMemory ---------------------------
(***************************************************************************)
(* vmm::VirtualMemory: a backing store of bytes, a page table and a TLB    *)
(* that caches translations.  Each public operation is an action; reply    *)
(* holds what the last access returned to its caller.                      *)
(*                                                                         *)
(* The unordered_maps are functions that are Unmapped where the map has no *)
(* entry.  Words are the sequences of bytes memcpy moves.                  *)
(***************************************************************************)
EXTENDS Integers

CONSTANTS
  PageSize,       \* kPageSize, 4096 in the code
  WordSize,       \* sizeof(int32_t), 4 in the code
  AddrSpace,      \* number of values of uint32_t, 2^32 in the code
  MemBytes,       \* the size the constructor is given
  Sizes,          \* the sizes bytes_ may take
  Byte,           \* values of a byte
  Zero,           \* the byte 0
  PhysicalPages,  \* physical page numbers a page table may hold
  Unmapped,       \* no entry in a map
  Tables,         \* page tables RestorePageTable is called with
  Images          \* byte vectors assigned through Bytes()

VirtualPages == 0 .. (AddrSpace - 1) \div PageSize

(* The pages the constructor maps: memory sizes are rounded up to pages. *)
PageCount == (MemBytes + PageSize - 1) \div PageSize

Addr == 0 .. AddrSpace - 1
Word == [0 .. WordSize - 1 -> Byte]
Image == UNION {[0 .. n - 1 -> Byte] : n \in Sizes}
Mapping == [VirtualPages -> PhysicalPages \cup {Unmapped}]

ASSUME MemoryAssumption ==
  /\ PageSize \in Nat \ {0}
  /\ WordSize \in 1 .. PageSize
  /\ AddrSpace \in Nat \ {0}
  /\ Sizes \subseteq Nat
  /\ MemBytes \in Sizes
  /\ Zero \in Byte
  /\ PhysicalPages \subseteq Nat
  /\ 0 .. PageCount - 1 \subseteq PhysicalPages
  /\ Unmapped \notin PhysicalPages
  /\ Tables \subseteq Mapping
  /\ Images \subseteq Image

VARIABLES
  bytes,      \* bytes_
  pageTable,  \* pageTable_
  tlb,        \* tlb_
  reply       \* fault or address and word of the last ReadWord or WriteWord

vars == <<bytes, pageTable, tlb, reply>>

NoReply == [fault |-> "NoCall"]
Reply ==
  [fault : {"NoCall", "PageFault", "AddressOutOfRange"}]
    \cup [fault : {"None"}, addr : Addr, word : Word]

TypeOK ==
  /\ bytes \in Image
  /\ pageTable \in Mapping
  /\ tlb \in Mapping
  /\ reply \in Reply

Empty == [vp \in VirtualPages |-> Unmapped]

(* The constructor: zeroed memory, the identity on the pages it covers. *)
Init ==
  /\ bytes = [b \in 0 .. MemBytes - 1 |-> Zero]
  /\ pageTable = [vp \in VirtualPages |-> IF vp < PageCount THEN vp ELSE Unmapped]
  /\ tlb = Empty
  /\ reply = NoReply

-----------------------------------------------------------------------------

VirtualPage(a) == a \div PageSize

(* The page Translate works with: the TLB's, else the page table's. *)
PageOf(vp) == IF tlb[vp] # Unmapped THEN tlb[vp] ELSE pageTable[vp]

(* Mutant: the offset within the page is forgotten. *)
PageBaseAddr(a) == (PageOf(VirtualPage(a)) * PageSize) % AddrSpace

(* uint32_t arithmetic, so the sum wraps. *)
PhysicalAddr(a) == (PageOf(VirtualPage(a)) * PageSize + (a % PageSize)) % AddrSpace

(* Translate: its fault, "None" when it returns true.  A word fits if its last *)
(* byte does: the store is as large as the vector is at this moment.          *)
Translate(a) ==
  IF PageOf(VirtualPage(a)) = Unmapped THEN "PageFault"
  ELSE IF PhysicalAddr(a) + WordSize - 1 \notin DOMAIN bytes THEN "AddressOutOfRange"
  ELSE "None"

(* Translate caches the entry it found, even if the address is then refused. *)
CacheTranslation(a) ==
  tlb' = [tlb EXCEPT ![VirtualPage(a)] = PageOf(VirtualPage(a))]

ReadWord(a) ==
  /\ reply' = IF Translate(a) = "None"
              THEN [fault |-> "None", addr |-> a,
                    word |-> [j \in 0 .. WordSize - 1 |-> bytes[PhysicalAddr(a) + j]]]
              ELSE [fault |-> Translate(a)]
  /\ CacheTranslation(a)
  /\ UNCHANGED <<bytes, pageTable>>

WriteWord(a, w) ==
  /\ \/ /\ Translate(a) = "None"
        /\ bytes' = [b \in DOMAIN bytes |->
             IF b \in PhysicalAddr(a) .. PhysicalAddr(a) + WordSize - 1
             THEN w[b - PhysicalAddr(a)] ELSE bytes[b]]
        /\ reply' = [fault |-> "None", addr |-> a, word |-> w]
     \/ /\ Translate(a) # "None"
        /\ reply' = [fault |-> Translate(a)]
        /\ UNCHANGED bytes
  /\ CacheTranslation(a)
  /\ UNCHANGED pageTable

(* Mutant: the TLB is not written through. *)
MapPageOnly(vp, pp) ==
  /\ pageTable' = [pageTable EXCEPT ![vp] = pp]
  /\ reply' = NoReply
  /\ UNCHANGED <<bytes, tlb>>

MapPage(vp, pp) ==
  /\ pageTable' = [pageTable EXCEPT ![vp] = pp]
  /\ tlb' = [tlb EXCEPT ![vp] = pp]
  /\ reply' = NoReply
  /\ UNCHANGED bytes

(* Mutant: the TLB keeps the translations of the old table. *)
RestorePageTableOnly(table) ==
  /\ pageTable' = table
  /\ reply' = NoReply
  /\ UNCHANGED <<bytes, tlb>>

RestorePageTable(table) ==
  /\ pageTable' = table
  /\ tlb' = Empty
  /\ reply' = NoReply
  /\ UNCHANGED bytes

(* An assignment through Bytes(), as VirtualMachine::Restore makes one: the     *)
(* vector takes the size of what is assigned; the page table keeps its entries. *)
AssignBytes(image) ==
  /\ bytes' = image
  /\ reply' = NoReply
  /\ UNCHANGED <<pageTable, tlb>>

Next ==
  \/ \E a \in Addr : ReadWord(a)
  \/ \E a \in Addr, w \in Word : WriteWord(a, w)
  \/ \E vp \in VirtualPages, pp \in PhysicalPages : MapPage(vp, pp)
  \/ \E table \in Tables : RestorePageTable(table)
  \/ \E image \in Images : AssignBytes(image)

Spec == Init /\ [][Next]_vars

-----------------------------------------------------------------------------

(***************************************************************************)
(* A cached translation is the page table's: MapPage writes through and    *)
(* RestorePageTable clears the TLB, so no access uses a stale page.        *)
(***************************************************************************)
TlbCoherent ==
  \A vp \in VirtualPages : tlb[vp] # Unmapped => tlb[vp] = pageTable[vp]

(***************************************************************************)
(* The TLB is invisible: every answer and every effect is one the page     *)
(* table alone would give.                                                 *)
(***************************************************************************)
Paged ==
  INSTANCE PagedMemory WITH store <- bytes, table <- pageTable, answer <- reply

TlbTransparent == Paged!AbsSpec

(***************************************************************************)
(* The byte a machine sees at a virtual address, NoByte where it sees none.*)
(***************************************************************************)
NoByte == [fault |-> "NoByte"]

VirtualByte(v) ==
  LET page == pageTable[VirtualPage(v)]
      place == page * PageSize + (v % PageSize)
  IN IF page # Unmapped /\ place \in DOMAIN bytes THEN bytes[place] ELSE NoByte

(***************************************************************************)
(* lw and sw operate on virtual addresses: the word an access reads or     *)
(* leaves at an address is what the page table shows there, byte by byte.  *)
(* Translate translates only the first byte, so a word that straddles two  *)
(* pages needs them to be adjacent in the backing store, as the constructor*)
(* maps them; and it computes in uint32_t, so the page must lie below 2^32.*)
(***************************************************************************)
Contiguous(a) ==
  LET first == VirtualPage(a)
      last == VirtualPage(a + WordSize - 1)
  IN /\ a + WordSize <= AddrSpace
     /\ pageTable[last] # Unmapped
     /\ pageTable[last] - pageTable[first] = last - first
     /\ (pageTable[last] + 1) * PageSize <= AddrSpace

WordSeenAtItsAddress ==
  reply.fault = "None" /\ Contiguous(reply.addr) =>
    \A j \in 0 .. WordSize - 1 : VirtualByte(reply.addr + j) = reply.word[j]

=============================================================================
