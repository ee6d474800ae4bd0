---------------------------- MODULE PagedMemory ----------------------------
(***************************************************************************)
(* What docs/memory-virtualization.md promises of a machine's memory: a    *)
(* backing store reached through a page table.  There is no TLB here.      *)
(* VirtualMemory implements it.                                            *)
(***************************************************************************)
EXTENDS Integers

CONSTANTS
  PageSize, WordSize, AddrSpace, Byte, PhysicalPages, Unmapped,
  Sizes   \* the sizes the store may have

VARIABLES store, table, answer

absVars == <<store, table, answer>>

Addr == 0 .. AddrSpace - 1
Pages == 0 .. (AddrSpace - 1) \div PageSize
Word == [0 .. WordSize - 1 -> Byte]
Mapping == [Pages -> PhysicalPages \cup {Unmapped}]
Image == UNION {[0 .. n - 1 -> Byte] : n \in Sizes}

(* The fault of an access to a, "None" if it succeeds at address Place(a). *)
Place(a) ==
  (table[a \div PageSize] * PageSize + (a % PageSize)) % AddrSpace

FaultOf(a) ==
  IF table[a \div PageSize] = Unmapped THEN "PageFault"
  ELSE IF Place(a) + WordSize - 1 \notin DOMAIN store THEN "AddressOutOfRange"
  ELSE "None"

WordAt(p) == [j \in 0 .. WordSize - 1 |-> store[p + j]]

Patched(p, w) ==
  [b \in DOMAIN store |-> IF b \in p .. p + WordSize - 1 THEN w[b - p] ELSE store[b]]

Failed(a) == [fault |-> FaultOf(a)]
Done(a, w) == [fault |-> "None", addr |-> a, word |-> w]
NoAnswer == [fault |-> "NoCall"]

AbsInit ==
  /\ store \in Image
  /\ table \in Mapping
  /\ answer = NoAnswer

Read(a) ==
  /\ answer' = IF FaultOf(a) = "None" THEN Done(a, WordAt(Place(a))) ELSE Failed(a)
  /\ UNCHANGED <<store, table>>

Write(a, w) ==
  /\ IF FaultOf(a) = "None"
     THEN store' = Patched(Place(a), w) /\ answer' = Done(a, w)
     ELSE store' = store /\ answer' = Failed(a)
  /\ UNCHANGED table

Map(vp, pp) ==
  /\ table' = [table EXCEPT ![vp] = pp]
  /\ answer' = NoAnswer
  /\ UNCHANGED store

ReplaceTable == table' \in Mapping /\ answer' = NoAnswer /\ UNCHANGED store

ReplaceStore == store' \in Image /\ answer' = NoAnswer /\ UNCHANGED table

AbsNext ==
  \/ \E a \in Addr : Read(a) \/ \E w \in Word : Write(a, w)
  \/ \E vp \in Pages, pp \in PhysicalPages : Map(vp, pp)
  \/ ReplaceTable
  \/ ReplaceStore

AbsSpec == AbsInit /\ [][AbsNext]_absVars

=============================================================================
