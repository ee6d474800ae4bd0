------------------------ MODULE VirtualMemoryProofs -------------------------
(***************************************************************************)
(* Proofs about VirtualMemory, for memories, pages, words and address      *)
(* spaces of every size: its types, the coherence of the TLB, and that the *)
(* TLB never shows, a refinement of PagedMemory.                           *)
(***************************************************************************)
EXTENDS VirtualMemory, TLAPS

(* The invariant of the proofs.  It is inductive: no other part is needed. *)
IInv == TypeOK /\ TlbCoherent

-----------------------------------------------------------------------------

(* Every virtual address lies in a page the maps are defined on. *)
LEMMA PageOfAddress ==
  ASSUME NEW a \in Addr
  PROVE  VirtualPage(a) \in VirtualPages
<1>1. /\ PageSize \in Nat \ {0} /\ AddrSpace \in Nat \ {0}
      /\ a \in Nat /\ a <= AddrSpace - 1
  BY MemoryAssumption DEF Addr
<1>2. a \div PageSize \in Nat /\ a \div PageSize <= (AddrSpace - 1) \div PageSize
  BY <1>1
<1> QED
  BY <1>1, <1>2 DEF VirtualPage, VirtualPages

(* The entry Translate works with is an entry of one of the two maps. *)
LEMMA PageOfType ==
  ASSUME TypeOK, NEW vp \in VirtualPages
  PROVE  PageOf(vp) \in PhysicalPages \cup {Unmapped}
BY DEF TypeOK, Mapping, PageOf

(* A translation that succeeds designates a word inside the store. *)
LEMMA TranslatedInStore ==
  ASSUME TypeOK, NEW a \in Addr, Translate(a) = "None"
  PROVE  /\ PhysicalAddr(a) \in Nat
         /\ \A j \in 0 .. WordSize - 1 : PhysicalAddr(a) + j \in DOMAIN bytes
<1>1. PageOf(VirtualPage(a)) \in Nat
  BY PageOfType, PageOfAddress, MemoryAssumption DEF Translate
<1>2. a % PageSize \in Nat
  BY MemoryAssumption DEF Addr
<1>3. PageOf(VirtualPage(a)) * PageSize + (a % PageSize) \in Nat
  BY <1>1, <1>2, MemoryAssumption
<1>4. PhysicalAddr(a) \in Nat
  BY <1>3, MemoryAssumption DEF PhysicalAddr
<1>5. PhysicalAddr(a) + WordSize - 1 \in DOMAIN bytes
  BY DEF Translate
<1>6. PICK n \in Nat : bytes \in [0 .. n - 1 -> Byte]
  BY MemoryAssumption DEF TypeOK, Image
<1> QED
  BY <1>4, <1>5, <1>6, MemoryAssumption

(* Translate returns one of the two faults or none. *)
LEMMA TranslateResult ==
  ASSUME NEW a \in Addr
  PROVE  Translate(a) \in {"None", "PageFault", "AddressOutOfRange"}
BY DEF Translate

(* What CacheTranslation does to the TLB. *)
LEMMA CacheTranslationKeeps ==
  ASSUME IInv, NEW a \in Addr, CacheTranslation(a), UNCHANGED pageTable
  PROVE  tlb' \in Mapping /\ TlbCoherent'
<1>1. VirtualPage(a) \in VirtualPages
  BY PageOfAddress
<1>2. PageOf(VirtualPage(a)) \in PhysicalPages \cup {Unmapped}
  BY <1>1, PageOfType DEF IInv
<1>3. PageOf(VirtualPage(a)) = pageTable[VirtualPage(a)]
  BY <1>1 DEF IInv, TlbCoherent, PageOf
<1> QED
  BY <1>1, <1>2, <1>3 DEF IInv, TypeOK, Mapping, CacheTranslation, TlbCoherent

-----------------------------------------------------------------------------

LEMMA InitIInv == Init => IInv
<1> SUFFICES ASSUME Init PROVE IInv
  OBVIOUS
<1>1. pageTable \in Mapping
  <2> SUFFICES ASSUME NEW vp \in VirtualPages
               PROVE  (IF vp < PageCount THEN vp ELSE Unmapped)
                        \in PhysicalPages \cup {Unmapped}
    BY DEF Init, Mapping
  <2>1. AddrSpace \in Nat \ {0} /\ PageSize \in Nat \ {0} /\ MemBytes \in Nat
    BY MemoryAssumption
  <2>2. PageCount \in Int /\ (AddrSpace - 1) \div PageSize \in Int
    BY <2>1 DEF PageCount
  <2>3. vp \in Nat
    BY <2>2 DEF VirtualPages
  <2> QED
    BY <2>2, <2>3, MemoryAssumption
<1>2. bytes \in Image
  BY MemoryAssumption DEF Init, Image
<1>3. tlb \in Mapping
  BY DEF Init, Empty, Mapping
<1>4. reply \in Reply
  BY DEF Init, NoReply, Reply
<1>5. TlbCoherent
  BY DEF Init, Empty, TlbCoherent
<1> QED
  BY <1>1, <1>2, <1>3, <1>4, <1>5 DEF IInv, TypeOK

LEMMA NextIInv == IInv /\ [Next]_vars => IInv'
<1> SUFFICES ASSUME IInv, [Next]_vars PROVE IInv'
  OBVIOUS
<1> USE DEF IInv, TypeOK
<1>1. ASSUME NEW a \in Addr, ReadWord(a) PROVE IInv'
  <2>1. tlb' \in Mapping /\ TlbCoherent'
    BY <1>1, CacheTranslationKeeps DEF ReadWord
  <2>2. reply' \in Reply
    <3>1. CASE Translate(a) = "None"
      <4>1. \A j \in 0 .. WordSize - 1 : PhysicalAddr(a) + j \in DOMAIN bytes
        BY <3>1, TranslatedInStore
      <4>2. \A b \in DOMAIN bytes : bytes[b] \in Byte
        BY DEF Image
      <4>3. [j \in 0 .. WordSize - 1 |-> bytes[PhysicalAddr(a) + j]] \in Word
        BY <4>1, <4>2 DEF Word
      <4> QED
        BY <1>1, <3>1, <4>3 DEF ReadWord, Reply
    <3>2. CASE Translate(a) # "None"
      BY <1>1, <3>2, TranslateResult DEF ReadWord, Reply
    <3> QED
      BY <3>1, <3>2
  <2> QED
    BY <1>1, <2>1, <2>2 DEF ReadWord
<1>2. ASSUME NEW a \in Addr, NEW w \in Word, WriteWord(a, w) PROVE IInv'
  <2>1. tlb' \in Mapping /\ TlbCoherent'
    BY <1>2, CacheTranslationKeeps DEF WriteWord
  <2>2. CASE Translate(a) = "None"
    <3>1. PhysicalAddr(a) \in Nat
      BY <2>2, TranslatedInStore
    <3>2. \A b \in Int :
            b \in PhysicalAddr(a) .. PhysicalAddr(a) + WordSize - 1
              => b - PhysicalAddr(a) \in 0 .. WordSize - 1
      BY <3>1, MemoryAssumption
    <3>3. bytes' \in Image
      <4>1. PICK n \in Sizes : bytes \in [0 .. n - 1 -> Byte]
        BY DEF Image
      <4>2. bytes' \in [0 .. n - 1 -> Byte]
        BY <1>2, <2>2, <3>2, <4>1, MemoryAssumption DEF WriteWord, Word
      <4> QED
        BY <4>2 DEF Image
    <3>4. reply' \in Reply
      BY <1>2, <2>2 DEF WriteWord, Reply
    <3> QED
      BY <1>2, <2>1, <3>3, <3>4 DEF WriteWord
  <2>3. CASE Translate(a) # "None"
    BY <1>2, <2>1, <2>3, TranslateResult DEF WriteWord, Reply
  <2> QED
    BY <2>2, <2>3
<1>3. ASSUME NEW vp \in VirtualPages, NEW pp \in PhysicalPages, MapPage(vp, pp)
      PROVE  IInv'
  BY <1>3 DEF MapPage, Mapping, NoReply, Reply, TlbCoherent
<1>4. ASSUME NEW table \in Tables, RestorePageTable(table) PROVE IInv'
  BY <1>4, MemoryAssumption DEF RestorePageTable, Empty, Mapping, NoReply, Reply, TlbCoherent
<1>5. ASSUME NEW image \in Images, AssignBytes(image) PROVE IInv'
  BY <1>5, MemoryAssumption DEF AssignBytes, NoReply, Reply, TlbCoherent
<1>6. CASE UNCHANGED vars
  BY <1>6 DEF vars, TlbCoherent
<1> QED
  BY <1>1, <1>2, <1>3, <1>4, <1>5, <1>6 DEF Next

(* The invariant of the proofs holds in every reachable state. *)
THEOREM Inductive == Spec => []IInv
<1>1. Init => IInv
  BY InitIInv
<1>2. IInv /\ [Next]_vars => IInv'
  BY NextIInv
<1> QED
  BY <1>1, <1>2, PTL DEF Spec

(* Every read and write of VirtualMemory stays within the types. *)
THEOREM TypeCorrect == Spec => []TypeOK
<1>1. IInv => TypeOK
  BY DEF IInv
<1> QED
  BY <1>1, Inductive, PTL

(* No operation leaves a translation in tlb_ that pageTable_ lacks. *)
THEOREM Coherent == Spec => []TlbCoherent
<1>1. IInv => TlbCoherent
  BY DEF IInv
<1> QED
  BY <1>1, Inductive, PTL

-----------------------------------------------------------------------------

(* With a coherent TLB Translate finds what the page table alone gives. *)
LEMMA TranslationAgrees ==
  ASSUME IInv, NEW a \in Addr
  PROVE  /\ Translate(a) = Paged!FaultOf(a)
         /\ Translate(a) = "None" => PhysicalAddr(a) = Paged!Place(a)
<1>1. PageOf(VirtualPage(a)) = pageTable[VirtualPage(a)]
  BY PageOfAddress DEF IInv, TlbCoherent, PageOf
<1>2. PhysicalAddr(a) = Paged!Place(a)
  BY <1>1 DEF PhysicalAddr, Paged!Place, VirtualPage
<1> QED
  BY <1>1, <1>2 DEF Translate, Paged!FaultOf, VirtualPage

LEMMA InitPaged == Init => Paged!AbsInit
BY InitIInv DEF Init, IInv, TypeOK, Image, Mapping, VirtualPages, NoReply,
   Paged!AbsInit, Paged!Image, Paged!Mapping, Paged!Pages, Paged!NoAnswer

LEMMA StepPaged == IInv /\ [Next]_vars => [Paged!AbsNext]_(Paged!absVars)
<1> SUFFICES ASSUME IInv, [Next]_vars PROVE [Paged!AbsNext]_(Paged!absVars)
  OBVIOUS
<1>1. ASSUME NEW a \in Addr, ReadWord(a) PROVE Paged!AbsNext
  <2>1. Paged!Read(a)
    BY <1>1, TranslationAgrees
    DEF ReadWord, Paged!Read, Paged!Done, Paged!Failed, Paged!WordAt
  <2> QED
    BY <2>1 DEF Paged!AbsNext, Addr, Paged!Addr
<1>2. ASSUME NEW a \in Addr, NEW w \in Word, WriteWord(a, w) PROVE Paged!AbsNext
  <2>1. CASE Translate(a) = "None"
    <3>1. bytes' = Paged!Patched(PhysicalAddr(a), w)
      BY <1>2, <2>1 DEF WriteWord, Paged!Patched
    <3> QED
      BY <1>2, <2>1, <3>1, TranslationAgrees
      DEF WriteWord, Paged!Write, Paged!Done, Paged!AbsNext, Addr, Paged!Addr,
          Word, Paged!Word
  <2>2. CASE Translate(a) # "None"
    BY <1>2, <2>2, TranslationAgrees
    DEF WriteWord, Paged!Write, Paged!Failed, Paged!AbsNext, Addr, Paged!Addr,
        Word, Paged!Word
  <2> QED
    BY <2>1, <2>2
<1>3. ASSUME NEW vp \in VirtualPages, NEW pp \in PhysicalPages, MapPage(vp, pp)
      PROVE  Paged!AbsNext
  BY <1>3 DEF MapPage, NoReply, VirtualPages, Paged!AbsNext, Paged!Map,
     Paged!NoAnswer, Paged!Pages
<1>4. ASSUME NEW table \in Tables, RestorePageTable(table) PROVE Paged!AbsNext
  BY <1>4, MemoryAssumption
  DEF RestorePageTable, NoReply, Mapping, VirtualPages, Paged!AbsNext,
      Paged!ReplaceTable, Paged!NoAnswer, Paged!Mapping, Paged!Pages
<1>5. ASSUME NEW image \in Images, AssignBytes(image) PROVE Paged!AbsNext
  BY <1>5, MemoryAssumption
  DEF AssignBytes, NoReply, Image, Paged!AbsNext, Paged!ReplaceStore,
      Paged!NoAnswer, Paged!Image
<1>6. CASE UNCHANGED vars
  BY <1>6 DEF vars, Paged!absVars
<1> QED
  BY <1>1, <1>2, <1>3, <1>4, <1>5, <1>6 DEF Next

(* ReadWord and WriteWord answer as if there were no TLB. *)
THEOREM Transparent == Spec => TlbTransparent
<1>1. Init => Paged!AbsInit
  BY InitPaged
<1>2. IInv /\ [Next]_vars => [Paged!AbsNext]_(Paged!absVars)
  BY StepPaged
<1> QED
  BY <1>1, <1>2, Inductive, PTL DEF Spec, TlbTransparent, Paged!AbsSpec

-----------------------------------------------------------------------------
(* Words at virtual addresses. *)

(* Division by the size of a page: the page and the offset of an address. *)
LEMMA PageAndOffset ==
  ASSUME NEW v \in Nat
  PROVE  /\ VirtualPage(v) \in Nat /\ v % PageSize \in 0 .. PageSize - 1
         /\ v = PageSize * VirtualPage(v) + (v % PageSize)
BY MemoryAssumption DEF VirtualPage

LEMMA PageIs ==
  ASSUME NEW v, NEW k \in Int, NEW o \in 0 .. PageSize - 1, v = PageSize * k + o
  PROVE  VirtualPage(v) = k /\ v % PageSize = o
<1>1. PageSize \in Nat \ {0}
  BY MemoryAssumption
<1>2. (PageSize * k + o) \div PageSize = k /\ (PageSize * k + o) % PageSize = o
  BY <1>1
<1> QED
  BY <1>2 DEF VirtualPage

(***************************************************************************)
(* The bytes of a word whose pages are adjacent in the store lie one after *)
(* another in it, from the translation of the first one on.                *)
(***************************************************************************)
LEMMA WordInStore ==
  ASSUME TypeOK, NEW a \in Addr, Paged!FaultOf(a) = "None", Contiguous(a),
         NEW j \in 0 .. WordSize - 1
  PROVE  VirtualByte(a + j) = bytes[Paged!Place(a) + j]
<1> DEFINE first == VirtualPage(a)
           last == VirtualPage(a + WordSize - 1)
           o == a % PageSize
           f == pageTable[first]
           l == pageTable[last]
<1>1. /\ PageSize \in Nat \ {0} /\ WordSize \in 1 .. PageSize
      /\ AddrSpace \in Nat \ {0}
  BY MemoryAssumption
<1>2. /\ a \in Nat /\ a + WordSize <= AddrSpace
      /\ a + WordSize - 1 \in Addr /\ a + WordSize - 1 \in Nat
  BY <1>1 DEF Contiguous, Addr
<1>3. /\ first \in Nat /\ o \in 0 .. PageSize - 1 /\ a = PageSize * first + o
  BY <1>2, PageAndOffset
<1>4. first \in VirtualPages /\ last \in VirtualPages
  BY <1>2, PageOfAddress
<1>5. f \in Nat /\ l \in Nat /\ l - f = last - first /\ (l + 1) * PageSize <= AddrSpace
  <2>1. f # Unmapped /\ l # Unmapped /\ l - f = last - first /\ (l + 1) * PageSize <= AddrSpace
    BY DEF Contiguous, Paged!FaultOf, VirtualPage
  <2>2. f \in PhysicalPages /\ l \in PhysicalPages
    BY <1>4, <2>1 DEF TypeOK, Mapping
  <2> QED
    BY <2>1, <2>2, MemoryAssumption
<1>6. last \in {first, first + 1} /\ (o + j >= PageSize => last = first + 1)
  <2>1. CASE o + WordSize - 1 < PageSize
    <3>1. a + WordSize - 1 = PageSize * first + (o + WordSize - 1)
      BY <1>1, <1>3
    <3>2. o + WordSize - 1 \in 0 .. PageSize - 1
      BY <1>1, <1>3, <2>1
    <3>3. last = first
      BY <1>3, <3>1, <3>2, PageIs
    <3> QED
      BY <1>1, <1>3, <2>1, <3>3
  <2>2. CASE o + WordSize - 1 >= PageSize
    <3>1. a + WordSize - 1 = PageSize * (first + 1) + (o + WordSize - 1 - PageSize)
      BY <1>1, <1>3
    <3>2. o + WordSize - 1 - PageSize \in 0 .. PageSize - 1 /\ first + 1 \in Int
      BY <1>1, <1>3, <2>2
    <3>3. last = first + 1
      BY <3>1, <3>2, PageIs
    <3> QED
      BY <3>3
  <2> QED
    BY <1>1, <1>3, <2>1, <2>2
<1> HIDE DEF first, last, o, f, l
<1>7. Paged!Place(a) = f * PageSize + o
  <2>1. PICK p \in Nat : p = f * PageSize
    BY <1>1, <1>5
  <2>2. p + PageSize <= AddrSpace
    <3>1. f <= l /\ f * PageSize <= l * PageSize
      <4>1. f <= l
        BY <1>3, <1>5, <1>6
      <4> QED
        BY <1>1, <1>5, <4>1
    <3>2. (l + 1) * PageSize = l * PageSize + PageSize
      BY <1>1, <1>5
    <3> QED
      BY <1>1, <1>5, <2>1, <3>1, <3>2
  <2>3. p + o \in 0 .. AddrSpace - 1
    BY <1>1, <1>3, <2>2
  <2>4. (p + o) % AddrSpace = p + o
    BY <1>1, <2>3
  <2> QED
    BY <2>1, <2>4 DEF Paged!Place, f, first, o, VirtualPage
<1>8. Paged!Place(a) + j \in DOMAIN bytes
  <2>1. Paged!Place(a) + WordSize - 1 \in DOMAIN bytes
    BY DEF Paged!FaultOf
  <2>2. Paged!Place(a) \in Nat
    BY <1>1, <1>3, <1>5, <1>7
  <2>3. PICK n \in Nat : bytes \in [0 .. n - 1 -> Byte]
    BY MemoryAssumption DEF TypeOK, Image
  <2> QED
    BY <1>1, <2>1, <2>2, <2>3
<1>9. PICK p \in Nat : p = f * PageSize
  BY <1>1, <1>5
<1>10. CASE o + j < PageSize
  <2>1. a + j = PageSize * first + (o + j)
    BY <1>1, <1>3
  <2>2. VirtualPage(a + j) = first /\ (a + j) % PageSize = o + j
    <3>1. o + j \in 0 .. PageSize - 1
      BY <1>1, <1>3, <1>10
    <3> QED
      BY <1>3, <2>1, <3>1, PageIs
  <2>3. f * PageSize + (o + j) = Paged!Place(a) + j
    BY <1>1, <1>3, <1>7, <1>9
  <2>4. f # Unmapped
    BY DEF f, first, VirtualPage, Paged!FaultOf
  <2> QED
    BY <1>8, <2>2, <2>3, <2>4 DEF VirtualByte, f
<1>11. CASE o + j >= PageSize
  <2>1. a + j = PageSize * (first + 1) + (o + j - PageSize)
    BY <1>1, <1>3
  <2>2. VirtualPage(a + j) = last /\ (a + j) % PageSize = o + j - PageSize
    <3>1. o + j - PageSize \in 0 .. PageSize - 1 /\ first + 1 \in Int /\ last = first + 1
      BY <1>1, <1>3, <1>6, <1>11
    <3> QED
      BY <2>1, <3>1, PageIs
  <2>3. l * PageSize = p + PageSize
    <3>1. l = f + 1
      BY <1>3, <1>5, <1>6, <1>11
    <3> QED
      BY <1>1, <1>5, <1>9, <3>1
  <2>4. l * PageSize + (o + j - PageSize) = Paged!Place(a) + j
    BY <1>1, <1>3, <1>7, <1>9, <2>3
  <2>5. l # Unmapped
    BY DEF l, last, Contiguous
  <2> QED
    BY <1>8, <2>2, <2>4, <2>5 DEF VirtualByte, l
<1> QED
  BY <1>1, <1>3, <1>10, <1>11

(* The last word moved is where the page table alone would put it. *)
WordInv ==
  reply.fault = "None" =>
    /\ reply.addr \in Addr
    /\ Paged!FaultOf(reply.addr) = "None"
    /\ \A j \in 0 .. WordSize - 1 : bytes[Paged!Place(reply.addr) + j] = reply.word[j]

LEMMA WordStep == IInv /\ WordInv /\ [Next]_vars => WordInv'
<1> SUFFICES ASSUME IInv, WordInv, [Next]_vars PROVE WordInv'
  OBVIOUS
<1>1. ASSUME NEW a \in Addr, ReadWord(a) PROVE WordInv'
  <2>1. CASE Translate(a) = "None"
    <3>1. /\ reply' = [fault |-> "None", addr |-> a,
                       word |-> [j \in 0 .. WordSize - 1 |-> bytes[PhysicalAddr(a) + j]]]
          /\ UNCHANGED <<bytes, pageTable>>
      BY <1>1, <2>1 DEF ReadWord
    <3> QED
      BY <2>1, <3>1, TranslationAgrees DEF WordInv, Paged!FaultOf, Paged!Place
  <2>2. CASE Translate(a) # "None"
    BY <1>1, <2>2 DEF ReadWord, WordInv
  <2> QED
    BY <2>1, <2>2
<1>2. ASSUME NEW a \in Addr, NEW w \in Word, WriteWord(a, w) PROVE WordInv'
  <2>1. CASE Translate(a) = "None"
    <3> DEFINE p == PhysicalAddr(a)
    <3>1. /\ reply' = [fault |-> "None", addr |-> a, word |-> w]
          /\ UNCHANGED pageTable
          /\ bytes' = [b \in DOMAIN bytes |->
               IF b \in p .. p + WordSize - 1 THEN w[b - p] ELSE bytes[b]]
      BY <1>2, <2>1 DEF WriteWord
    <3>2. p \in Nat /\ \A j \in 0 .. WordSize - 1 : p + j \in DOMAIN bytes
      BY <2>1, TranslatedInStore DEF IInv
    <3> HIDE DEF p
    <3>3. ASSUME NEW j \in 0 .. WordSize - 1
          PROVE  bytes'[p + j] = w[j]
      <4>1. /\ p + j \in DOMAIN bytes /\ p + j \in p .. p + WordSize - 1
            /\ (p + j) - p = j
        BY <3>2, MemoryAssumption
      <4> QED
        BY <3>1, <4>1
    <3>4. Paged!FaultOf(a) = "None" /\ Paged!Place(a) = p
      BY <2>1, TranslationAgrees DEF p
    <3>5. Paged!FaultOf(a)' = "None" /\ Paged!Place(a)' = p
      BY <3>1, <3>4 DEF Paged!FaultOf, Paged!Place
    <3> QED
      BY <3>1, <3>3, <3>5 DEF WordInv, Paged!FaultOf, Paged!Place
  <2>2. CASE Translate(a) # "None"
    BY <1>2, <2>2 DEF WriteWord, WordInv
  <2> QED
    BY <2>1, <2>2
<1>3. CASE reply' = NoReply
  BY <1>3 DEF NoReply, WordInv
<1>4. CASE UNCHANGED vars
  BY <1>4 DEF vars, WordInv, Paged!FaultOf, Paged!Place
<1> QED
  BY <1>1, <1>2, <1>3, <1>4 DEF Next, MapPage, RestorePageTable, AssignBytes

(***************************************************************************)
(* The word a lw or sw moves is the one the page table shows at its        *)
(* virtual address, byte by byte, also across the end of a page.           *)
(***************************************************************************)
THEOREM WordSeen == Spec => []WordSeenAtItsAddress
<1>1. Init => WordInv
  BY DEF Init, NoReply, WordInv
<1>2. IInv /\ WordInv => WordSeenAtItsAddress
  BY WordInStore DEF IInv, WordInv, WordSeenAtItsAddress
<1> QED
  BY <1>1, <1>2, WordStep, Inductive, PTL DEF Spec

=============================================================================
