--------------------------- MODULE VirtualMachine ---------------------------
(***************************************************************************)
(* vmm::VirtualMachine with its data: registers, memory, faults, and the   *)
(* transfer of its state to another machine, by Snapshot and Restore alone *)
(* or through StateSerializer or SnapshotService.  Both are constructed    *)
(* with what ParseProgram makes of a text.                                 *)
(*                                                                         *)
(* A machine is a record.  RunForSlice is one step here: nothing observes  *)
(* a machine in the middle of it, see VmLifecycle for its loop.  Memory is *)
(* that of PagedMemory, which VirtualMemory is proved to implement.        *)
(***************************************************************************)
EXTENDS Integers, Sequences

CONSTANTS
  PageSize, WordSize, AddrSpace, MemBytes, PhysicalPages, Unmapped,
  ByteValues,   \* number of values of a byte; AddrSpace = ByteValues^WordSize
  Registers,    \* register numbers
  Texts,        \* program texts the source may be given, see InstructionParser
  Written,      \* those of them in which every instruction has its operands
  NotANumber, Throws,
  Slice,        \* instructions of a slice
  Paths         \* ways the state may be carried, subset of Path

Byte == 0 .. ByteValues - 1

Path == {"direct", "packet", "file"}

(* int32_t, which has as many values as uint32_t. *)
Value == -(AddrSpace \div 2) .. AddrSpace \div 2 - 1
MinValue == -(AddrSpace \div 2)

Opcode ==
  {"Li", "Add", "Addi", "Sub", "Mul", "Div", "Lw", "Sw", "Nop", "Migrate",
   "Halt", "Invalid"}

(***************************************************************************)
(* "Nop": DUMP_PROCESSOR_STATE and SNAPSHOT, which change nothing.         *)
(* "Invalid": the default branch, which And to Srl fall into as well.      *)
(***************************************************************************)
Instruction ==
  [op : Opcode, rd : Registers, rs : Registers, rt : Registers, imm : Value]

Parser ==
  INSTANCE InstructionParser WITH MinImm <- MinValue, MaxImm <- -MinValue - 1

(***************************************************************************)
(* The line a programmer writes for an instruction: every operand it has,  *)
(* in the order of src/main.cpp:49 and tests/test_main.cpp:62, and no more. *)
(***************************************************************************)
Spelling(i) ==
  LET R(n) == Parser!RegisterWord(n)
      N(v) == Parser!NumberWord(v)
      words ==
        CASE i.op \in {"Add", "Sub", "Mul"} -> <<R(i.rd), R(i.rs), R(i.rt)>>
          [] i.op = "Addi" -> <<R(i.rd), R(i.rs), N(i.imm)>>
          [] i.op = "Div" -> <<R(i.rs), R(i.rt)>>
          [] i.op \in {"Li", "Lw"} -> <<R(i.rd), N(i.imm)>>
          [] i.op = "Sw" -> <<R(i.rs), N(i.imm)>>
          [] OTHER -> <<>>
  IN [op |-> i.op, words |-> words]

ASSUME VirtualMachineAssumption ==
  /\ AddrSpace \in Nat \ {0} /\ AddrSpace = ByteValues ^ WordSize
  /\ NotANumber \notin Int
  /\ \A lines \in Texts : lines \in Seq({lines[k] : k \in DOMAIN lines})
  /\ Written \subseteq Texts
  /\ \A lines \in Written : \A k \in DOMAIN lines :
       Parser!IsCode(lines[k]) => \E i \in Instruction : lines[k] = Spelling(i)
  /\ Slice \in Nat \ {0}
  /\ Paths \subseteq Path

Memory(bytes, pageTable) ==
  INSTANCE PagedMemory WITH store <- bytes, table <- pageTable, answer <- 0,
    Sizes <- {MemBytes}

VARIABLES
  text,      \* the text the source was given
  vm,        \* the two machines, "source" and "target"
  carried,   \* the way the state was carried to the target, "none" before
  process    \* "killed" once the process got a fatal signal

vars == <<text, vm, carried, process>>

Pages == 0 .. (AddrSpace - 1) \div PageSize

Machine ==
  [program : Seq(Instruction), regs : [Registers -> Value], hi : Value, lo : Value, pc : Nat,
   bytes : [0 .. MemBytes - 1 -> Byte],
   pageTable : [Pages -> PhysicalPages \cup {Unmapped}],
   status : {"Ready", "Running", "Blocked", "Halted", "Faulted"},
   lastFault : {"None", "IllegalOpcode", "DivideByZero", "PageFault",
                "AddressOutOfRange"},
   pending : BOOLEAN]

TypeOK ==
  /\ text \in Texts
  /\ process = "running" => vm \in [{"source", "target"} -> Machine]
  /\ carried \in Path \cup {"none"}
  /\ process \in {"running", "killed"}

PageCount == (MemBytes + PageSize - 1) \div PageSize

(* A constructed machine. *)
NewMachine(program) ==
  [program |-> program, regs |-> [r \in Registers |-> 0], hi |-> 0, lo |-> 0, pc |-> 0,
   bytes |-> [b \in 0 .. MemBytes - 1 |-> 0],
   pageTable |-> [p \in Pages |-> IF p < PageCount THEN p ELSE Unmapped],
   status |-> "Ready", lastFault |-> "None", pending |-> FALSE]

(* The same program with an empty line or a comment before every line. *)
DoubleSpaced(lines) ==
  [k \in 1 .. 2 * Len(lines) |->
     IF k % 2 = 0 THEN lines[k \div 2] ELSE [op |-> "Blank", words |-> <<>>]]

(***************************************************************************)
(* The target has a copy of the text that may be laid out differently.  A  *)
(* text that makes ParseProgram throw ends the process before any machine  *)
(* exists.                                                                 *)
(***************************************************************************)
Init ==
  /\ text \in Texts
  /\ \E copy \in {text, DoubleSpaced(text)} :
       vm = [source |-> NewMachine(Parser!ParseProgram(text)),
             target |-> NewMachine(Parser!ParseProgram(copy))]
  /\ carried = "none"
  /\ process = IF Parser!ParsingThrows(text) THEN "killed" ELSE "running"

-----------------------------------------------------------------------------

(* int32_t arithmetic as two's complement hardware does it. *)
Wrap(n) == ((n - MinValue) % AddrSpace) + MinValue

(* static_cast<uint32_t> *)
Unsigned(v) == v % AddrSpace

(* memcpy between a value and the bytes of a word, lowest byte first. *)
WordOf(v) ==
  [j \in 0 .. WordSize - 1 |-> (Unsigned(v) \div (ByteValues ^ j)) % ByteValues]

ValueOf(w) == CHOOSE v \in Value : WordOf(v) = w

(* C++ division truncates towards zero. *)
Magnitude(n) == IF n < 0 THEN -n ELSE n
Quotient(a, b) ==
  LET q == Magnitude(a) \div Magnitude(b) IN IF (a < 0) = (b < 0) THEN q ELSE -q
Remainder(a, b) == a - b * Quotient(a, b)

Retire(m) == [m EXCEPT !.pc = @ + 1, !.status = "Running"]
Trap(m, fault) == [m EXCEPT !.status = "Faulted", !.lastFault = fault]

SetReg(m, r, v) == [m EXCEPT !.regs[r] = Wrap(v)]

(* lw and sw translate the immediate, with no register added. *)
AccessFault(m, i) == Memory(m.bytes, m.pageTable)!FaultOf(Unsigned(i.imm))
AccessPlace(m, i) == Memory(m.bytes, m.pageTable)!Place(Unsigned(i.imm))

Load(m, i) ==
  SetReg(m, i.rd, ValueOf(Memory(m.bytes, m.pageTable)!WordAt(AccessPlace(m, i))))

Store(m, i) ==
  [m EXCEPT !.bytes =
     Memory(m.bytes, m.pageTable)!Patched(AccessPlace(m, i), WordOf(m.regs[i.rs]))]

Divide(m, i) ==
  IF m.regs[i.rt] = 0 THEN Trap(m, "DivideByZero")
  ELSE Retire([m EXCEPT !.lo = Wrap(Quotient(m.regs[i.rs], m.regs[i.rt])),
                        !.hi = Remainder(m.regs[i.rs], m.regs[i.rt])])

ExecuteOne(m, i) ==
  CASE i.op = "Li" -> Retire(SetReg(m, i.rd, i.imm))
    [] i.op = "Add" -> Retire(SetReg(m, i.rd, m.regs[i.rs] + m.regs[i.rt]))
    [] i.op = "Addi" -> Retire(SetReg(m, i.rd, m.regs[i.rs] + i.imm))
    [] i.op = "Sub" -> Retire(SetReg(m, i.rd, m.regs[i.rs] - m.regs[i.rt]))
    [] i.op = "Mul" -> Retire(SetReg(m, i.rd, m.regs[i.rs] * m.regs[i.rt]))
    [] i.op = "Div" -> Divide(m, i)
    [] i.op \in {"Lw", "Sw"} /\ AccessFault(m, i) # "None" -> Trap(m, AccessFault(m, i))
    [] i.op = "Lw" /\ AccessFault(m, i) = "None" -> Retire(Load(m, i))
    [] i.op = "Sw" /\ AccessFault(m, i) = "None" -> Retire(Store(m, i))
    [] i.op = "Nop" -> Retire(m)
    [] i.op = "Migrate" -> [m EXCEPT !.pending = TRUE, !.status = "Blocked"]
    [] i.op = "Halt" -> [m EXCEPT !.status = "Halted"]
    [] OTHER -> Trap(m, "IllegalOpcode")

InProgram(m) == m.pc < Len(m.program)

Current(m) == m.program[m.pc + 1]

Over(m) == m.status \in {"Halted", "Faulted"}

(* One turn of the loop of RunForSlice, if its condition holds. *)
Turn(m) ==
  IF InProgram(m) /\ m.status = "Running" THEN ExecuteOne(m, Current(m)) ELSE m

(* The machine after at most n turns. *)
Loop(m, n) ==
  LET after[k \in 0 .. n] == IF k = 0 THEN m ELSE Turn(after[k - 1])
  IN after[n]

(* Mutant: the end of the program is noticed one instruction late. *)
SettledLate(m) ==
  IF m.pc > Len(m.program) THEN [m EXCEPT !.status = "Halted"]
  ELSE IF m.status = "Running" THEN [m EXCEPT !.status = "Ready"]
  ELSE m

(* The status RunForSlice leaves behind. *)
Settled(m) ==
  IF ~InProgram(m) THEN [m EXCEPT !.status = "Halted"]
  ELSE IF m.status = "Running" THEN [m EXCEPT !.status = "Ready"]
  ELSE m

RunForSlice(m, n) ==
  IF Over(m) THEN m ELSE Settled(Loop([m EXCEPT !.status = "Running"], n))

(* The division whose quotient no int32_t can hold is in this slice. *)
DivisionOverflows(m0, n) ==
  /\ ~Over(m0)
  /\ \E k \in 0 .. n - 1 :
       LET m == Loop([m0 EXCEPT !.status = "Running"], k)
       IN /\ InProgram(m)
          /\ m.status = "Running"
          /\ Current(m).op = "Div"
          /\ m.regs[Current(m).rs] = MinValue
          /\ m.regs[Current(m).rt] = -1

-----------------------------------------------------------------------------

Snapshot(m) ==
  [regs |-> m.regs, hi |-> m.hi, lo |-> m.lo, pc |-> m.pc,
   bytes |-> m.bytes, pageTable |-> m.pageTable]

WithoutPageTable(snapshot) ==
  [snapshot EXCEPT !.pageTable = [p \in Pages |-> Unmapped]]

(***************************************************************************)
(* What Deserialize makes of the packet Serialize put together: the page   *)
(* table is not in it and remains the empty one of a new VmSnapshot.       *)
(***************************************************************************)
FromPacket(snapshot) == WithoutPageTable(snapshot)

(* What Load makes of the file Save wrote; it has no page table either. *)
FromFile(snapshot) == WithoutPageTable(snapshot)

Received(snapshot, path) ==
  CASE path = "direct" -> snapshot
    [] path = "packet" -> FromPacket(snapshot)
    [] path = "file" -> FromFile(snapshot)

(* Mutant: hi and lo are not restored. *)
RestoreWithoutHiLo(m, snapshot) ==
  [m EXCEPT !.regs = snapshot.regs, !.pc = snapshot.pc,
            !.bytes = snapshot.bytes, !.pageTable = snapshot.pageTable,
            !.status = "Ready"]

(* Restore leaves the last fault and a pending migration intent alone. *)
Restore(m, snapshot) ==
  [m EXCEPT !.regs = snapshot.regs, !.hi = snapshot.hi, !.lo = snapshot.lo,
            !.pc = snapshot.pc, !.bytes = snapshot.bytes,
            !.pageTable = snapshot.pageTable, !.status = "Ready"]

(***************************************************************************)
(* One slice of each machine in ids.  Signed overflow is undefined: it     *)
(* wraps, but for the division that overflows, which may also be trapped   *)
(* by the processor and kill the process.                                  *)
(***************************************************************************)
Advance(ids) ==
  /\ process = "running"
  /\ \/ /\ vm' = [id \in DOMAIN vm |->
                    IF id \in ids THEN RunForSlice(vm[id], Slice) ELSE vm[id]]
        /\ UNCHANGED process
     \/ /\ \E id \in ids : DivisionOverflows(vm[id], Slice)
        /\ process' = "killed"
        /\ UNCHANGED vm
  /\ UNCHANGED <<text, carried>>

(* Before the transfer the machines run on their own, ... *)
RunOne(id) == carried = "none" /\ Advance({id})

(* ... at any time between slices the target takes over the source, ... *)
Transfer(path) ==
  /\ process = "running"
  /\ carried = "none"
  /\ carried' = path
  /\ vm' = [vm EXCEPT !["target"] =
              Restore(@, Received(Snapshot(vm["source"]), path))]
  /\ UNCHANGED <<text, process>>

(* ... and from then on both run, so that they can be compared. *)
RunBoth == carried # "none" /\ Advance({"source", "target"})

Next ==
  \/ \E id \in {"source", "target"} : RunOne(id)
  \/ \E path \in Paths : Transfer(path)
  \/ RunBoth

Spec == Init /\ [][Next]_vars

-----------------------------------------------------------------------------

(* What a machine has computed: everything Snapshot means to carry. *)
Computed(m) == [regs |-> m.regs, hi |-> m.hi, lo |-> m.lo, pc |-> m.pc, bytes |-> m.bytes]

(* A target that ran stopped as the source did; a restored one is Ready. *)
SameStop(source, target) ==
  \/ target.status = "Ready"
  \/ /\ source.status = target.status
     /\ source.status = "Faulted" => source.lastFault = target.lastFault

Accesses(p) == \E k \in DOMAIN p : p[k].op \in {"Lw", "Sw"}

SameFuture ==
  /\ Computed(vm["source"]) = Computed(vm["target"])
  /\ SameStop(vm["source"], vm["target"])

(***************************************************************************)
(* A restored machine goes on exactly as the one whose snapshot it was     *)
(* given: the same results, the same fault at the same instruction, the    *)
(* same end, whatever it had done before.  Through a packet or a file this *)
(* holds of the programs that use no memory.                               *)
(***************************************************************************)
RestoredContinues ==
  (carried = "direct" \/ (carried # "none" /\ ~Accesses(vm["source"].program))) => SameFuture

(***************************************************************************)
(* What is written in lines is p: each instruction has its line, in their  *)
(* order, and the other lines have no instruction.                         *)
(***************************************************************************)
WrittenIn(lines, p) ==
  \E at \in [DOMAIN p -> DOMAIN lines] :
    /\ \A j \in DOMAIN p : lines[at[j]] = Spelling(p[j])
    /\ \A j, k \in DOMAIN p : j < k => at[j] < at[k]
    /\ \A n \in DOMAIN lines : Parser!IsCode(lines[n]) => \E j \in DOMAIN p : at[j] = n

(***************************************************************************)
(* What a machine executes is what was written: empty lines and comments   *)
(* are left out, nothing else is, and they do not move any instruction, so *)
(* that a pc means the same in every copy of the text.                     *)
(***************************************************************************)
ParsedAsWritten ==
  /\ text \in Written => WrittenIn(text, vm["source"].program)
  /\ vm["target"].program = vm["source"].program

(***************************************************************************)
(* docs/migration-protocol.md:6 says the state of the machine is           *)
(* serialized, and docs/migration-protocol.md:9 that the receiver restores *)
(* it.  The page table is part of that state and is not serialized.        *)
(***************************************************************************)
MigratedContinues == carried = "packet" => SameFuture

(***************************************************************************)
(* The instructions of a program, seen from outside: the outcome of each   *)
(* of them for a machine that starts at the first, computed by retiring    *)
(* the ones before it.  They are what HypervisorCore calls a program.      *)
(***************************************************************************)
OutcomeOf(m, i) ==
  LET next == ExecuteOne(m, i)
  IN CASE next.pc = m.pc + 1 -> "Retire"
       [] next.status = "Halted" -> "Halt"
       [] next.status = "Blocked" -> "Migrate"
       [] OTHER -> "Trap"

Outcomes ==
  LET program == vm["source"].program
      new == [NewMachine(program) EXCEPT !.status = "Running"]
  IN [k \in 1 .. Len(program) |->
        LET m == Loop(new, k - 1)
        IN IF m.pc = k - 1 THEN OutcomeOf(m, program[k]) ELSE "Trap"]

(***************************************************************************)
(* A machine with its data implements the abstract machine HypervisorCore  *)
(* implements too: replacing its instructions by their outcomes loses      *)
(* nothing a scheduler, the metrics or a migration could see.              *)
(***************************************************************************)
Abstract ==
  INSTANCE SlicedMachines WITH
    Machines <- {"source"},
    code <- [id \in {"source"} |-> Outcomes],
    quota <- [id \in {"source"} |-> Slice],
    done <- [id \in {"source"} |-> vm[id].pc],
    over <- [id \in {"source"} |-> Over(vm[id])]

OutcomesSuffice == Abstract!AbsSpec

=============================================================================
