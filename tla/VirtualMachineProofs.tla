------------------------ MODULE VirtualMachineProofs ------------------------
(***************************************************************************)
(* Proofs about VirtualMachine, for programs, registers, memories and      *)
(* slices of any size.                                                     *)
(***************************************************************************)
EXTENDS VirtualMachine, WellFoundedInduction, TLAPS

(* A set of natural numbers that is not empty has a least element. *)
LEMMA Least ==
  ASSUME NEW T, T \subseteq Nat, T # {}
  PROVE  \E n \in T : \A k \in T : n <= k
<1>1. PICK n \in T : \A k \in T : ~(<<k, n>> \in OpToRel(<, Nat))
  BY NatLessThanWellFounded, WFMin
<1>2. \A k \in T : ~(k < n)
  BY <1>1 DEF OpToRel
<1> QED
  BY <1>2

(* A property of 0 that goes from each number to the next holds up to n. *)
LEMMA UpTo ==
  ASSUME NEW n \in Nat, NEW Good, 0 \in Good,
         \A k \in 1 .. n : k - 1 \in Good => k \in Good
  PROVE  0 .. n \subseteq Good
<1> DEFINE Bad == (0 .. n) \ Good
<1>1. Bad \subseteq Nat
  OBVIOUS
<1>2. ASSUME Bad # {}
      PROVE  FALSE
  <2> HIDE DEF Bad
  <2>1. PICK k \in Bad : \A j \in Bad : k <= j
    BY <1>1, <1>2, Least
  <2>2. k \in 1 .. n /\ k - 1 \in 0 .. n /\ k - 1 \notin Bad
    BY <2>1 DEF Bad
  <2> QED
    BY <2>1, <2>2 DEF Bad
<1> QED
  BY <1>2

-----------------------------------------------------------------------------

(* The loop of RunForSlice, turn by turn. *)
Turns(f, m, n) == f = [k \in 0 .. n |-> IF k = 0 THEN m ELSE Turn(f[k - 1])]

LEMMA TurnsExist ==
  ASSUME NEW m, NEW n \in Nat
  PROVE  \E f : Turns(f, m, n)
<1> DEFINE Good == {k \in Nat : \E f : Turns(f, m, k)}
<1>1. 0 \in Good
  <2> DEFINE f == [k \in 0 .. 0 |-> m]
  <2>1. Turns(f, m, 0)
    BY DEF Turns
  <2> QED
    BY <2>1
<1>2. ASSUME NEW l \in 1 .. n, l - 1 \in Good
      PROVE  l \in Good
  <2>1. PICK f : Turns(f, m, l - 1)
    BY <1>2
  <2> DEFINE g == [k \in 0 .. l |-> IF k = l THEN Turn(f[l - 1]) ELSE f[k]]
  <2>2. ASSUME NEW k \in 0 .. l
        PROVE  g[k] = IF k = 0 THEN m ELSE Turn(g[k - 1])
    BY <2>1 DEF Turns
  <2>3. Turns(g, m, l)
    BY <2>2, Zenon DEF Turns
  <2> QED
    BY <2>3
<1> HIDE DEF Good
<1>3. 0 .. n \subseteq Good
  BY <1>1, <1>2, UpTo
<1> QED
  BY <1>3 DEF Good

LEMMA LoopIsTurns ==
  ASSUME NEW m, NEW n \in Nat
  PROVE  \E f : Turns(f, m, n) /\ Loop(m, n) = f[n]
<1> DEFINE f == CHOOSE g : Turns(g, m, n)
<1>1. Turns(f, m, n)
  BY TurnsExist
<1>2. Loop(m, n) = f[n]
  BY DEF Loop, Turns
<1> QED
  BY <1>1, <1>2

LEMMA LoopStarts ==
  ASSUME NEW m
  PROVE  Loop(m, 0) = m
BY LoopIsTurns DEF Turns

LEMMA LoopTurns ==
  ASSUME NEW m, NEW n \in Nat
  PROVE  Loop(m, n + 1) = Turn(Loop(m, n))
<1>1. PICK f : Turns(f, m, n) /\ Loop(m, n) = f[n]
  BY LoopIsTurns
<1>2. PICK g : Turns(g, m, n + 1) /\ Loop(m, n + 1) = g[n + 1]
  BY LoopIsTurns
<1> DEFINE Good == {k \in Nat : k <= n => f[k] = g[k]}
<1>3. 0 \in Good
  BY <1>1, <1>2 DEF Turns
<1>4. ASSUME NEW l \in 1 .. n, l - 1 \in Good
      PROVE  l \in Good
  BY <1>1, <1>2, <1>4 DEF Turns
<1>5. 0 .. n \subseteq Good
  <2> HIDE DEF Good
  <2> QED
    BY <1>3, <1>4, UpTo
<1>6. f[n] = g[n]
  BY <1>5
<1> QED
  BY <1>1, <1>2, <1>6 DEF Turns

-----------------------------------------------------------------------------

(* The record of a machine, with a program and a place in it. *)
Shape(m) ==
  /\ DOMAIN m = {"program", "regs", "hi", "lo", "pc", "bytes", "pageTable", "status",
                 "lastFault", "pending"}
  /\ Len(m.program) \in Nat
  /\ DOMAIN m.program = 1 .. Len(m.program)
  /\ m.pc \in Nat

(***************************************************************************)
(* Two machines nothing can tell apart that runs their program: they may   *)
(* differ in a past fault, in the migration intent, and in a page table    *)
(* the program never uses.                                                 *)
(***************************************************************************)
Alike(m, n) ==
  /\ Shape(m) /\ Shape(n)
  /\ m.program = n.program
  /\ m.regs = n.regs /\ m.hi = n.hi /\ m.lo = n.lo /\ m.pc = n.pc /\ m.bytes = n.bytes
  /\ m.pageTable = n.pageTable \/ ~Accesses(m.program)

Twins(m, n) ==
  /\ Alike(m, n)
  /\ m.status = n.status
  /\ m.status = "Faulted" => m.lastFault = n.lastFault

(* What an instruction does, by its opcode. *)
Computing == {"Li", "Add", "Addi", "Sub", "Mul"}

Result(m, i) ==
  IF i.op = "Li" THEN i.imm
  ELSE IF i.op = "Add" THEN m.regs[i.rs] + m.regs[i.rt]
  ELSE IF i.op = "Addi" THEN m.regs[i.rs] + i.imm
  ELSE IF i.op = "Sub" THEN m.regs[i.rs] - m.regs[i.rt]
  ELSE m.regs[i.rs] * m.regs[i.rt]

LEMMA ByOpcode ==
  ASSUME NEW m, NEW i
  PROVE  /\ i.op \in Computing => ExecuteOne(m, i) = Retire(SetReg(m, i.rd, Result(m, i)))
         /\ i.op = "Div" => ExecuteOne(m, i) = Divide(m, i)
         /\ i.op \in {"Lw", "Sw"} /\ AccessFault(m, i) # "None" =>
              ExecuteOne(m, i) = Trap(m, AccessFault(m, i))
         /\ i.op = "Lw" /\ AccessFault(m, i) = "None" =>
              ExecuteOne(m, i) = Retire(Load(m, i))
         /\ i.op = "Sw" /\ AccessFault(m, i) = "None" =>
              ExecuteOne(m, i) = Retire(Store(m, i))
         /\ i.op = "Nop" => ExecuteOne(m, i) = Retire(m)
         /\ i.op = "Migrate" =>
              ExecuteOne(m, i) = [m EXCEPT !.pending = TRUE, !.status = "Blocked"]
         /\ i.op = "Halt" => ExecuteOne(m, i) = [m EXCEPT !.status = "Halted"]
         /\ i.op \notin Computing \cup {"Div", "Lw", "Sw", "Nop", "Migrate", "Halt"} =>
              ExecuteOne(m, i) = Trap(m, "IllegalOpcode")
<1>1. CASE i.op = "Li"
  <2>1. i.op # "Add" /\ i.op # "Addi" /\ i.op # "Sub" /\ i.op # "Mul" /\ i.op # "Div"
        /\ i.op # "Lw" /\ i.op # "Sw" /\ i.op # "Nop" /\ i.op # "Migrate"
        /\ i.op # "Halt"
        /\ i.op \notin {"Lw", "Sw"}
    BY <1>1
  <2>2. ExecuteOne(m, i) = Retire(SetReg(m, i.rd, i.imm))
    BY <1>1, <2>1, Zenon DEF ExecuteOne
  <2> QED
    BY <1>1, <2>1, <2>2 DEF Computing, Result
<1>2. CASE i.op = "Add"
  <2>1. i.op # "Li" /\ i.op # "Addi" /\ i.op # "Sub" /\ i.op # "Mul" /\ i.op # "Div"
        /\ i.op # "Lw" /\ i.op # "Sw" /\ i.op # "Nop" /\ i.op # "Migrate"
        /\ i.op # "Halt"
        /\ i.op \notin {"Lw", "Sw"}
    BY <1>2
  <2>2. ExecuteOne(m, i) = Retire(SetReg(m, i.rd, m.regs[i.rs] + m.regs[i.rt]))
    BY <1>2, <2>1, Zenon DEF ExecuteOne
  <2> QED
    BY <1>2, <2>1, <2>2 DEF Computing, Result
<1>3. CASE i.op = "Addi"
  <2>1. i.op # "Li" /\ i.op # "Add" /\ i.op # "Sub" /\ i.op # "Mul" /\ i.op # "Div"
        /\ i.op # "Lw" /\ i.op # "Sw" /\ i.op # "Nop" /\ i.op # "Migrate"
        /\ i.op # "Halt"
        /\ i.op \notin {"Lw", "Sw"}
    BY <1>3
  <2>2. ExecuteOne(m, i) = Retire(SetReg(m, i.rd, m.regs[i.rs] + i.imm))
    BY <1>3, <2>1, Zenon DEF ExecuteOne
  <2> QED
    BY <1>3, <2>1, <2>2 DEF Computing, Result
<1>4. CASE i.op = "Sub"
  <2>1. i.op # "Li" /\ i.op # "Add" /\ i.op # "Addi" /\ i.op # "Mul" /\ i.op # "Div"
        /\ i.op # "Lw" /\ i.op # "Sw" /\ i.op # "Nop" /\ i.op # "Migrate"
        /\ i.op # "Halt"
        /\ i.op \notin {"Lw", "Sw"}
    BY <1>4
  <2>2. ExecuteOne(m, i) = Retire(SetReg(m, i.rd, m.regs[i.rs] - m.regs[i.rt]))
    BY <1>4, <2>1, Zenon DEF ExecuteOne
  <2> QED
    BY <1>4, <2>1, <2>2 DEF Computing, Result
<1>5. CASE i.op = "Mul"
  <2>1. i.op # "Li" /\ i.op # "Add" /\ i.op # "Addi" /\ i.op # "Sub" /\ i.op # "Div"
        /\ i.op # "Lw" /\ i.op # "Sw" /\ i.op # "Nop" /\ i.op # "Migrate"
        /\ i.op # "Halt"
        /\ i.op \notin {"Lw", "Sw"}
    BY <1>5
  <2>2. ExecuteOne(m, i) = Retire(SetReg(m, i.rd, m.regs[i.rs] * m.regs[i.rt]))
    BY <1>5, <2>1, Zenon DEF ExecuteOne
  <2> QED
    BY <1>5, <2>1, <2>2 DEF Computing, Result
<1>6. CASE i.op = "Div"
  <2>1. i.op # "Li" /\ i.op # "Add" /\ i.op # "Addi" /\ i.op # "Sub" /\ i.op # "Mul"
        /\ i.op # "Lw" /\ i.op # "Sw" /\ i.op # "Nop" /\ i.op # "Migrate"
        /\ i.op # "Halt"
        /\ i.op \notin {"Lw", "Sw"}
    BY <1>6
  <2>2. ExecuteOne(m, i) = Divide(m, i)
    BY <1>6, <2>1, Zenon DEF ExecuteOne
  <2> QED
    BY <1>6, <2>1, <2>2 DEF Computing
<1>7. CASE i.op = "Lw" /\ AccessFault(m, i) = "None"
  <2>1. i.op # "Li" /\ i.op # "Add" /\ i.op # "Addi" /\ i.op # "Sub" /\ i.op # "Mul"
        /\ i.op # "Div" /\ i.op # "Sw" /\ i.op # "Nop" /\ i.op # "Migrate"
        /\ i.op # "Halt"
        /\ i.op \in {"Lw", "Sw"}
    BY <1>7
  <2>2. ExecuteOne(m, i) = Retire(Load(m, i))
    BY <1>7, <2>1, Zenon DEF ExecuteOne
  <2> QED
    BY <1>7, <2>1, <2>2 DEF Computing
<1>8. CASE i.op = "Lw" /\ AccessFault(m, i) # "None"
  <2>1. i.op # "Li" /\ i.op # "Add" /\ i.op # "Addi" /\ i.op # "Sub" /\ i.op # "Mul"
        /\ i.op # "Div" /\ i.op # "Sw" /\ i.op # "Nop" /\ i.op # "Migrate"
        /\ i.op # "Halt"
        /\ i.op \in {"Lw", "Sw"}
    BY <1>8
  <2>2. ExecuteOne(m, i) = Trap(m, AccessFault(m, i))
    BY <1>8, <2>1, Zenon DEF ExecuteOne
  <2> QED
    BY <1>8, <2>1, <2>2 DEF Computing
<1>9. CASE i.op = "Sw" /\ AccessFault(m, i) = "None"
  <2>1. i.op # "Li" /\ i.op # "Add" /\ i.op # "Addi" /\ i.op # "Sub" /\ i.op # "Mul"
        /\ i.op # "Div" /\ i.op # "Lw" /\ i.op # "Nop" /\ i.op # "Migrate"
        /\ i.op # "Halt"
        /\ i.op \in {"Lw", "Sw"}
    BY <1>9
  <2>2. ExecuteOne(m, i) = Retire(Store(m, i))
    BY <1>9, <2>1, Zenon DEF ExecuteOne
  <2> QED
    BY <1>9, <2>1, <2>2 DEF Computing
<1>10. CASE i.op = "Sw" /\ AccessFault(m, i) # "None"
  <2>1. i.op # "Li" /\ i.op # "Add" /\ i.op # "Addi" /\ i.op # "Sub" /\ i.op # "Mul"
        /\ i.op # "Div" /\ i.op # "Lw" /\ i.op # "Nop" /\ i.op # "Migrate"
        /\ i.op # "Halt"
        /\ i.op \in {"Lw", "Sw"}
    BY <1>10
  <2>2. ExecuteOne(m, i) = Trap(m, AccessFault(m, i))
    BY <1>10, <2>1, Zenon DEF ExecuteOne
  <2> QED
    BY <1>10, <2>1, <2>2 DEF Computing
<1>11. CASE i.op = "Nop"
  <2>1. i.op # "Li" /\ i.op # "Add" /\ i.op # "Addi" /\ i.op # "Sub" /\ i.op # "Mul"
        /\ i.op # "Div" /\ i.op # "Lw" /\ i.op # "Sw" /\ i.op # "Migrate"
        /\ i.op # "Halt"
        /\ i.op \notin {"Lw", "Sw"}
    BY <1>11
  <2>2. ExecuteOne(m, i) = Retire(m)
    BY <1>11, <2>1, Zenon DEF ExecuteOne
  <2> QED
    BY <1>11, <2>1, <2>2 DEF Computing
<1>12. CASE i.op = "Migrate"
  <2>1. i.op # "Li" /\ i.op # "Add" /\ i.op # "Addi" /\ i.op # "Sub" /\ i.op # "Mul"
        /\ i.op # "Div" /\ i.op # "Lw" /\ i.op # "Sw" /\ i.op # "Nop"
        /\ i.op # "Halt"
        /\ i.op \notin {"Lw", "Sw"}
    BY <1>12
  <2>2. ExecuteOne(m, i) = [m EXCEPT !.pending = TRUE, !.status = "Blocked"]
    BY <1>12, <2>1, Zenon DEF ExecuteOne
  <2> QED
    BY <1>12, <2>1, <2>2 DEF Computing
<1>13. CASE i.op = "Halt"
  <2>1. i.op # "Li" /\ i.op # "Add" /\ i.op # "Addi" /\ i.op # "Sub" /\ i.op # "Mul"
        /\ i.op # "Div" /\ i.op # "Lw" /\ i.op # "Sw" /\ i.op # "Nop"
        /\ i.op # "Migrate"
        /\ i.op \notin {"Lw", "Sw"}
    BY <1>13
  <2>2. ExecuteOne(m, i) = [m EXCEPT !.status = "Halted"]
    BY <1>13, <2>1, Zenon DEF ExecuteOne
  <2> QED
    BY <1>13, <2>1, <2>2 DEF Computing
<1>14. CASE i.op \notin Computing \cup {"Div", "Lw", "Sw", "Nop", "Migrate", "Halt"}
  <2>1. i.op # "Li" /\ i.op # "Add" /\ i.op # "Addi" /\ i.op # "Sub" /\ i.op # "Mul"
        /\ i.op # "Div" /\ i.op # "Lw" /\ i.op # "Sw" /\ i.op # "Nop"
        /\ i.op # "Migrate" /\ i.op # "Halt"
        /\ i.op \notin {"Lw", "Sw"}
    BY <1>14 DEF Computing
  <2>2. ExecuteOne(m, i) = Trap(m, "IllegalOpcode")
    BY <2>1, Zenon DEF ExecuteOne
  <2> QED
    BY <1>14, <2>1, <2>2 DEF Computing
<1> QED
  BY <1>1, <1>2, <1>3, <1>4, <1>5, <1>6, <1>7, <1>8, <1>9, <1>10, <1>11, <1>12, <1>13, <1>14 DEF Computing

LEMMA RetireTwins ==
  ASSUME NEW m, NEW n, Twins(m, n)
  PROVE  Twins(Retire(m), Retire(n))
BY DEF Twins, Alike, Shape, Retire

LEMMA TrapTwins ==
  ASSUME NEW m, NEW n, Twins(m, n), NEW fault
  PROVE  Twins(Trap(m, fault), Trap(n, fault))
BY DEF Twins, Alike, Shape, Trap

LEMMA SetRegTwins ==
  ASSUME NEW m, NEW n, Twins(m, n), NEW r, NEW v
  PROVE  Twins(SetReg(m, r, v), SetReg(n, r, v))
<1>1. /\ SetReg(m, r, v) = [m EXCEPT !.regs = [m.regs EXCEPT ![r] = Wrap(v)]]
      /\ SetReg(n, r, v) = [n EXCEPT !.regs = [n.regs EXCEPT ![r] = Wrap(v)]]
  BY DEF SetReg
<1> DEFINE s == [m.regs EXCEPT ![r] = Wrap(v)]
<1>2. s = [n.regs EXCEPT ![r] = Wrap(v)]
  BY Zenon DEF Twins, Alike
<1> HIDE DEF s
<1> QED
  BY <1>1, <1>2 DEF Twins, Alike, Shape

LEMMA DivideTwins ==
  ASSUME NEW m, NEW n, Twins(m, n), NEW i
  PROVE  Twins(Divide(m, i), Divide(n, i))
<1>1. m.regs = n.regs
  BY DEF Twins, Alike
<1>2. CASE m.regs[i.rt] = 0
  BY <1>1, <1>2, TrapTwins DEF Divide
<1>3. CASE m.regs[i.rt] # 0
  <2> DEFINE q == Wrap(Quotient(m.regs[i.rs], m.regs[i.rt]))
             r == Remainder(m.regs[i.rs], m.regs[i.rt])
             a == [m EXCEPT !.lo = q, !.hi = r]
             b == [n EXCEPT !.lo = q, !.hi = r]
  <2>1. Divide(m, i) = Retire(a) /\ Divide(n, i) = Retire(b)
    BY <1>1, <1>3, Zenon DEF Divide
  <2> HIDE DEF q, r
  <2>2. Twins(a, b)
    BY DEF Twins, Alike, Shape
  <2> HIDE DEF a, b
  <2> QED
    BY <2>1, <2>2, RetireTwins
<1> QED
  BY <1>2, <1>3

(* lw and sw reach memory through the page table. *)
LEMMA MemoryTwins ==
  ASSUME NEW m, NEW n, Twins(m, n), m.pageTable = n.pageTable, NEW i
  PROVE  /\ AccessFault(m, i) = AccessFault(n, i)
         /\ Twins(Load(m, i), Load(n, i))
         /\ Twins(Store(m, i), Store(n, i))
<1>1. m.regs = n.regs /\ m.bytes = n.bytes
  BY DEF Twins, Alike
<1>2. AccessFault(m, i) = AccessFault(n, i) /\ AccessPlace(m, i) = AccessPlace(n, i)
  BY <1>1, Zenon DEF AccessFault, AccessPlace
<1>3. Twins(Load(m, i), Load(n, i))
  <2> DEFINE v == ValueOf(Memory(m.bytes, m.pageTable)!WordAt(AccessPlace(m, i)))
  <2>1. Load(m, i) = SetReg(m, i.rd, v) /\ Load(n, i) = SetReg(n, i.rd, v)
    BY <1>1, <1>2, Zenon DEF Load
  <2> HIDE DEF v
  <2> QED
    BY <2>1, SetRegTwins
<1>4. Twins(Store(m, i), Store(n, i))
  <2> DEFINE w == Memory(m.bytes, m.pageTable)!Patched(AccessPlace(m, i), WordOf(m.regs[i.rs]))
  <2>1. Store(m, i) = [m EXCEPT !.bytes = w] /\ Store(n, i) = [n EXCEPT !.bytes = w]
    BY <1>1, <1>2, Zenon DEF Store
  <2> HIDE DEF w
  <2> QED
    BY <2>1 DEF Twins, Alike, Shape
<1> QED
  BY <1>2, <1>3, <1>4

(* Twins remain twins, whatever the instruction. *)
LEMMA ExecuteTwins ==
  ASSUME NEW m, NEW n, Twins(m, n), NEW i,
         i.op \in {"Lw", "Sw"} => m.pageTable = n.pageTable
  PROVE  Twins(ExecuteOne(m, i), ExecuteOne(n, i))
<1>1. CASE i.op \in Computing
  <2>1. Result(m, i) = Result(n, i)
    BY Zenon DEF Result, Twins, Alike
  <2>2. /\ ExecuteOne(m, i) = Retire(SetReg(m, i.rd, Result(m, i)))
        /\ ExecuteOne(n, i) = Retire(SetReg(n, i.rd, Result(n, i)))
    BY <1>1, ByOpcode, Zenon
  <2>3. Twins(SetReg(m, i.rd, Result(m, i)), SetReg(n, i.rd, Result(n, i)))
    BY <2>1, SetRegTwins
  <2> QED
    BY <2>2, <2>3, RetireTwins, Zenon
<1>2. CASE i.op = "Div"
  <2>1. ExecuteOne(m, i) = Divide(m, i) /\ ExecuteOne(n, i) = Divide(n, i)
    BY <1>2, ByOpcode, Zenon
  <2> QED
    BY <2>1, DivideTwins, Zenon
<1>3. CASE i.op \in {"Lw", "Sw"}
  <2>1. /\ AccessFault(m, i) = AccessFault(n, i)
        /\ Twins(Load(m, i), Load(n, i))
        /\ Twins(Store(m, i), Store(n, i))
    BY <1>3, MemoryTwins
  <2>2. CASE AccessFault(m, i) # "None"
    <3>1. ExecuteOne(m, i) = Trap(m, AccessFault(m, i))
      BY <1>3, <2>2, ByOpcode, Zenon
    <3>2. AccessFault(n, i) # "None"
      BY <2>1, <2>2
    <3>3. ExecuteOne(n, i) = Trap(n, AccessFault(n, i))
      BY <1>3, <3>2, ByOpcode, Zenon
    <3> QED
      BY <2>1, <3>1, <3>3, TrapTwins
  <2>3. CASE AccessFault(m, i) = "None" /\ i.op = "Lw"
    <3>1. AccessFault(n, i) = "None"
      BY <2>1, <2>3
    <3>2. ExecuteOne(m, i) = Retire(Load(m, i)) /\ ExecuteOne(n, i) = Retire(Load(n, i))
      BY <2>3, <3>1, ByOpcode, Zenon
    <3> QED
      BY <2>1, <3>2, RetireTwins, Zenon
  <2>4. CASE AccessFault(m, i) = "None" /\ i.op = "Sw"
    <3>1. AccessFault(n, i) = "None"
      BY <2>1, <2>4
    <3>2. ExecuteOne(m, i) = Retire(Store(m, i)) /\ ExecuteOne(n, i) = Retire(Store(n, i))
      BY <2>4, <3>1, ByOpcode, Zenon
    <3> QED
      BY <2>1, <3>2, RetireTwins, Zenon
  <2> QED
    BY <1>3, <2>2, <2>3, <2>4
<1>4. CASE i.op = "Nop"
  <2>1. ExecuteOne(m, i) = Retire(m) /\ ExecuteOne(n, i) = Retire(n)
    BY <1>4, ByOpcode, Zenon
  <2> QED
    BY <2>1, RetireTwins, Zenon
<1>5. CASE i.op \in {"Migrate", "Halt"}
  <2>1. \/ /\ ExecuteOne(m, i) = [m EXCEPT !.status = "Halted"]
           /\ ExecuteOne(n, i) = [n EXCEPT !.status = "Halted"]
        \/ /\ ExecuteOne(m, i) = [m EXCEPT !.pending = TRUE, !.status = "Blocked"]
           /\ ExecuteOne(n, i) = [n EXCEPT !.pending = TRUE, !.status = "Blocked"]
    BY <1>5, ByOpcode
  <2>2. Twins([m EXCEPT !.status = "Halted"], [n EXCEPT !.status = "Halted"])
    <3> DEFINE a == [m EXCEPT !.status = "Halted"]
               b == [n EXCEPT !.status = "Halted"]
    <3>1. Shape(m) /\ Shape(n) /\ Alike(m, n)
      BY DEF Twins, Alike
    <3>2. Shape(a) /\ Alike(a, m) /\ a.status = "Halted"
      BY <3>1 DEF Shape, Alike
    <3>3. Shape(b) /\ Alike(n, b) /\ b.status = "Halted"
      BY <3>1 DEF Shape, Alike
    <3> HIDE DEF a, b
    <3>4. Alike(a, b)
      BY <3>1, <3>2, <3>3 DEF Alike
    <3> QED
      BY <3>2, <3>3, <3>4 DEF Twins, a, b
  <2>3. Twins([m EXCEPT !.pending = TRUE, !.status = "Blocked"], [n EXCEPT !.pending = TRUE, !.status = "Blocked"])
    <3> DEFINE a == [m EXCEPT !.pending = TRUE, !.status = "Blocked"]
               b == [n EXCEPT !.pending = TRUE, !.status = "Blocked"]
    <3>1. Shape(m) /\ Shape(n) /\ Alike(m, n)
      BY DEF Twins, Alike
    <3>2. Shape(a) /\ Alike(a, m) /\ a.status = "Blocked"
      BY <3>1 DEF Shape, Alike
    <3>3. Shape(b) /\ Alike(n, b) /\ b.status = "Blocked"
      BY <3>1 DEF Shape, Alike
    <3> HIDE DEF a, b
    <3>4. Alike(a, b)
      BY <3>1, <3>2, <3>3 DEF Alike
    <3> QED
      BY <3>2, <3>3, <3>4 DEF Twins, a, b
  <2> QED
    BY <2>1, <2>2, <2>3, Zenon
<1>6. CASE i.op \notin Computing \cup {"Div", "Lw", "Sw", "Nop", "Migrate", "Halt"}
  <2>1. /\ ExecuteOne(m, i) = Trap(m, "IllegalOpcode")
        /\ ExecuteOne(n, i) = Trap(n, "IllegalOpcode")
    BY <1>6, ByOpcode, Zenon
  <2> QED
    BY <2>1, TrapTwins, Zenon
<1> QED
  BY <1>1, <1>2, <1>3, <1>4, <1>5, <1>6 DEF Computing

(* No instruction touches the program or the page table, ... *)
Kept(m, x) == Shape(x) /\ x.program = m.program /\ x.pageTable = m.pageTable

(* ... and one that retires computes before it moves the pc. *)
Computes(m, x) == Kept(m, x) /\ x.pc = m.pc

LEMMA SetRegComputes ==
  ASSUME NEW m, Shape(m), NEW r, NEW v
  PROVE  Computes(m, SetReg(m, r, v))
<1> DEFINE s == [m.regs EXCEPT ![r] = Wrap(v)]
<1>1. SetReg(m, r, v) = [m EXCEPT !.regs = s]
  BY DEF SetReg
<1> HIDE DEF s
<1> QED
  BY <1>1 DEF Computes, Kept, Shape

(***************************************************************************)
(* An instruction retires, traps, asks to migrate or halts: the outcomes   *)
(* HypervisorCore knows.                                                   *)
(***************************************************************************)
LEMMA FourOutcomes ==
  ASSUME NEW m, Shape(m), NEW i
  PROVE  \/ \E x : Computes(m, x) /\ ExecuteOne(m, i) = Retire(x)
         \/ \E fault : ExecuteOne(m, i) = Trap(m, fault)
         \/ ExecuteOne(m, i) = [m EXCEPT !.pending = TRUE, !.status = "Blocked"]
         \/ ExecuteOne(m, i) = [m EXCEPT !.status = "Halted"]
<1>1. CASE i.op \in Computing
  <2>1. ExecuteOne(m, i) = Retire(SetReg(m, i.rd, Result(m, i)))
    BY <1>1, ByOpcode, Zenon
  <2> QED
    BY <2>1, SetRegComputes, Zenon
<1>2. CASE i.op = "Div"
  <2>1. ExecuteOne(m, i) = Divide(m, i)
    BY <1>2, ByOpcode, Zenon
  <2>2. CASE m.regs[i.rt] = 0
    <3>1. Divide(m, i) = Trap(m, "DivideByZero")
      BY <2>2, Zenon DEF Divide
    <3> QED
      BY <2>1, <3>1, Zenon
  <2>3. CASE m.regs[i.rt] # 0
    <3> DEFINE q == Wrap(Quotient(m.regs[i.rs], m.regs[i.rt]))
               r == Remainder(m.regs[i.rs], m.regs[i.rt])
               a == [m EXCEPT !.lo = q, !.hi = r]
    <3>1. Divide(m, i) = Retire(a)
      BY <2>3, Zenon DEF Divide
    <3> HIDE DEF q, r
    <3>2. Computes(m, a)
      BY DEF Computes, Kept, Shape
    <3> HIDE DEF a
    <3> QED
      BY <2>1, <3>1, <3>2, Zenon
  <2> QED
    BY <2>2, <2>3
<1>3. CASE i.op \in {"Lw", "Sw"}
  <2>1. CASE AccessFault(m, i) # "None"
    <3>1. ExecuteOne(m, i) = Trap(m, AccessFault(m, i))
      BY <1>3, <2>1, ByOpcode, Zenon
    <3> QED
      BY <3>1, Zenon
  <2>2. CASE AccessFault(m, i) = "None" /\ i.op = "Lw"
    <3>1. ExecuteOne(m, i) = Retire(Load(m, i))
      BY <2>2, ByOpcode, Zenon
    <3>2. Computes(m, Load(m, i))
      BY SetRegComputes, Zenon DEF Load
    <3> QED
      BY <3>1, <3>2, Zenon
  <2>3. CASE AccessFault(m, i) = "None" /\ i.op = "Sw"
    <3> DEFINE w == Memory(m.bytes, m.pageTable)!Patched(AccessPlace(m, i), WordOf(m.regs[i.rs]))
               a == [m EXCEPT !.bytes = w]
    <3>1. ExecuteOne(m, i) = Retire(a)
      <4>1. Store(m, i) = a
        BY Zenon DEF Store
      <4>2. ExecuteOne(m, i) = Retire(Store(m, i))
        BY <2>3, ByOpcode, Zenon
      <4> HIDE DEF a
      <4> QED
        BY <4>1, <4>2
    <3> HIDE DEF w
    <3>2. Computes(m, a)
      BY DEF Computes, Kept, Shape
    <3> HIDE DEF a
    <3> QED
      BY <3>1, <3>2, Zenon
  <2> QED
    BY <1>3, <2>1, <2>2, <2>3
<1>4. CASE i.op = "Nop"
  <2>1. ExecuteOne(m, i) = Retire(m)
    BY <1>4, ByOpcode, Zenon
  <2>2. Computes(m, m)
    BY DEF Computes, Kept
  <2> QED
    BY <2>1, <2>2, Zenon
<1>5. CASE i.op \in {"Migrate", "Halt"}
  BY <1>5, ByOpcode
<1>6. CASE i.op \notin Computing \cup {"Div", "Lw", "Sw", "Nop", "Migrate", "Halt"}
  <2>1. ExecuteOne(m, i) = Trap(m, "IllegalOpcode")
    BY <1>6, ByOpcode, Zenon
  <2> QED
    BY <2>1, Zenon
<1> QED
  BY <1>1, <1>2, <1>3, <1>4, <1>5, <1>6 DEF Computing

LEMMA ExecuteKeeps ==
  ASSUME NEW m, Shape(m), NEW i
  PROVE  Kept(m, ExecuteOne(m, i))
<1>1. CASE \E x : Computes(m, x) /\ ExecuteOne(m, i) = Retire(x)
  BY <1>1 DEF Computes, Kept, Shape, Retire
<1>2. CASE \E fault : ExecuteOne(m, i) = Trap(m, fault)
  BY <1>2 DEF Kept, Shape, Trap
<1>3. CASE \/ ExecuteOne(m, i) = [m EXCEPT !.pending = TRUE, !.status = "Blocked"]
           \/ ExecuteOne(m, i) = [m EXCEPT !.status = "Halted"]
  BY <1>3 DEF Kept, Shape
<1> QED
  BY <1>1, <1>2, <1>3, FourOutcomes

(***************************************************************************)
(* One that ends the slice leaves everything but the status, the fault and *)
(* the migration intent as it was.                                         *)
(***************************************************************************)
Rerun(m) == [m EXCEPT !.status = "Running"]

LEMMA ExecuteStops ==
  ASSUME NEW m, Shape(m), m.status = "Running", NEW i
  PROVE  LET x == ExecuteOne(m, i)
         IN \/ x.status = "Running"
            \/ x.status \in {"Blocked", "Halted", "Faulted"} /\ Twins(Rerun(x), m)
<1>1. CASE \E x : Computes(m, x) /\ ExecuteOne(m, i) = Retire(x)
  BY <1>1 DEF Computes, Kept, Shape, Retire
<1>2. CASE \E fault : ExecuteOne(m, i) = Trap(m, fault)
  BY <1>2 DEF Shape, Trap, Rerun, Twins, Alike
<1>3. CASE \/ ExecuteOne(m, i) = [m EXCEPT !.pending = TRUE, !.status = "Blocked"]
           \/ ExecuteOne(m, i) = [m EXCEPT !.status = "Halted"]
  BY <1>3 DEF Shape, Rerun, Twins, Alike
<1> QED
  BY <1>1, <1>2, <1>3, FourOutcomes

LEMMA TwinsSymmetric ==
  ASSUME NEW m, NEW n, Twins(m, n)
  PROVE  Twins(n, m)
BY DEF Twins, Alike

LEMMA TwinsTransitive ==
  ASSUME NEW m, NEW n, NEW x, Twins(m, n), Twins(n, x)
  PROVE  Twins(m, x)
BY DEF Twins, Alike

(* A turn of the loop, the loop and a slice treat twins alike. *)
LEMMA TurnTwins ==
  ASSUME NEW m, NEW n, Twins(m, n)
  PROVE  Twins(Turn(m), Turn(n))
<1>1. m.program = n.program /\ m.pc = n.pc /\ m.status = n.status
  BY DEF Twins, Alike
<1>2. /\ InProgram(m) <=> InProgram(n)
      /\ Current(m) = Current(n)
  BY <1>1 DEF InProgram, Current
<1>3. CASE InProgram(m) /\ m.status = "Running"
  <2>1. Turn(m) = ExecuteOne(m, Current(m)) /\ Turn(n) = ExecuteOne(n, Current(m))
    BY <1>1, <1>2, <1>3, Zenon DEF Turn
  <2>2. m.pc + 1 \in DOMAIN m.program
    BY <1>3 DEF InProgram, Twins, Alike, Shape
  <2>3. Current(m).op \in {"Lw", "Sw"} => m.pageTable = n.pageTable
    BY <2>2 DEF Twins, Alike, Accesses, Current
  <2> QED
    BY <2>1, <2>3, ExecuteTwins
<1>4. CASE ~(InProgram(m) /\ m.status = "Running")
  BY <1>1, <1>2, <1>4 DEF Turn
<1> QED
  BY <1>3, <1>4

LEMMA LoopTwins ==
  ASSUME NEW m, NEW n, Twins(m, n), NEW s \in Nat
  PROVE  Twins(Loop(m, s), Loop(n, s))
<1> DEFINE Good == {k \in Nat : Twins(Loop(m, k), Loop(n, k))}
<1>1. 0 \in Good
  BY LoopStarts
<1>2. ASSUME NEW k \in 1 .. s, k - 1 \in Good
      PROVE  k \in Good
  <2>1. Loop(m, k) = Turn(Loop(m, k - 1)) /\ Loop(n, k) = Turn(Loop(n, k - 1))
    BY LoopTurns
  <2> QED
    BY <1>2, <2>1, TurnTwins
<1> HIDE DEF Good
<1>3. s \in Good
  BY <1>1, <1>2, UpTo
<1> QED
  BY <1>3 DEF Good

LEMMA SettledTwins ==
  ASSUME NEW m, NEW n, Twins(m, n)
  PROVE  Twins(Settled(m), Settled(n))
<1>1. /\ InProgram(m) <=> InProgram(n)
      /\ m.status = n.status
  BY DEF Twins, Alike, InProgram
<1>2. CASE ~InProgram(m)
  <2>1. Settled(m) = [m EXCEPT !.status = "Halted"] /\ Settled(n) = [n EXCEPT !.status = "Halted"]
    BY <1>1, <1>2 DEF Settled
  <2> QED
    BY <2>1 DEF Twins, Alike, Shape
<1>3. CASE InProgram(m) /\ m.status = "Running"
  <2>1. Settled(m) = [m EXCEPT !.status = "Ready"] /\ Settled(n) = [n EXCEPT !.status = "Ready"]
    BY <1>1, <1>3 DEF Settled
  <2> QED
    BY <2>1 DEF Twins, Alike, Shape
<1>4. CASE InProgram(m) /\ m.status # "Running"
  BY <1>1, <1>4 DEF Settled
<1> QED
  BY <1>2, <1>3, <1>4

(* What a machine that runs again becomes, over or not. *)
Slept(m, s) == Settled(Loop(Rerun(m), s))

LEMMA SliceIsSlept ==
  ASSUME NEW m, NEW s, ~Over(m)
  PROVE  RunForSlice(m, s) = Slept(m, s)
BY DEF RunForSlice, Slept, Rerun

(* A slice starts by making a machine Running, so only the data counts. *)
LEMMA SleptTwins ==
  ASSUME NEW m, NEW n, Alike(m, n), NEW s \in Nat
  PROVE  Twins(Slept(m, s), Slept(n, s))
<1>1. Twins(Rerun(m), Rerun(n))
  BY DEF Rerun, Twins, Alike, Shape
<1> QED
  BY <1>1, LoopTwins, SettledTwins DEF Slept

LEMMA SliceTwins ==
  ASSUME NEW m, NEW n, Twins(m, n), NEW s \in Nat
  PROVE  Twins(RunForSlice(m, s), RunForSlice(n, s))
<1>1. Over(m) <=> Over(n)
  BY DEF Over, Twins
<1>2. CASE Over(m)
  BY <1>1, <1>2 DEF RunForSlice
<1>3. CASE ~Over(m)
  <2>1. Alike(m, n)
    BY DEF Twins
  <2> QED
    BY <1>1, <1>3, <2>1, SliceIsSlept, SleptTwins
<1> QED
  BY <1>2, <1>3

(***************************************************************************)
(* Where a machine stopped for good it would stop again: the instruction   *)
(* at its pc halts or traps once more, or there is none.                   *)
(***************************************************************************)
Repeats(m) == Over(m) => Twins(m, Settled(Turn(Rerun(m))))

LEMMA SettledShape ==
  ASSUME NEW m, Shape(m)
  PROVE  /\ Kept(m, Settled(m))
         /\ Settled(m).pc = m.pc
         /\ Settled(m).status =
              IF ~InProgram(m) THEN "Halted"
              ELSE IF m.status = "Running" THEN "Ready" ELSE m.status
BY DEF Settled, Kept, Shape

LEMMA RerunShape ==
  ASSUME NEW m, Shape(m)
  PROVE  Kept(m, Rerun(m)) /\ Rerun(m).pc = m.pc /\ Rerun(m).status = "Running"
BY DEF Rerun, Kept, Shape

LEMMA TurnKeeps ==
  ASSUME NEW m, Shape(m)
  PROVE  Kept(m, Turn(m))
<1>1. CASE InProgram(m) /\ m.status = "Running"
  BY <1>1, ExecuteKeeps, Zenon DEF Turn
<1>2. CASE ~(InProgram(m) /\ m.status = "Running")
  BY <1>2 DEF Turn, Kept
<1> QED
  BY <1>1, <1>2

LEMMA OverStays ==
  ASSUME NEW m, Shape(m), Over(m), Repeats(m), NEW s \in Nat \ {0}
  PROVE  Twins(m, Slept(m, s))
<1> DEFINE x == Turn(Rerun(m))
<1>1. Shape(x)
  BY RerunShape, TurnKeeps DEF Kept
<1>2. Twins(m, Settled(x))
  BY DEF Repeats
<1> HIDE DEF x
<1>3. ~InProgram(x) \/ x.status # "Running"
  <2>1. Settled(x).status \in {"Halted", "Faulted"}
    BY <1>2 DEF Twins, Over
  <2> QED
    BY <1>1, <2>1, SettledShape
<1>4. Turn(x) = x
  BY <1>3 DEF Turn
<1> DEFINE Good == {k \in Nat : k # 0 => Loop(Rerun(m), k) = x}
<1>5. 0 \in Good
  OBVIOUS
<1>6. ASSUME NEW k \in 1 .. s, k - 1 \in Good
      PROVE  k \in Good
  <2>1. Loop(Rerun(m), k) = Turn(Loop(Rerun(m), k - 1))
    BY LoopTurns
  <2>2. CASE k = 1
    BY <2>1, <2>2, LoopStarts DEF x
  <2>3. CASE k # 1
    BY <1>4, <1>6, <2>1, <2>3
  <2> QED
    BY <2>2, <2>3
<1> HIDE DEF Good
<1>7. s \in Good
  BY <1>5, <1>6, UpTo
<1>8. Loop(Rerun(m), s) = x
  BY <1>7 DEF Good
<1> QED
  BY <1>2, <1>8 DEF Slept

(* The machine after some turns of a slice of m. *)
Underway(m, x) ==
  /\ Kept(m, x)
  /\ x.status \in {"Running", "Blocked", "Halted", "Faulted"}
  /\ Over(x) => InProgram(x) /\ Twins(x, Turn(Rerun(x)))

LEMMA TurnUnderway ==
  ASSUME NEW m, NEW x, Underway(m, x)
  PROVE  Underway(m, Turn(x))
<1>1. CASE InProgram(x) /\ x.status = "Running"
  <2> DEFINE i == Current(x)
             y == ExecuteOne(x, i)
  <2>1. Turn(x) = y
    BY <1>1 DEF Turn
  <2>2. Shape(x) /\ Kept(x, y)
    BY ExecuteKeeps DEF Underway, Kept
  <2>3. \/ y.status = "Running"
        \/ y.status \in {"Blocked", "Halted", "Faulted"} /\ Twins(Rerun(y), x)
    BY <1>1, <2>2, ExecuteStops
  <2>4. ASSUME Over(y)
        PROVE  InProgram(y) /\ Twins(y, Turn(Rerun(y)))
    <3>1. Twins(Rerun(y), x)
      BY <2>3, <2>4 DEF Over
    <3>2. Twins(Turn(Rerun(y)), Turn(x))
      BY <3>1, TurnTwins
    <3>3. y.pc = x.pc /\ y.program = x.program
      <4>1. Rerun(y).pc = y.pc
        BY <2>2, RerunShape DEF Kept
      <4> QED
        BY <2>2, <3>1, <4>1 DEF Twins, Alike, Kept
    <3> QED
      BY <1>1, <2>1, <3>2, <3>3, TwinsSymmetric DEF InProgram
  <2> HIDE DEF y
  <2>5. Kept(m, y)
    BY <2>2 DEF Underway, Kept
  <2> QED
    BY <2>1, <2>3, <2>4, <2>5 DEF Underway
<1>2. CASE ~(InProgram(x) /\ x.status = "Running")
  BY <1>2 DEF Turn
<1> QED
  BY <1>1, <1>2

LEMMA SliceRepeats ==
  ASSUME NEW m, Shape(m), Repeats(m), NEW s \in Nat
  PROVE  Kept(m, RunForSlice(m, s)) /\ Repeats(RunForSlice(m, s))
<1>1. CASE Over(m)
  BY <1>1 DEF RunForSlice, Kept
<1>2. CASE ~Over(m)
  <2> DEFINE r == Rerun(m)
             Good == {k \in Nat : Underway(m, Loop(r, k))}
             x == Loop(r, s)
             y == Settled(x)
  <2>1. RunForSlice(m, s) = y
    BY <1>2, SliceIsSlept DEF Slept
  <2>2. 0 \in Good
    BY LoopStarts, RerunShape DEF Underway, Over
  <2>3. ASSUME NEW k \in 1 .. s, k - 1 \in Good
        PROVE  k \in Good
    <3>1. Loop(r, k) = Turn(Loop(r, k - 1))
      BY LoopTurns
    <3> QED
      BY <2>3, <3>1, TurnUnderway
  <2>4. Underway(m, x)
    <3> HIDE DEF Good
    <3>1. s \in Good
      BY <2>2, <2>3, UpTo
    <3> QED
      BY <3>1 DEF Good
  <2> HIDE DEF x, Good
  <2>5. /\ Shape(x) /\ Kept(m, x)
        /\ Kept(x, y) /\ y.pc = x.pc
        /\ y.status = IF ~InProgram(x) THEN "Halted"
                      ELSE IF x.status = "Running" THEN "Ready" ELSE x.status
    BY <2>4, SettledShape DEF Underway, Kept
  <2>6. Kept(m, y)
    BY <2>5 DEF Kept
  <2>7. Repeats(y)
    <3>1. CASE ~InProgram(x)
      <4>1. y = [x EXCEPT !.status = "Halted"]
        BY <3>1 DEF Settled
      <4>2. ~InProgram(y) /\ ~InProgram(Rerun(y))
        BY <2>5, <3>1, RerunShape DEF InProgram, Kept
      <4>3. Settled(Turn(Rerun(y))) = [Rerun(y) EXCEPT !.status = "Halted"]
        BY <4>2 DEF Turn, Settled
      <4>4. Twins(y, [Rerun(y) EXCEPT !.status = "Halted"])
        <5> HIDE DEF y
        <5> QED
          BY <2>5, <3>1 DEF Rerun, Twins, Alike, Shape, Kept
      <4> QED
        BY <4>3, <4>4 DEF Repeats
    <3>2. CASE InProgram(x) /\ x.status = "Running"
      BY <2>5, <3>2 DEF Repeats, Over
    <3>3. CASE InProgram(x) /\ x.status # "Running"
      <4>1. y = x
        BY <3>3 DEF Settled
      <4>2. ASSUME Over(x)
            PROVE  Twins(x, Settled(Turn(Rerun(x))))
        <5>1. Twins(x, Turn(Rerun(x)))
          BY <2>4, <4>2 DEF Underway
        <5>2. Twins(Settled(x), Settled(Turn(Rerun(x))))
          BY <5>1, SettledTwins
        <5> QED
          BY <4>1, <5>2
      <4> QED
        BY <4>1, <4>2 DEF Repeats
    <3> QED
      BY <3>1, <3>2, <3>3
  <2> QED
    BY <2>1, <2>6, <2>7
<1> QED
  BY <1>1, <1>2

(* The loop of ParseProgram over the first n lines. *)
Parses(f, lines, n) ==
  f = [k \in 0 .. n |-> IF k = 0 THEN <<>> ELSE Parser!AddLine(f[k - 1], lines[k])]

LEMMA ParsesExist ==
  ASSUME NEW lines, NEW n \in Nat
  PROVE  \E f : Parses(f, lines, n)
<1> DEFINE Good == {k \in Nat : \E f : Parses(f, lines, k)}
<1>1. 0 \in Good
  <2> DEFINE f == [k \in 0 .. 0 |-> <<>>]
  <2>1. Parses(f, lines, 0)
    BY DEF Parses
  <2> QED
    BY <2>1
<1>2. ASSUME NEW l \in 1 .. n, l - 1 \in Good
      PROVE  l \in Good
  <2>1. PICK f : Parses(f, lines, l - 1)
    BY <1>2
  <2> DEFINE g == [k \in 0 .. l |-> IF k = l THEN Parser!AddLine(f[l - 1], lines[l]) ELSE f[k]]
  <2>2. ASSUME NEW k \in 0 .. l
        PROVE  g[k] = IF k = 0 THEN <<>> ELSE Parser!AddLine(g[k - 1], lines[k])
    BY <2>1 DEF Parses
  <2>3. Parses(g, lines, l)
    BY <2>2, Zenon DEF Parses
  <2> QED
    BY <2>3
<1> HIDE DEF Good
<1>3. 0 .. n \subseteq Good
  BY <1>1, <1>2, UpTo
<1> QED
  BY <1>3 DEF Good

LEMMA ProgramIsParsed ==
  ASSUME NEW lines, Len(lines) \in Nat
  PROVE  \E f : Parses(f, lines, Len(lines)) /\ Parser!ParseProgram(lines) = f[Len(lines)]
<1> DEFINE f == CHOOSE g : Parses(g, lines, Len(lines))
<1>1. Parses(f, lines, Len(lines))
  BY ParsesExist
<1>2. Parser!ParseProgram(lines) = f[Len(lines)]
  BY DEF Parser!ParseProgram, Parses
<1> QED
  BY <1>1, <1>2

LEMMA Appended ==
  ASSUME NEW S, NEW s \in Seq(S), NEW e \in S
  PROVE  Append(s, e) \in Seq(S)
OBVIOUS

(* After every line there is a sequence of instructions. *)
LEMMA ParsesSequence ==
  ASSUME NEW lines, NEW n \in Nat, NEW f, Parses(f, lines, n)
  PROVE  \A k \in 0 .. n : f[k] \in Seq({Parser!ParseLine(lines[l]) : l \in 1 .. n})
<1> DEFINE S == {Parser!ParseLine(lines[l]) : l \in 1 .. n}
           Good == {k \in Nat : f[k] \in Seq(S)}
<1>1. 0 \in Good
  BY DEF Parses
<1>2. ASSUME NEW k \in 1 .. n, k - 1 \in Good
      PROVE  k \in Good
  <2>1. f[k] = Parser!AddLine(f[k - 1], lines[k])
    BY DEF Parses
  <2> DEFINE i == Parser!ParseLine(lines[k])
  <2>2. i \in S
    OBVIOUS
  <2>3. f[k] = Append(f[k - 1], i) \/ f[k] = f[k - 1]
    BY <2>1, Zenon DEF Parser!AddLine
  <2>4. f[k - 1] \in Seq(S)
    BY <1>2
  <2>5. f[k] \in Seq(S)
    <3> HIDE DEF S, i, Good
    <3>1. Append(f[k - 1], i) \in Seq(S)
      BY <2>2, <2>4, Appended, Zenon
    <3> QED
      BY <2>3, <2>4, <3>1, Zenon
  <2> QED
    BY <2>5
<1> HIDE DEF Good
<1>3. 0 .. n \subseteq Good
  BY <1>1, <1>2, UpTo
<1> QED
  BY <1>3 DEF Good

(* Empty lines move no instruction. *)
LEMMA SpacingIsInvisible ==
  ASSUME NEW lines, Len(lines) \in Nat
  PROVE  Parser!ParseProgram(DoubleSpaced(lines)) = Parser!ParseProgram(lines)
<1> DEFINE d == DoubleSpaced(lines)
           n == Len(lines)
<1>1. Len(d) = 2 * n
  BY DEF DoubleSpaced
<1>2. \A k \in 1 .. n : d[2 * k] = lines[k] /\ ~Parser!IsCode(d[2 * k - 1])
  <2> SUFFICES ASSUME NEW k \in 1 .. n
               PROVE  d[2 * k] = lines[k] /\ ~Parser!IsCode(d[2 * k - 1])
    OBVIOUS
  <2>1. /\ 2 * k \in 1 .. 2 * n /\ (2 * k) % 2 = 0 /\ (2 * k) \div 2 = k
        /\ 2 * k - 1 \in 1 .. 2 * n /\ (2 * k - 1) % 2 = 1
    OBVIOUS
  <2> QED
    BY <2>1 DEF DoubleSpaced, Parser!IsCode
<1>3. PICK f : Parses(f, lines, n) /\ Parser!ParseProgram(lines) = f[n]
  BY ProgramIsParsed
<1> HIDE DEF d
<1>4. PICK g : Parses(g, d, 2 * n) /\ Parser!ParseProgram(d) = g[2 * n]
  BY <1>1, ProgramIsParsed
<1> DEFINE Good == {k \in Nat : g[2 * k] = f[k]}
<1>5. 0 \in Good
  BY <1>3, <1>4 DEF Parses
<1>6. ASSUME NEW k \in 1 .. n, k - 1 \in Good
      PROVE  k \in Good
  <2>1. f[k] = Parser!AddLine(f[k - 1], lines[k])
    BY <1>3 DEF Parses
  <2>2. g[2 * k - 1] = Parser!AddLine(g[2 * (k - 1)], d[2 * k - 1])
    BY <1>4 DEF Parses
  <2>3. g[2 * k] = Parser!AddLine(g[2 * k - 1], lines[k])
    <3> DEFINE e == 2 * k
    <3>1. e \in 0 .. 2 * n /\ e # 0
      OBVIOUS
    <3>2. d[e] = lines[k]
      BY <1>2
    <3> HIDE DEF e
    <3>3. g[e] = Parser!AddLine(g[e - 1], d[e])
      BY <1>4, <3>1 DEF Parses
    <3> QED
      BY <3>2, <3>3, Zenon DEF e
  <2>4. g[2 * k - 1] = g[2 * (k - 1)]
    BY <1>2, <2>2 DEF Parser!AddLine
  <2>5. k \in Nat /\ g[2 * (k - 1)] = f[k - 1]
    BY <1>6
  <2>6. g[2 * k] = f[k]
    BY <2>1, <2>3, <2>4, <2>5, Zenon
  <2> QED
    BY <2>5, <2>6
<1> HIDE DEF Good
<1>7. n \in Good
  <2>1. n \in Nat
    OBVIOUS
  <2> HIDE DEF n
  <2>2. 0 .. n \subseteq Good
    BY <1>5, <1>6, <2>1, UpTo
  <2> QED
    BY <2>1, <2>2
<1>8. g[2 * n] = f[n]
  BY <1>7 DEF Good
<1> QED
  BY <1>3, <1>4, <1>8, Zenon DEF d

(* The operands of an opcode, by its kind. *)
ThreeRegs == {"Add", "Sub", "Mul"}
Bare == Opcode \ (ThreeRegs \cup {"Addi", "Div", "Li", "Lw", "Sw"})

LEMMA OperandsByOpcode ==
  /\ \A op \in ThreeRegs : Parser!Operands(op) = <<"rd", "rs", "rt">>
  /\ Parser!Operands("Addi") = <<"rd", "rs", "imm">>
  /\ Parser!Operands("Div") = <<"rs", "rt">>
  /\ \A op \in {"Li", "Lw"} : Parser!Operands(op) = <<"rd", "imm">>
  /\ Parser!Operands("Sw") = <<"rs", "imm">>
  /\ \A op \in Bare : Parser!Operands(op) = <<>>
<1>1. ASSUME NEW op \in ThreeRegs
      PROVE  Parser!Operands(op) = <<"rd", "rs", "rt">>
  <2>1. op \in {"Add", "Sub", "Mul"} /\ op \notin {"Li", "Lw"} /\ op # "Sw"
        /\ op # "Addi" /\ op # "Div"
    BY DEF ThreeRegs
  <2> QED
    BY <2>1, Zenon DEF Parser!Operands
<1>2. ASSUME NEW op, op = "Addi"
      PROVE  Parser!Operands(op) = <<"rd", "rs", "imm">>
  <2>1. op \notin {"Add", "Sub", "Mul"} /\ op \notin {"Li", "Lw"} /\ op # "Sw"
        /\ op = "Addi" /\ op # "Div"
    BY <1>2
  <2> QED
    BY <2>1, Zenon DEF Parser!Operands
<1>3. ASSUME NEW op, op = "Div"
      PROVE  Parser!Operands(op) = <<"rs", "rt">>
  <2>1. op \notin {"Add", "Sub", "Mul"} /\ op \notin {"Li", "Lw"} /\ op # "Sw"
        /\ op # "Addi" /\ op = "Div"
    BY <1>3
  <2> QED
    BY <2>1, Zenon DEF Parser!Operands
<1>4. ASSUME NEW op \in {"Li", "Lw"}
      PROVE  Parser!Operands(op) = <<"rd", "imm">>
  <2>1. op \notin {"Add", "Sub", "Mul"} /\ op \in {"Li", "Lw"} /\ op # "Sw"
        /\ op # "Addi" /\ op # "Div"
    OBVIOUS
  <2> QED
    BY <2>1, Zenon DEF Parser!Operands
<1>5. ASSUME NEW op, op = "Sw"
      PROVE  Parser!Operands(op) = <<"rs", "imm">>
  <2>1. op \notin {"Add", "Sub", "Mul"} /\ op \notin {"Li", "Lw"} /\ op = "Sw"
        /\ op # "Addi" /\ op # "Div"
    BY <1>5
  <2> QED
    BY <2>1, Zenon DEF Parser!Operands
<1>6. ASSUME NEW op \in Bare
      PROVE  Parser!Operands(op) = <<>>
  <2>1. op \notin {"Add", "Sub", "Mul"} /\ op \notin {"Li", "Lw"} /\ op # "Sw"
        /\ op # "Addi" /\ op # "Div"
    BY DEF Bare, ThreeRegs
  <2> QED
    BY <2>1, Zenon DEF Parser!Operands
<1> QED
  BY <1>1, <1>2, <1>3, <1>4, <1>5, <1>6

(* What the line spelled for an instruction has after its first word. *)
Reg(n) == [register |-> n, number |-> NotANumber]
Num(v) == [register |-> 0, number |-> v]

LEMMA SpellingByOpcode ==
  ASSUME NEW i
  PROVE  /\ Spelling(i).op = i.op
         /\ i.op \in ThreeRegs => Spelling(i).words = <<Reg(i.rd), Reg(i.rs), Reg(i.rt)>>
         /\ i.op = "Addi" => Spelling(i).words = <<Reg(i.rd), Reg(i.rs), Num(i.imm)>>
         /\ i.op = "Div" => Spelling(i).words = <<Reg(i.rs), Reg(i.rt)>>
         /\ i.op \in {"Li", "Lw"} => Spelling(i).words = <<Reg(i.rd), Num(i.imm)>>
         /\ i.op = "Sw" => Spelling(i).words = <<Reg(i.rs), Num(i.imm)>>
         /\ i.op \in Bare => Spelling(i).words = <<>>
         /\ Spelling(i) = [op |-> i.op, words |-> Spelling(i).words]
<1> DEFINE Words ==
        CASE i.op \in {"Add", "Sub", "Mul"} -> <<Reg(i.rd), Reg(i.rs), Reg(i.rt)>>
          [] i.op = "Addi" -> <<Reg(i.rd), Reg(i.rs), Num(i.imm)>>
          [] i.op = "Div" -> <<Reg(i.rs), Reg(i.rt)>>
          [] i.op \in {"Li", "Lw"} -> <<Reg(i.rd), Num(i.imm)>>
          [] i.op = "Sw" -> <<Reg(i.rs), Num(i.imm)>>
          [] OTHER -> <<>>
<1>1. Spelling(i) = [op |-> i.op, words |-> Words]
  BY Zenon DEF Spelling, Reg, Num, Parser!RegisterWord, Parser!NumberWord
<1>2. i.op \in ThreeRegs => Words = <<Reg(i.rd), Reg(i.rs), Reg(i.rt)>>
  <2> HAVE i.op \in ThreeRegs
  <2>1. i.op \in {"Add", "Sub", "Mul"} /\ i.op \notin {"Li", "Lw"} /\ i.op # "Sw"
        /\ i.op # "Addi" /\ i.op # "Div"
    BY DEF ThreeRegs
  <2> QED
    BY <2>1, Zenon
<1>3. i.op = "Addi" => Words = <<Reg(i.rd), Reg(i.rs), Num(i.imm)>>
  <2> HAVE i.op = "Addi"
  <2>1. i.op \notin {"Add", "Sub", "Mul"} /\ i.op \notin {"Li", "Lw"} /\ i.op # "Sw"
        /\ i.op # "Div"
    OBVIOUS
  <2> QED
    BY <2>1, Zenon
<1>4. i.op = "Div" => Words = <<Reg(i.rs), Reg(i.rt)>>
  <2> HAVE i.op = "Div"
  <2>1. i.op \notin {"Add", "Sub", "Mul"} /\ i.op \notin {"Li", "Lw"} /\ i.op # "Sw"
        /\ i.op # "Addi"
    OBVIOUS
  <2> QED
    BY <2>1, Zenon
<1>5. i.op \in {"Li", "Lw"} => Words = <<Reg(i.rd), Num(i.imm)>>
  <2> HAVE i.op \in {"Li", "Lw"}
  <2>1. i.op \notin {"Add", "Sub", "Mul"} /\ i.op # "Sw" /\ i.op # "Addi" /\ i.op # "Div"
    OBVIOUS
  <2> QED
    BY <2>1, Zenon
<1>6. i.op = "Sw" => Words = <<Reg(i.rs), Num(i.imm)>>
  <2> HAVE i.op = "Sw"
  <2>1. i.op \notin {"Add", "Sub", "Mul"} /\ i.op \notin {"Li", "Lw"} /\ i.op # "Addi"
        /\ i.op # "Div"
    OBVIOUS
  <2> QED
    BY <2>1, Zenon
<1>7. i.op \in Bare => Words = <<>>
  <2> HAVE i.op \in Bare
  <2>1. i.op \notin {"Add", "Sub", "Mul"} /\ i.op \notin {"Li", "Lw"} /\ i.op # "Sw"
        /\ i.op # "Addi" /\ i.op # "Div"
    BY DEF Bare, ThreeRegs
  <2> QED
    BY <2>1, Zenon
<1> HIDE DEF Words
<1> QED
  BY <1>1, <1>2, <1>3, <1>4, <1>5, <1>6, <1>7

(* A field is read from the one word at its place. *)
LEMMA FieldAt ==
  ASSUME NEW line, NEW field, NEW k,
         {l \in DOMAIN Parser!Operands(line.op) \cap DOMAIN line.words :
            Parser!Operands(line.op)[l] = field} = {k}
  PROVE  Parser!FieldOf(line, field) =
           IF field = "imm" THEN Parser!ReadImm(line.words[k]) ELSE line.words[k].register
<1> DEFINE at == {l \in DOMAIN Parser!Operands(line.op) \cap DOMAIN line.words :
                    Parser!Operands(line.op)[l] = field}
<1>1. Parser!FieldOf(line, field) =
        IF at = {} THEN 0
        ELSE IF field = "imm" THEN Parser!ReadImm(line.words[CHOOSE l \in at : TRUE])
             ELSE line.words[CHOOSE l \in at : TRUE].register
  BY Zenon DEF Parser!FieldOf
<1>2. at = {k}
  OBVIOUS
<1> HIDE DEF at
<1>3. at # {} /\ (CHOOSE l \in at : TRUE) = k
  BY <1>2
<1> QED
  BY <1>1, <1>3

LEMMA ImmRead ==
  ASSUME NEW v \in Value
  PROVE  Parser!ReadImm(Num(v)) = v
BY VirtualMachineAssumption DEF Parser!ReadImm, Num, Value, MinValue

(* An instruction spelled and parsed has the operands it had. *)
LEMMA ParsedBack ==
  ASSUME NEW i \in Instruction
  PROVE  Spelling(Parser!ParseLine(Spelling(i))) = Spelling(i)
<1> DEFINE line == Spelling(i)
           q == Parser!ParseLine(line)
           At(field) == {l \in DOMAIN Parser!Operands(line.op) \cap DOMAIN line.words :
                           Parser!Operands(line.op)[l] = field}
<1>1. line.op = i.op
  BY SpellingByOpcode
<1>2. /\ q.op = i.op
      /\ \A k : At("rd") = {k} => q.rd = line.words[k].register
      /\ \A k : At("rs") = {k} => q.rs = line.words[k].register
      /\ \A k : At("rt") = {k} => q.rt = line.words[k].register
      /\ \A k : At("imm") = {k} => q.imm = Parser!ReadImm(line.words[k])
  <2>1. /\ q.op = line.op
        /\ q.rd = Parser!FieldOf(line, "rd") /\ q.rs = Parser!FieldOf(line, "rs")
        /\ q.rt = Parser!FieldOf(line, "rt") /\ q.imm = Parser!FieldOf(line, "imm")
    BY DEF Parser!ParseLine
  <2>2. \A field, k : At(field) = {k} =>
          Parser!FieldOf(line, field) =
            IF field = "imm" THEN Parser!ReadImm(line.words[k]) ELSE line.words[k].register
    BY FieldAt, Zenon
  <2> HIDE DEF q, line, At
  <2> QED
    BY <1>1, <2>1, <2>2
<1>3. i.op \in Opcode /\ i.imm \in Value
  BY DEF Instruction
<1>4. /\ \A n : Reg(n).register = n
      /\ Parser!ReadImm(Num(i.imm)) = i.imm
  BY <1>3, ImmRead DEF Reg
<1>5. ASSUME Spelling(q).words = line.words
      PROVE  Spelling(q) = line
  BY <1>1, <1>2, <1>5, SpellingByOpcode, Zenon
<1> HIDE DEF q
<1> SUFFICES Spelling(q) = line
  BY DEF q
<1>6. CASE i.op \in ThreeRegs
  <2>1. line.words = <<Reg(i.rd), Reg(i.rs), Reg(i.rt)>>
    BY <1>6, SpellingByOpcode
  <2>2. Parser!Operands(line.op) = <<"rd", "rs", "rt">>
    BY <1>1, <1>6, OperandsByOpcode
  <2>3. At("rd") = {1} /\ At("rs") = {2} /\ At("rt") = {3}
    BY <2>1, <2>2
  <2> HIDE DEF At, line
  <2>4. line.words[1] = Reg(i.rd) /\ line.words[2] = Reg(i.rs) /\ line.words[3] = Reg(i.rt)
    BY <2>1
  <2>5. q.rd = i.rd /\ q.rs = i.rs /\ q.rt = i.rt
    BY <1>2, <1>4, <2>3, <2>4
  <2>6. Spelling(q).words = <<Reg(q.rd), Reg(q.rs), Reg(q.rt)>>
    BY <1>2, <1>6, SpellingByOpcode
  <2> QED
    BY <1>5, <2>1, <2>5, <2>6
<1>7. CASE i.op = "Addi"
  <2>1. line.words = <<Reg(i.rd), Reg(i.rs), Num(i.imm)>>
    BY <1>7, SpellingByOpcode
  <2>2. Parser!Operands(line.op) = <<"rd", "rs", "imm">>
    BY <1>1, <1>7, OperandsByOpcode
  <2>3. At("rd") = {1} /\ At("rs") = {2} /\ At("imm") = {3}
    BY <2>1, <2>2
  <2> HIDE DEF At, line
  <2>4. line.words[1] = Reg(i.rd) /\ line.words[2] = Reg(i.rs) /\ line.words[3] = Num(i.imm)
    BY <2>1
  <2>5. q.rd = i.rd /\ q.rs = i.rs /\ q.imm = i.imm
    BY <1>2, <1>4, <2>3, <2>4
  <2>6. Spelling(q).words = <<Reg(q.rd), Reg(q.rs), Num(q.imm)>>
    BY <1>2, <1>7, SpellingByOpcode
  <2> QED
    BY <1>5, <2>1, <2>5, <2>6
<1>8. CASE i.op = "Div"
  <2>1. line.words = <<Reg(i.rs), Reg(i.rt)>>
    BY <1>8, SpellingByOpcode
  <2>2. Parser!Operands(line.op) = <<"rs", "rt">>
    BY <1>1, <1>8, OperandsByOpcode
  <2>3. At("rs") = {1} /\ At("rt") = {2}
    BY <2>1, <2>2
  <2> HIDE DEF At, line
  <2>4. line.words[1] = Reg(i.rs) /\ line.words[2] = Reg(i.rt)
    BY <2>1
  <2>5. q.rs = i.rs /\ q.rt = i.rt
    BY <1>2, <1>4, <2>3, <2>4
  <2>6. Spelling(q).words = <<Reg(q.rs), Reg(q.rt)>>
    BY <1>2, <1>8, SpellingByOpcode
  <2> QED
    BY <1>5, <2>1, <2>5, <2>6
<1>9. CASE i.op \in {"Li", "Lw"}
  <2>1. line.words = <<Reg(i.rd), Num(i.imm)>>
    BY <1>9, SpellingByOpcode
  <2>2. Parser!Operands(line.op) = <<"rd", "imm">>
    BY <1>1, <1>9, OperandsByOpcode
  <2>3. At("rd") = {1} /\ At("imm") = {2}
    BY <2>1, <2>2
  <2> HIDE DEF At, line
  <2>4. line.words[1] = Reg(i.rd) /\ line.words[2] = Num(i.imm)
    BY <2>1
  <2>5. q.rd = i.rd /\ q.imm = i.imm
    BY <1>2, <1>4, <2>3, <2>4
  <2>6. Spelling(q).words = <<Reg(q.rd), Num(q.imm)>>
    BY <1>2, <1>9, SpellingByOpcode
  <2> QED
    BY <1>5, <2>1, <2>5, <2>6
<1>10. CASE i.op = "Sw"
  <2>1. line.words = <<Reg(i.rs), Num(i.imm)>>
    BY <1>10, SpellingByOpcode
  <2>2. Parser!Operands(line.op) = <<"rs", "imm">>
    BY <1>1, <1>10, OperandsByOpcode
  <2>3. At("rs") = {1} /\ At("imm") = {2}
    BY <2>1, <2>2
  <2> HIDE DEF At, line
  <2>4. line.words[1] = Reg(i.rs) /\ line.words[2] = Num(i.imm)
    BY <2>1
  <2>5. q.rs = i.rs /\ q.imm = i.imm
    BY <1>2, <1>4, <2>3, <2>4
  <2>6. Spelling(q).words = <<Reg(q.rs), Num(q.imm)>>
    BY <1>2, <1>10, SpellingByOpcode
  <2> QED
    BY <1>5, <2>1, <2>5, <2>6
<1>11. CASE i.op \in Bare
  <2>1. line.words = <<>> /\ Spelling(q).words = <<>>
    BY <1>2, <1>11, SpellingByOpcode
  <2> QED
    BY <1>5, <2>1
<1> QED
  BY <1>3, <1>6, <1>7, <1>8, <1>9, <1>10, <1>11 DEF Bare

(* What the lines at places D say, and the instructions at places P. *)
Fits(lines, D, p, P) ==
  \E at \in [P -> D] :
    /\ \A j \in P : lines[at[j]] = Spelling(p[j])
    /\ \A j, k \in P : j < k => at[j] < at[k]
    /\ \A l \in D : Parser!IsCode(lines[l]) => \E j \in P : at[j] = l

(* The first n lines, and what was made of them. *)
WrittenUpTo(lines, n, p) == Fits(lines, 1 .. n, p, 1 .. Len(p))

LEMMA OneMoreLine ==
  ASSUME NEW lines, NEW n \in Nat \ {0}, NEW S, NEW p \in Seq(S), NEW i \in S,
         WrittenUpTo(lines, n - 1, p), lines[n] = Spelling(i)
  PROVE  WrittenUpTo(lines, n, Append(p, i))
<1>1. PICK at \in [1 .. Len(p) -> 1 .. n - 1] :
        /\ \A j \in 1 .. Len(p) : lines[at[j]] = Spelling(p[j])
        /\ \A j, k \in 1 .. Len(p) : j < k => at[j] < at[k]
        /\ \A l \in 1 .. n - 1 : Parser!IsCode(lines[l]) => \E j \in 1 .. Len(p) : at[j] = l
  BY DEF WrittenUpTo, Fits
<1> DEFINE m == Len(p) + 1
           r == Append(p, i)
           b == [j \in 1 .. m |-> IF j = m THEN n ELSE at[j]]
<1>2. /\ Len(r) = m /\ r[m] = i /\ m \in Nat
      /\ \A j \in 1 .. Len(p) : r[j] = p[j]
  OBVIOUS
<1>3. /\ b \in [1 .. m -> 1 .. n] /\ b[m] = n
      /\ \A j \in 1 .. Len(p) : b[j] = at[j]
  OBVIOUS
<1>4. /\ m \in 1 .. m /\ \A j \in 1 .. m : j = m \/ j \in 1 .. Len(p)
      /\ \A j \in 1 .. Len(p) : j \in 1 .. m /\ j < m /\ at[j] \in 1 .. n - 1 /\ at[j] < n
  OBVIOUS
<1>5. \A l \in 1 .. n : l = n \/ l \in 1 .. n - 1
  OBVIOUS
<1> HIDE DEF b, r
<1>6. \A j \in 1 .. m : lines[b[j]] = Spelling(r[j])
  BY <1>1, <1>2, <1>3, <1>4
<1>7. \A j, k \in 1 .. m : j < k => b[j] < b[k]
  BY <1>1, <1>3, <1>4
<1>8. ASSUME NEW l \in 1 .. n, Parser!IsCode(lines[l])
      PROVE  \E j \in 1 .. m : b[j] = l
  <2>1. CASE l = n
    BY <1>3, <1>4, <2>1
  <2>2. CASE l \in 1 .. n - 1
    <3>1. PICK j \in 1 .. Len(p) : at[j] = l
      BY <1>1, <1>8, <2>2
    <3> QED
      BY <1>3, <1>4, <3>1
  <2> QED
    BY <1>5, <2>1, <2>2
<1>9. Fits(lines, 1 .. n, r, 1 .. m)
  BY <1>3, <1>6, <1>7, <1>8, Zenon DEF Fits
<1>10. WrittenUpTo(lines, n, r)
  BY <1>2, <1>9 DEF WrittenUpTo
<1> QED
  BY <1>10 DEF r

LEMMA ReadAsWritten ==
  ASSUME NEW lines \in Written, Len(lines) \in Nat, DOMAIN lines = 1 .. Len(lines)
  PROVE  WrittenIn(lines, Parser!ParseProgram(lines))
<1> DEFINE n == Len(lines)
           S == {Parser!ParseLine(lines[l]) : l \in 1 .. n}
<1>1. PICK f : Parses(f, lines, n) /\ Parser!ParseProgram(lines) = f[n]
  BY ProgramIsParsed
<1>2. \A k \in 0 .. n : f[k] \in Seq(S)
  BY <1>1, ParsesSequence
<1> DEFINE Good == {k \in Nat : WrittenUpTo(lines, k, f[k])}
<1>3. 0 \in Good
  <2>1. f[0] = <<>>
    BY <1>1 DEF Parses
  <2> DEFINE at == [j \in 1 .. 0 |-> 1]
  <2>2. at \in [1 .. 0 -> 1 .. 0] /\ Len(<<>>) = 0 /\ 1 .. 0 = {}
    OBVIOUS
  <2> HIDE DEF at
  <2>3. Fits(lines, 1 .. 0, <<>>, 1 .. 0)
    BY <2>2 DEF Fits
  <2>4. WrittenUpTo(lines, 0, <<>>)
    BY <2>2, <2>3 DEF WrittenUpTo
  <2> QED
    BY <2>1, <2>4
<1>4. ASSUME NEW k \in 1 .. n, k - 1 \in Good
      PROVE  k \in Good
  <2>1. f[k] = Parser!AddLine(f[k - 1], lines[k])
    BY <1>1 DEF Parses
  <2>2. WrittenUpTo(lines, k - 1, f[k - 1])
    BY <1>4
  <2>3. CASE Parser!IsCode(lines[k])
    <3>1. PICK i \in Instruction : lines[k] = Spelling(i)
      BY <2>3, VirtualMachineAssumption
    <3> DEFINE j == Parser!ParseLine(lines[k])
    <3>2. lines[k] = Spelling(j)
      BY <3>1, ParsedBack
    <3>3. f[k] = Append(f[k - 1], j)
      BY <2>1, <2>3, Zenon DEF Parser!AddLine
    <3>4. j \in S
      OBVIOUS
    <3>5. f[k - 1] \in Seq(S)
      BY <1>2
    <3> HIDE DEF j, S
    <3>6. k \in Nat \ {0}
      OBVIOUS
    <3>7. WrittenUpTo(lines, k, Append(f[k - 1], j))
      BY <2>2, <3>2, <3>4, <3>5, <3>6, OneMoreLine, Zenon
    <3>8. WrittenUpTo(lines, k, f[k])
      BY <3>3, <3>7, Zenon
    <3> QED
      BY <3>6, <3>8
  <2>4. CASE ~Parser!IsCode(lines[k])
    <3>1. f[k] = f[k - 1]
      BY <2>1, <2>4 DEF Parser!AddLine
    <3>2. PICK at \in [1 .. Len(f[k]) -> 1 .. k - 1] :
            /\ \A j \in 1 .. Len(f[k]) : lines[at[j]] = Spelling(f[k][j])
            /\ \A j, l \in 1 .. Len(f[k]) : j < l => at[j] < at[l]
            /\ \A l \in 1 .. k - 1 :
                 Parser!IsCode(lines[l]) => \E j \in 1 .. Len(f[k]) : at[j] = l
      BY <2>2, <3>1 DEF WrittenUpTo, Fits
    <3>3. at \in [1 .. Len(f[k]) -> 1 .. k]
      BY <3>2
    <3>4. \A l \in 1 .. k :
            Parser!IsCode(lines[l]) => \E j \in 1 .. Len(f[k]) : at[j] = l
      BY <2>4, <3>2
    <3> QED
      BY <3>2, <3>3, <3>4 DEF WrittenUpTo, Fits
  <2> QED
    BY <2>3, <2>4
<1>5. WrittenUpTo(lines, n, f[n])
  <2> HIDE DEF Good
  <2>1. 0 .. n \subseteq Good
    BY <1>3, <1>4, UpTo
  <2> QED
    BY <2>1 DEF Good
<1>6. DOMAIN f[n] = 1 .. Len(f[n])
  BY <1>2
<1>7. WrittenIn(lines, f[n]) <=> Fits(lines, DOMAIN lines, f[n], DOMAIN f[n])
  BY Zenon DEF WrittenIn, Fits
<1> QED
  BY <1>1, <1>5, <1>6, <1>7 DEF WrittenUpTo

-----------------------------------------------------------------------------

(* A machine constructed from a text has a program and starts at its top. *)
LEMMA NewMachineShape ==
  ASSUME NEW lines, Len(lines) \in Nat
  PROVE  LET m == NewMachine(Parser!ParseProgram(lines))
         IN Shape(m) /\ m.status = "Ready" /\ m.program = Parser!ParseProgram(lines)
<1> DEFINE p == Parser!ParseProgram(lines)
<1>1. PICK f : Parses(f, lines, Len(lines)) /\ p = f[Len(lines)]
  BY ProgramIsParsed
<1> HIDE DEF p
<1>2. p \in Seq({Parser!ParseLine(lines[l]) : l \in 1 .. Len(lines)})
  <2>1. Len(lines) \in 0 .. Len(lines)
    OBVIOUS
  <2> QED
    BY <1>1, <2>1, ParsesSequence, Zenon
<1>3. Len(p) \in Nat /\ DOMAIN p = 1 .. Len(p)
  BY <1>2
<1>4. Shape(NewMachine(p)) /\ NewMachine(p).status = "Ready" /\ NewMachine(p).program = p
  BY <1>3 DEF Shape, NewMachine
<1> QED
  BY <1>4 DEF p

(***************************************************************************)
(* The invariant behind RestoredContinues.  What is compared is the data   *)
(* (Alike): a machine that is restored is Ready, whatever its source is,   *)
(* and only runs into the source's end again because the source Repeats.   *)
(***************************************************************************)
Comparable ==
  carried = "direct" \/ (carried # "none" /\ ~Accesses(vm["source"].program))

PairInv ==
  /\ text \in Texts
  /\ DOMAIN vm = {"source", "target"}
  /\ Shape(vm["source"]) /\ Shape(vm["target"])
  /\ vm["source"].program = Parser!ParseProgram(text)
  /\ vm["target"].program = vm["source"].program
  /\ Repeats(vm["source"])
  /\ Repeats(vm["target"])
  /\ Comparable =>
       /\ Alike(vm["source"], vm["target"])
       /\ vm["target"].status = "Ready" \/ Twins(vm["source"], vm["target"])

LEMMA PairInit == Init => PairInv
<1> SUFFICES ASSUME Init PROVE PairInv
  OBVIOUS
<1>1. Len(text) \in Nat
  BY VirtualMachineAssumption DEF Init
<1>2. PICK copy \in {text, DoubleSpaced(text)} :
        vm = [source |-> NewMachine(Parser!ParseProgram(text)),
              target |-> NewMachine(Parser!ParseProgram(copy))]
  BY DEF Init
<1>3. Len(DoubleSpaced(text)) = 2 * Len(text)
  BY <1>1 DEF DoubleSpaced
<1>4. /\ Len(copy) \in Nat
      /\ Parser!ParseProgram(copy) = Parser!ParseProgram(text)
  <2>1. CASE copy = text
    BY <1>1, <2>1
  <2>2. CASE copy = DoubleSpaced(text)
    BY <1>1, <1>3, <2>2, SpacingIsInvisible
  <2> QED
    BY <2>1, <2>2
<1>5. /\ DOMAIN vm = {"source", "target"}
      /\ vm["source"] = NewMachine(Parser!ParseProgram(text))
      /\ vm["target"] = vm["source"]
  BY <1>2, <1>4
<1>6. /\ Shape(vm["source"]) /\ vm["source"].status = "Ready"
      /\ vm["source"].program = Parser!ParseProgram(text)
  BY <1>1, <1>5, NewMachineShape
<1>7. Repeats(vm["source"])
  BY <1>6 DEF Repeats, Over
<1> QED
  BY <1>5, <1>6, <1>7 DEF PairInv, Comparable, Init

LEMMA TransferPreserves ==
  ASSUME PairInv, NEW path \in Paths, Transfer(path)
  PROVE  PairInv'
<1> DEFINE s == vm["source"]
           t == vm["target"]
           u == Restore(t, Received(Snapshot(s), path))
<1>1. /\ DOMAIN vm' = {"source", "target"}
      /\ vm'["source"] = s /\ vm'["target"] = u
      /\ carried' = path /\ text' = text
  BY DEF Transfer, PairInv
<1>2. path \in Path
  BY VirtualMachineAssumption
<1>3. /\ Received(Snapshot(s), path).regs = s.regs
      /\ Received(Snapshot(s), path).hi = s.hi
      /\ Received(Snapshot(s), path).lo = s.lo
      /\ Received(Snapshot(s), path).pc = s.pc
      /\ Received(Snapshot(s), path).bytes = s.bytes
      /\ path = "direct" => Received(Snapshot(s), path).pageTable = s.pageTable
  <2>1. CASE path = "direct"
    <3>1. Received(Snapshot(s), path) = Snapshot(s)
      BY <2>1 DEF Received
    <3> QED
      BY <3>1 DEF Snapshot
  <2>2. CASE path \in {"packet", "file"}
    <3>1. Received(Snapshot(s), path) = WithoutPageTable(Snapshot(s))
      BY <2>2 DEF Received, FromPacket, FromFile
    <3> QED
      BY <2>2, <3>1 DEF Snapshot, WithoutPageTable
  <2> QED
    BY <1>2, <2>1, <2>2 DEF Path
<1>4. /\ Shape(u) /\ u.program = t.program /\ u.status = "Ready"
      /\ u.regs = s.regs /\ u.hi = s.hi /\ u.lo = s.lo /\ u.pc = s.pc /\ u.bytes = s.bytes
      /\ path = "direct" => u.pageTable = s.pageTable
  <2> DEFINE r == Received(Snapshot(s), path)
  <2>1. u = Restore(t, r)
    OBVIOUS
  <2> HIDE DEF r, u
  <2>2. Shape(t) /\ Shape(s)
    BY DEF PairInv
  <2>3. r.regs = s.regs /\ r.hi = s.hi /\ r.lo = s.lo /\ r.pc = s.pc /\ r.bytes = s.bytes
        /\ (path = "direct" => r.pageTable = s.pageTable)
    BY <1>3 DEF r
  <2> HIDE DEF t, s
  <2> QED
    BY <2>1, <2>2, <2>3 DEF Restore, Shape
<1>5. Repeats(u)
  BY <1>4 DEF Repeats, Over
<1>6. Comparable' => Alike(s, u)
  BY <1>1, <1>4 DEF Comparable, Alike, PairInv
<1> HIDE DEF u
<1> QED
  BY <1>1, <1>4, <1>5, <1>6 DEF PairInv

LEMMA AdvancePreserves ==
  ASSUME PairInv, NEW ids, Advance(ids),
         carried = "none" \/ ids = {"source", "target"}
  PROVE  PairInv'
<1> DEFINE s == vm["source"]
           t == vm["target"]
           After(id) == IF id \in ids THEN RunForSlice(vm[id], Slice) ELSE vm[id]
<1>1. CASE UNCHANGED vm
  BY <1>1 DEF Advance, PairInv, Comparable
<1>2. CASE vm' = [id \in DOMAIN vm |-> After(id)]
  <2>1. /\ DOMAIN vm' = {"source", "target"}
        /\ vm'["source"] = After("source") /\ vm'["target"] = After("target")
    BY <1>2 DEF PairInv
  <2>2. Slice \in Nat \ {0}
    BY VirtualMachineAssumption
  <2>3. ASSUME NEW id \in {"source", "target"}
        PROVE  Kept(vm[id], After(id)) /\ Repeats(After(id))
    <3>1. Shape(vm[id]) /\ Repeats(vm[id])
      BY DEF PairInv
    <3>2. CASE id \in ids
      BY <2>2, <3>1, <3>2, SliceRepeats
    <3>3. CASE id \notin ids
      BY <3>1, <3>3 DEF Kept
    <3> QED
      BY <3>2, <3>3
  <2>4. ASSUME Comparable'
        PROVE  Twins(After("source"), After("target"))
    <3>1. carried' = carried
      BY DEF Advance
    <3>2. After("source").program = s.program
      BY <2>3 DEF Kept
    <3>3. Comparable
      BY <2>1, <2>4, <3>1, <3>2 DEF Comparable
    <3>4. ids = {"source", "target"}
      BY <3>3 DEF Comparable
    <3>5. /\ After("source") = RunForSlice(s, Slice)
          /\ After("target") = RunForSlice(t, Slice)
      BY <3>4
    <3>6. /\ Alike(s, t) /\ Shape(s) /\ Repeats(s)
          /\ t.status = "Ready" \/ Twins(s, t)
      BY <3>3 DEF PairInv
    <3> HIDE DEF s, t
    <3>7. CASE Twins(s, t)
      BY <2>2, <3>5, <3>7, SliceTwins
    <3>8. CASE t.status = "Ready"
      <4>1. RunForSlice(t, Slice) = Slept(t, Slice)
        BY <3>8, SliceIsSlept DEF Over
      <4>2. Twins(Slept(s, Slice), Slept(t, Slice))
        BY <2>2, <3>6, SleptTwins
      <4>3. CASE ~Over(s)
        BY <3>5, <4>1, <4>2, <4>3, SliceIsSlept
      <4>4. CASE Over(s)
        <5>1. Twins(s, Slept(s, Slice))
          BY <2>2, <3>6, <4>4, OverStays
        <5>2. RunForSlice(s, Slice) = s
          BY <4>4 DEF RunForSlice
        <5> QED
          BY <3>5, <4>1, <4>2, <5>1, <5>2, TwinsTransitive
      <4> QED
        BY <4>3, <4>4
    <3> QED
      BY <3>6, <3>7, <3>8
  <2> HIDE DEF After
  <2>5. /\ Shape(After("source")) /\ Shape(After("target"))
        /\ Repeats(After("source")) /\ Repeats(After("target"))
        /\ After("source").program = Parser!ParseProgram(text)
        /\ After("target").program = After("source").program
    BY <2>3 DEF Kept, PairInv
  <2>6. text' = text /\ text \in Texts
    BY DEF Advance, PairInv
  <2> QED
    BY <2>1, <2>4, <2>5, <2>6 DEF PairInv, Twins
<1> QED
  BY <1>1, <1>2 DEF Advance

(***************************************************************************)
(* No slice and no transfer lets the data of a source and of the target    *)
(* restored from it drift apart, nor a machine that stopped start again.   *)
(***************************************************************************)
THEOREM PairInductive == Spec => []PairInv
<1>1. Init => PairInv
  BY PairInit
<1>2. PairInv /\ [Next]_vars => PairInv'
  <2> SUFFICES ASSUME PairInv, [Next]_vars
               PROVE  PairInv'
    OBVIOUS
  <2>1. CASE \E id \in {"source", "target"} : RunOne(id)
    BY <2>1, AdvancePreserves DEF RunOne
  <2>2. CASE \E path \in Paths : Transfer(path)
    BY <2>2, TransferPreserves
  <2>3. CASE RunBoth
    BY <2>3, AdvancePreserves DEF RunBoth
  <2>4. CASE UNCHANGED vars
    BY <2>4 DEF vars, PairInv, Comparable
  <2> QED
    BY <2>1, <2>2, <2>3, <2>4 DEF Next
<1> QED
  BY <1>1, <1>2, PTL DEF Spec

(***************************************************************************)
(* A restored machine goes on exactly as the one whose snapshot it was     *)
(* given, whatever program, sizes and slice, and however far both had run. *)
(***************************************************************************)
THEOREM Continues == Spec => []RestoredContinues
<1>1. PairInv => RestoredContinues
  BY DEF PairInv, Comparable, RestoredContinues, SameFuture, SameStop, Computed, Alike, Twins
<1> QED
  BY <1>1, PairInductive, PTL

(***************************************************************************)
(* What a machine executes is what was written, for texts of any length.   *)
(***************************************************************************)
THEOREM Parsed == Spec => []ParsedAsWritten
<1>1. PairInv => ParsedAsWritten
  <2> SUFFICES ASSUME PairInv, text \in Written
               PROVE  WrittenIn(text, Parser!ParseProgram(text))
    BY DEF PairInv, ParsedAsWritten
  <2>1. Len(text) \in Nat /\ DOMAIN text = 1 .. Len(text)
    BY VirtualMachineAssumption DEF PairInv
  <2> QED
    BY <2>1, ReadAsWritten
<1> QED
  BY <1>1, PairInductive, PTL

-----------------------------------------------------------------------------

LEMMA LoopAdds ==
  ASSUME NEW m, NEW a \in Nat, NEW b \in Nat
  PROVE  Loop(Loop(m, a), b) = Loop(m, a + b)
<1> DEFINE Good == {k \in Nat : Loop(Loop(m, a), k) = Loop(m, a + k)}
<1>1. 0 \in Good
  BY LoopStarts
<1>2. ASSUME NEW k \in 1 .. b, k - 1 \in Good
      PROVE  k \in Good
  <2>1. Loop(Loop(m, a), k) = Turn(Loop(Loop(m, a), k - 1))
    <3>1. k - 1 \in Nat /\ (k - 1) + 1 = k
      OBVIOUS
    <3> QED
      BY <3>1, LoopTurns
  <2>2. Loop(m, a + k) = Turn(Loop(m, a + (k - 1)))
    <3>1. a + (k - 1) \in Nat /\ (a + (k - 1)) + 1 = a + k
      OBVIOUS
    <3> QED
      BY <3>1, LoopTurns
  <2> QED
    BY <1>2, <2>1, <2>2
<1> HIDE DEF Good
<1>3. b \in Good
  BY <1>1, <1>2, UpTo
<1> QED
  BY <1>3 DEF Good

(* The instruction at the pc of a running machine, seen from outside. *)
LEMMA TurnOutcome ==
  ASSUME NEW m, Shape(m), m.status = "Running", InProgram(m)
  PROVE  LET x == Turn(m)
             outcome == OutcomeOf(m, Current(m))
         IN \/ /\ x.pc = m.pc + 1 /\ x.status = "Running"
               /\ outcome = "Retire"
            \/ /\ x.pc = m.pc /\ x.status \in {"Blocked", "Halted", "Faulted"}
               /\ outcome = IF x.status = "Halted" THEN "Halt"
                            ELSE IF x.status = "Blocked" THEN "Migrate" ELSE "Trap"
<1> DEFINE i == Current(m)
           x == ExecuteOne(m, i)
<1>1. Turn(m) = x
  BY DEF Turn
<1>2. OutcomeOf(m, i) = CASE x.pc = m.pc + 1 -> "Retire"
                          [] x.status = "Halted" -> "Halt"
                          [] x.status = "Blocked" -> "Migrate"
                          [] OTHER -> "Trap"
  BY Zenon DEF OutcomeOf
<1>3. \/ x.pc = m.pc + 1 /\ x.status = "Running"
      \/ x.pc = m.pc /\ x.status \in {"Blocked", "Halted", "Faulted"}
  <2>1. CASE \E y : Computes(m, y) /\ ExecuteOne(m, i) = Retire(y)
    BY <2>1 DEF Computes, Kept, Shape, Retire
  <2>2. CASE \E fault : ExecuteOne(m, i) = Trap(m, fault)
    BY <2>2 DEF Shape, Trap
  <2>3. CASE \/ ExecuteOne(m, i) = [m EXCEPT !.pending = TRUE, !.status = "Blocked"]
             \/ ExecuteOne(m, i) = [m EXCEPT !.status = "Halted"]
    BY <2>3 DEF Shape
  <2> QED
    BY <2>1, <2>2, <2>3, FourOutcomes
<1> HIDE DEF x
<1>4. CASE x.pc = m.pc + 1 /\ x.status = "Running"
  <2>1. x.pc = m.pc + 1 /\ x.status # "Halted" /\ x.status # "Blocked"
    BY <1>4
  <2>2. OutcomeOf(m, i) = "Retire"
    BY <1>2, <2>1, Zenon
  <2> QED
    BY <1>1, <1>4, <2>2
<1>5. CASE x.pc = m.pc /\ x.status = "Halted"
  <2>1. x.pc # m.pc + 1 /\ x.status # "Blocked"
    BY <1>5 DEF Shape
  <2>2. OutcomeOf(m, i) = "Halt"
    BY <1>2, <1>5, <2>1, Zenon
  <2> QED
    BY <1>1, <1>5, <2>2
<1>6. CASE x.pc = m.pc /\ x.status = "Blocked"
  <2>1. x.pc # m.pc + 1 /\ x.status # "Halted"
    BY <1>6 DEF Shape
  <2>2. OutcomeOf(m, i) = "Migrate"
    BY <1>2, <1>6, <2>1, Zenon
  <2> QED
    BY <1>1, <1>6, <2>1, <2>2
<1>7. CASE x.pc = m.pc /\ x.status = "Faulted"
  <2>1. x.pc # m.pc + 1 /\ x.status # "Halted" /\ x.status # "Blocked"
    BY <1>7 DEF Shape
  <2>2. OutcomeOf(m, i) = "Trap"
    BY <1>2, <2>1, Zenon
  <2> QED
    BY <1>1, <1>7, <2>1, <2>2
<1> QED
  BY <1>3, <1>4, <1>5, <1>6, <1>7

(***************************************************************************)
(* The n turns after m: k instructions retire, and then the turns are used *)
(* up, or the program is, or the next instruction stops the machine.       *)
(***************************************************************************)
Retires(m, k) ==
  /\ \A i \in 0 .. k :
       /\ Loop(m, i).pc = m.pc + i /\ Loop(m, i).status = "Running"
       /\ Kept(m, Loop(m, i))
  /\ \A i \in 0 .. k - 1 :
       InProgram(Loop(m, i)) /\ OutcomeOf(Loop(m, i), Current(Loop(m, i))) = "Retire"

StageOf(m, n, k) ==
  /\ Retires(m, k)
  /\ \/ k = n
     \/ k < n /\ ~InProgram(Loop(m, k)) /\ Loop(m, n) = Loop(m, k)
     \/ /\ k < n /\ InProgram(Loop(m, k)) /\ Loop(m, n) = Turn(Loop(m, k))
        /\ Loop(m, n).status # "Running"

LEMMA Stages ==
  ASSUME NEW m, Shape(m), m.status = "Running", NEW n \in Nat
  PROVE  \E k \in 0 .. n : StageOf(m, n, k)
<1> DEFINE Good == {j \in Nat : \E k \in 0 .. j : StageOf(m, j, k)}
<1>1. 0 \in Good
  <2>1. StageOf(m, 0, 0)
    BY LoopStarts DEF StageOf, Retires, Kept, Shape
  <2> QED
    BY <2>1
<1>2. ASSUME NEW j \in 1 .. n, j - 1 \in Good
      PROVE  j \in Good
  <2>1. PICK k \in 0 .. j - 1 : StageOf(m, j - 1, k)
    BY <1>2
  <2> DEFINE x == Loop(m, k)
  <2>2. Loop(m, j) = Turn(Loop(m, j - 1))
    <3>1. j - 1 \in Nat /\ (j - 1) + 1 = j
      OBVIOUS
    <3> QED
      BY <3>1, LoopTurns
  <2>3. k \in 0 .. k /\ k \in Nat
    OBVIOUS
  <2>4. Shape(x) /\ x.status = "Running" /\ x.pc = m.pc + k
    BY <2>1, <2>3 DEF StageOf, Retires, Kept
  <2>5. CASE k = j - 1 /\ ~InProgram(x)
    <3>1. Loop(m, j) = x
      BY <2>2, <2>5 DEF Turn
    <3>2. StageOf(m, j, k)
      BY <2>1, <2>5, <3>1 DEF StageOf
    <3> QED
      BY <3>2
  <2>6. CASE k = j - 1 /\ InProgram(x) /\ Turn(x).status # "Running"
    <3>1. StageOf(m, j, k)
      BY <2>1, <2>2, <2>6 DEF StageOf
    <3> QED
      BY <3>1
  <2>7. CASE k = j - 1 /\ InProgram(x) /\ Turn(x).status = "Running"
    <3>1. Loop(m, j) = Turn(x)
      BY <2>2, <2>7
    <3>2. Turn(x).pc = x.pc + 1 /\ OutcomeOf(x, Current(x)) = "Retire"
      BY <2>4, <2>7, TurnOutcome
    <3>3. Kept(m, Turn(x))
      BY <2>1, <2>3, <2>4, TurnKeeps DEF StageOf, Retires, Kept
    <3>4. Retires(m, j)
      <4>1. ASSUME NEW i \in 0 .. j
            PROVE  /\ Loop(m, i).pc = m.pc + i /\ Loop(m, i).status = "Running"
                   /\ Kept(m, Loop(m, i))
        <5>1. CASE i = j
          BY <2>4, <2>7, <3>1, <3>2, <3>3, <5>1 DEF Shape
        <5>2. CASE i \in 0 .. k
          BY <2>1, <5>2 DEF StageOf, Retires
        <5> QED
          BY <2>7, <5>1, <5>2
      <4>2. ASSUME NEW i \in 0 .. j - 1
            PROVE  /\ InProgram(Loop(m, i))
                   /\ OutcomeOf(Loop(m, i), Current(Loop(m, i))) = "Retire"
        <5>1. CASE i = k
          BY <2>7, <3>2, <5>1
        <5>2. CASE i \in 0 .. k - 1
          BY <2>1, <5>2 DEF StageOf, Retires
        <5> QED
          BY <2>7, <5>1, <5>2
      <4> QED
        BY <4>1, <4>2 DEF Retires
    <3>5. StageOf(m, j, j)
      BY <3>4 DEF StageOf
    <3> QED
      BY <3>5
  <2>8. CASE k < j - 1
    <3>1. Turn(Loop(m, j - 1)) = Loop(m, j - 1)
      <4>1. CASE ~InProgram(x) /\ Loop(m, j - 1) = x
        BY <4>1 DEF Turn
      <4>2. CASE Loop(m, j - 1).status # "Running"
        BY <4>2 DEF Turn
      <4> QED
        BY <2>1, <2>8, <4>1, <4>2 DEF StageOf
    <3>2. StageOf(m, j, k)
      BY <2>1, <2>2, <2>8, <3>1 DEF StageOf
    <3> QED
      BY <3>2
  <2> QED
    BY <2>1, <2>5, <2>6, <2>7, <2>8
<1> HIDE DEF Good
<1>3. n \in Good
  BY <1>1, <1>2, UpTo
<1> QED
  BY <1>3 DEF Good

LEMMA AlikeTransitive ==
  ASSUME NEW m, NEW n, NEW x, Alike(m, n), Alike(n, x)
  PROVE  Alike(m, x)
BY DEF Alike

LEMMA SettledAlike ==
  ASSUME NEW m, Shape(m)
  PROVE  Alike(Settled(m), m)
BY DEF Settled, Alike, Shape

(* Stopping changes nothing that is compared. *)
LEMMA StopAlike ==
  ASSUME NEW m, Shape(m), m.status = "Running", InProgram(m), Turn(m).status # "Running"
  PROVE  Alike(Turn(m), m)
<1> DEFINE x == Turn(m)
<1>1. x = ExecuteOne(m, Current(m))
  BY DEF Turn
<1>2. Twins(Rerun(x), m)
  BY <1>1, ExecuteStops
<1>3. Shape(x)
  BY TurnKeeps DEF Kept
<1> HIDE DEF x
<1>4. Alike(x, Rerun(x))
  BY <1>3 DEF Alike, Rerun, Shape
<1>5. Alike(x, m)
  BY <1>2, <1>4, AlikeTransitive DEF Twins
<1> QED
  BY <1>5 DEF x

(***************************************************************************)
(* The source has come to its pc by retiring what is before it: a replay   *)
(* of its program from the top would be where it is, with the same data.   *)
(***************************************************************************)
Replayed(p, q) == Loop([NewMachine(p) EXCEPT !.status = "Running"], q)

Replays(s) ==
  /\ Alike(s, Replayed(s.program, s.pc))
  /\ Replayed(s.program, s.pc).status = "Running"
  /\ s.pc <= Len(s.program)

OutcomesOf(p) ==
  [k \in 1 .. Len(p) |->
     IF Replayed(p, k - 1).pc = k - 1 THEN OutcomeOf(Replayed(p, k - 1), p[k]) ELSE "Trap"]

LEMMA OutcomesAre == Outcomes = OutcomesOf(vm["source"].program)
BY DEF Outcomes, OutcomesOf, Replayed

(* A slice of a machine that is not over, in the words of SlicedMachines. *)
LEMMA SliceOutcome ==
  ASSUME NEW s, Shape(s), Replays(s), ~Over(s), NEW n \in Nat \ {0},
         NEW c, c = OutcomesOf(s.program)
  PROVE  LET y == RunForSlice(s, n)
         IN \E k \in 0 .. Len(c) :
              /\ k <= n /\ s.pc + k <= Len(c)
              /\ \A j \in 1 .. k : c[s.pc + j] = "Retire"
              /\ k = n \/ s.pc + k = Len(c) \/ c[s.pc + k + 1] # "Retire"
              /\ y.pc = s.pc + k
              /\ Over(y) <=> \/ s.pc + k = Len(c)
                             \/ k < n /\ c[s.pc + k + 1] \in {"Halt", "Trap"}
              /\ Replays(y)
<1> DEFINE p == s.program
           m == Replayed(p, s.pc)
           L(i) == Loop(m, i)
           x == Loop(Rerun(s), n)
           y == Settled(x)
<1>1. /\ s.pc \in Nat /\ s.pc <= Len(p) /\ Len(p) \in Nat
      /\ Alike(s, m) /\ m.status = "Running"
      /\ Shape(m) /\ m.pc = s.pc /\ m.program = p
  BY DEF Shape, Replays, Alike
<1>2. RunForSlice(s, n) = y
  BY SliceIsSlept DEF Slept
<1>3. Len(c) = Len(p)
  BY <1>1 DEF OutcomesOf
<1>4. Twins(x, L(n))
  <2>1. Twins(Rerun(s), m)
    <3> HIDE DEF m
    <3> QED
      BY <1>1 DEF Rerun, Twins, Alike, Shape
  <2> QED
    BY <2>1, LoopTwins
<1>5. \A i \in Nat : L(i) = Replayed(p, s.pc + i)
  BY <1>1, LoopAdds DEF Replayed
<1>6. PICK k \in 0 .. n : StageOf(m, n, k)
  BY <1>1, Stages
<1> HIDE DEF m, x
<1>7. /\ k \in Nat /\ k <= n
      /\ \A i \in 0 .. k : /\ L(i).pc = s.pc + i /\ L(i).status = "Running"
                           /\ L(i).program = p /\ Shape(L(i))
      /\ \A i \in 0 .. k - 1 :
           s.pc + i < Len(p) /\ OutcomeOf(L(i), p[s.pc + i + 1]) = "Retire"
  <2>1. \A i \in 0 .. k : /\ L(i).pc = s.pc + i /\ L(i).status = "Running"
                          /\ L(i).program = p /\ Shape(L(i))
    BY <1>1, <1>6 DEF StageOf, Retires, Kept
  <2>2. \A i \in 0 .. k - 1 :
          s.pc + i < Len(p) /\ OutcomeOf(L(i), p[s.pc + i + 1]) = "Retire"
    BY <1>6, <2>1 DEF StageOf, Retires, InProgram, Current
  <2> QED
    BY <2>1, <2>2
<1>8. s.pc + k <= Len(p)
  <2>1. CASE k = 0
    BY <1>1, <2>1
  <2>2. CASE k # 0
    <3>1. k - 1 \in 0 .. k - 1
      BY <1>7, <2>2
    <3>2. s.pc + (k - 1) < Len(p)
      BY <1>7, <3>1
    <3> QED
      BY <1>1, <1>7, <3>2
  <2> QED
    BY <2>1, <2>2
(* What the replay finds at each place the slice goes through. *)
<1>9. \A i \in 0 .. k : s.pc + i < Len(p) =>
        c[s.pc + i + 1] = OutcomeOf(L(i), p[s.pc + i + 1])
  <2> SUFFICES ASSUME NEW i \in 0 .. k, s.pc + i < Len(p)
               PROVE  c[s.pc + i + 1] = OutcomeOf(L(i), p[s.pc + i + 1])
    OBVIOUS
  <2>1. s.pc + i + 1 \in 1 .. Len(p) /\ (s.pc + i + 1) - 1 = s.pc + i /\ i \in Nat
    BY <1>1
  <2>2. L(i) = Replayed(p, s.pc + i)
    BY <1>5, <2>1
  <2>3. L(i).pc = s.pc + i
    BY <1>7
  <2> QED
    BY <2>1, <2>2, <2>3 DEF OutcomesOf
<1>10. \A j \in 1 .. k : c[s.pc + j] = "Retire"
  <2> SUFFICES ASSUME NEW j \in 1 .. k PROVE c[s.pc + j] = "Retire"
    OBVIOUS
  <2>1. j - 1 \in 0 .. k - 1 /\ j - 1 \in 0 .. k /\ s.pc + (j - 1) + 1 = s.pc + j
    BY <1>1, <1>7
  <2>2. s.pc + (j - 1) < Len(p) /\ OutcomeOf(L(j - 1), p[s.pc + (j - 1) + 1]) = "Retire"
    BY <1>7, <2>1
  <2>3. c[s.pc + (j - 1) + 1] = "Retire"
    BY <1>9, <2>1, <2>2
  <2> QED
    BY <2>1, <2>3
<1> DEFINE z == L(n)
<1>11. /\ Shape(x) /\ x.pc = z.pc /\ x.status = z.status /\ x.program = z.program
       /\ Alike(x, z) /\ Shape(z)
  BY <1>4 DEF Twins, Alike
<1>12. /\ y.pc = z.pc /\ y.program = z.program
       /\ y.status = IF z.pc >= Len(z.program) THEN "Halted"
                     ELSE IF z.status = "Running" THEN "Ready" ELSE z.status
       /\ Alike(y, x)
  <2>1. InProgram(x) <=> ~(z.pc >= Len(z.program))
    BY <1>11 DEF InProgram, Shape
  <2> HIDE DEF z
  <2> QED
    BY <1>11, <2>1, SettledShape, SettledAlike DEF Kept
<1> HIDE DEF y
<1>13. /\ L(k).pc = s.pc + k /\ L(k).status = "Running" /\ L(k).program = p /\ Shape(L(k))
       /\ L(k) = Replayed(p, s.pc + k)
       /\ InProgram(L(k)) <=> s.pc + k < Len(p)
       /\ Current(L(k)) = p[s.pc + k + 1]
  <2>1. k \in 0 .. k
    BY <1>7
  <2>2. L(k).pc = s.pc + k /\ L(k).status = "Running" /\ L(k).program = p /\ Shape(L(k))
    BY <1>7, <2>1
  <2> QED
    BY <1>5, <1>7, <2>2 DEF InProgram, Current
(* The three ways a slice ends. *)
<1>14. CASE k = n \/ (k < n /\ s.pc + k = Len(p))
  <2>1. z = L(k)
    BY <1>1, <1>6, <1>7, <1>8, <1>13, <1>14 DEF StageOf
  <2>2. /\ y.pc = s.pc + k /\ y.program = p
        /\ y.status = IF s.pc + k = Len(p) THEN "Halted" ELSE "Ready"
    <3>1. z.pc = s.pc + k /\ z.program = p /\ z.status = "Running"
      BY <1>13, <2>1
    <3>2. s.pc + k >= Len(p) <=> s.pc + k = Len(p)
      <4> DEFINE a == s.pc + k
      <4>1. a \in Nat /\ Len(p) \in Nat /\ a <= Len(p)
        BY <1>1, <1>7, <1>8
      <4> HIDE DEF a, p
      <4>2. a >= Len(p) <=> a = Len(p)
        BY <4>1
      <4> QED
        BY <4>2 DEF a
    <3> HIDE DEF z, p
    <3> QED
      BY <1>12, <3>1, <3>2
  <2>3. Over(y) <=> s.pc + k = Len(p)
    BY <2>2 DEF Over
  <2>4. Replays(y)
    BY <1>8, <1>11, <1>12, <1>13, <2>1, <2>2, AlikeTransitive DEF Replays
  <2> QED
    <3>1. /\ k \in 0 .. Len(c) /\ k <= n /\ s.pc + k <= Len(c)
          /\ k = n \/ s.pc + k = Len(c) \/ c[s.pc + k + 1] # "Retire"
      BY <1>1, <1>3, <1>7, <1>8, <1>14
    <3>2. Over(y) <=> \/ s.pc + k = Len(c)
                      \/ k < n /\ c[s.pc + k + 1] \in {"Halt", "Trap"}
      BY <1>3, <1>7, <1>14, <2>3
    <3>3. y.pc = s.pc + k
      BY <2>2
    <3> QED
      BY <1>2, <1>10, <2>4, <3>1, <3>2, <3>3, Zenon
<1>15. CASE k < n /\ s.pc + k < Len(p)
  <2>1. z = Turn(L(k)) /\ z.status # "Running" /\ InProgram(L(k))
    BY <1>6, <1>7, <1>13, <1>15 DEF StageOf
  <2> DEFINE o == OutcomeOf(L(k), Current(L(k)))
  <2>2. /\ z.pc = s.pc + k /\ z.status \in {"Blocked", "Halted", "Faulted"}
        /\ o = IF z.status = "Halted" THEN "Halt"
               ELSE IF z.status = "Blocked" THEN "Migrate" ELSE "Trap"
    BY <1>13, <2>1, TurnOutcome
  <2>3. Alike(z, L(k)) /\ z.program = p
    <3>1. Alike(z, L(k))
      BY <1>13, <2>1, StopAlike
    <3> QED
      BY <1>13, <3>1 DEF Alike
  <2>4. c[s.pc + k + 1] = o
    BY <1>7, <1>9, <1>13, <1>15
  <2>5. y.pc = s.pc + k /\ y.program = p /\ y.status = z.status
    BY <1>1, <1>7, <1>12, <1>15, <2>2, <2>3
  <2> HIDE DEF o, z
  <2>6. Over(y) <=> o \in {"Halt", "Trap"}
    BY <2>2, <2>5 DEF Over
  <2>7. Replays(y)
    BY <1>8, <1>11, <1>12, <1>13, <2>3, <2>5, AlikeTransitive DEF Replays
  <2>8. o # "Retire"
    BY <2>2
  <2> QED
    <3>1. /\ k \in 0 .. Len(c) /\ k <= n /\ s.pc + k <= Len(c)
          /\ k = n \/ s.pc + k = Len(c) \/ c[s.pc + k + 1] # "Retire"
      BY <1>1, <1>3, <1>7, <1>8, <2>4, <2>8
    <3>2. Over(y) <=> \/ s.pc + k = Len(c)
                      \/ k < n /\ c[s.pc + k + 1] \in {"Halt", "Trap"}
      BY <1>1, <1>3, <1>7, <1>15, <2>4, <2>6
    <3>3. y.pc = s.pc + k
      BY <2>5
    <3> QED
      BY <1>2, <1>10, <2>7, <3>1, <3>2, <3>3, Zenon
<1>16. \/ k = n \/ (k < n /\ s.pc + k = Len(p))
       \/ k < n /\ s.pc + k < Len(p)
  <2> DEFINE a == s.pc + k
             b == Len(p)
  <2>1. a \in Nat /\ b \in Nat /\ a <= b
    BY <1>1, <1>8
  <2> HIDE DEF a, b
  <2>2. (k = n \/ (k < n /\ a = b)) \/ (k < n /\ a < b)
    BY <2>1
  <2> QED
    BY <2>2, Zenon DEF a, b
<1> QED
  BY <1>14, <1>15, <1>16, Zenon

(* The source as SlicedMachines sees it. *)
ReplayInv == Replays(vm["source"])

LEMMA ReplayInit == Init => ReplayInv
<1> SUFFICES ASSUME Init PROVE ReplayInv
  OBVIOUS
<1> DEFINE p == Parser!ParseProgram(text)
           s == NewMachine(p)
           r == [s EXCEPT !.status = "Running"]
<1>1. Len(text) \in Nat
  BY VirtualMachineAssumption DEF Init
<1>2. vm["source"] = s
  BY DEF Init
<1>3. Shape(s) /\ s.program = p
  BY <1>1, NewMachineShape
<1>4. s.pc = 0
  BY DEF NewMachine
<1>5. Replayed(s.program, s.pc) = r
  BY <1>3, <1>4, LoopStarts DEF Replayed
<1> HIDE DEF s
<1>6. Alike(s, r) /\ r.status = "Running"
  BY <1>3 DEF Alike, Shape
<1> QED
  BY <1>2, <1>3, <1>4, <1>5, <1>6 DEF ReplayInv, Replays, Shape

(* No step but a slice of its own touches the source. *)
LEMMA SourceSteps ==
  ASSUME PairInv, [Next]_vars
  PROVE  \/ vm'["source"] = vm["source"]
         \/ vm'["source"] = RunForSlice(vm["source"], Slice)
<1>1. ASSUME NEW ids, Advance(ids)
      PROVE  \/ vm'["source"] = vm["source"]
             \/ vm'["source"] = RunForSlice(vm["source"], Slice)
  <2>1. "source" \in DOMAIN vm
    BY DEF PairInv
  <2> QED
    BY <1>1, <2>1 DEF Advance
<1>2. CASE \E path \in Paths : Transfer(path)
  BY <1>2 DEF Transfer, PairInv
<1> QED
  BY <1>1, <1>2 DEF Next, RunOne, RunBoth, vars

LEMMA OverIsBoolean == ASSUME NEW m PROVE Over(m) \in BOOLEAN
<1> DEFINE D == {"Halted", "Faulted"}
<1>1. ASSUME NEW S PROVE (m.status \in S) \in BOOLEAN
  OBVIOUS
<1>2. (m.status \in D) \in BOOLEAN
  <2> HIDE DEF D
  <2> QED
    BY <1>1
<1> QED
  BY <1>2, Zenon DEF Over

LEMMA InitAbstract == Init => Abstract!AbsInit
<1> SUFFICES ASSUME Init PROVE Abstract!AbsInit
  OBVIOUS
<1>1. vm["source"].pc = 0 /\ vm["source"].status = "Ready"
  BY DEF Init, NewMachine
<1>2. ~Over(vm["source"])
  BY <1>1 DEF Over
<1>3. \A id \in {"source"} : Over(vm[id]) = FALSE
  <2>1. Over(vm["source"]) \in BOOLEAN
    BY OverIsBoolean
  <2>2. Over(vm["source"]) = FALSE
    BY <1>2, <2>1, Zenon
  <2> QED
    BY <2>2, Zenon
<1>4. [id \in {"source"} |-> Over(vm[id])] = [id \in {"source"} |-> FALSE]
  BY <1>3, Zenon
<1>5. [id \in {"source"} |-> vm[id].pc] = [id \in {"source"} |-> 0]
  BY <1>1
<1> QED
  BY <1>4, <1>5, Zenon DEF Abstract!AbsInit

(* EXCEPT, element by element. *)
LEMMA OneReplaced ==
  ASSUME NEW S, NEW f, NEW g, NEW x \in S, NEW v,
         f = [i \in S |-> f[i]], g = [i \in S |-> g[i]],
         g[x] = v, \A i \in S \ {x} : g[i] = f[i]
  PROVE  g = [f EXCEPT ![x] = v]
OBVIOUS

(* A slice is one step of the abstract machine. *)
LEMMA SliceAbstract ==
  ASSUME PairInv, ReplayInv, ~Over(vm["source"]),
         vm'["source"] = RunForSlice(vm["source"], Slice)
  PROVE  Abstract!AbsNext /\ ReplayInv'
<1> DEFINE s == vm["source"]
           y == vm'["source"]
           c == OutcomesOf(s.program)
           code == [id \in {"source"} |-> Outcomes]
           quota == [id \in {"source"} |-> Slice]
           done == [id \in {"source"} |-> vm[id].pc]
           over == [id \in {"source"} |-> Over(vm[id])]
<1>1. /\ Shape(s) /\ Repeats(s) /\ Replays(s) /\ ~Over(s)
      /\ Slice \in Nat \ {0}
  BY VirtualMachineAssumption DEF PairInv, ReplayInv
<1>2. PICK k \in 0 .. Len(c) :
        /\ k <= Slice /\ s.pc + k <= Len(c)
        /\ \A j \in 1 .. k : c[s.pc + j] = "Retire"
        /\ k = Slice \/ s.pc + k = Len(c) \/ c[s.pc + k + 1] # "Retire"
        /\ y.pc = s.pc + k
        /\ Over(y) <=> \/ s.pc + k = Len(c)
                       \/ k < Slice /\ c[s.pc + k + 1] \in {"Halt", "Trap"}
        /\ Replays(y)
  <2> HIDE DEF s, c
  <2> QED
    BY <1>1, SliceOutcome DEF c, s
<1>3. Outcomes = c
  BY OutcomesAre
<1>4. y.program = s.program
  BY <1>1, SliceRepeats DEF Kept
<1>5. Outcomes' = c
  BY <1>4 DEF Outcomes, OutcomesOf, Replayed
<1> HIDE DEF c, s, y
<1>6. /\ code["source"] = c /\ quota["source"] = Slice
      /\ done["source"] = s.pc /\ (over["source"] <=> Over(s))
      /\ code' = code /\ quota' = quota
  BY <1>3, <1>5 DEF s
<1>7. done' = [done EXCEPT !["source"] = @ + k]
  BY <1>2 DEF s, y
<1>8. Abstract!SliceRetires("source", k)
  BY <1>2, <1>6 DEF Abstract!SliceRetires
<1>9. Over(y) <=> Abstract!SliceFinishes("source", k)
  BY <1>2, <1>6 DEF Abstract!SliceFinishes
<1>10. over' = [over EXCEPT !["source"] = Abstract!SliceFinishes("source", k)]
  <2>1. Over(y) \in BOOLEAN
    BY OverIsBoolean
  <2>2. Abstract!SliceFinishes("source", k) \in BOOLEAN
    BY Zenon DEF Abstract!SliceFinishes
  <2>3. Over(y) = Abstract!SliceFinishes("source", k)
    BY <1>9, <2>1, <2>2, Zenon
  <2>4. over'["source"] = Abstract!SliceFinishes("source", k)
    BY <2>3, Zenon DEF y
  <2>5. over = [id \in {"source"} |-> over[id]] /\ over' = [id \in {"source"} |-> over'[id]]
    BY Zenon
  <2>6. \A id \in {"source"} \ {"source"} : over'[id] = over[id]
    OBVIOUS
  <2> HIDE DEF over
  <2> QED
    BY <2>4, <2>5, <2>6, OneReplaced, Zenon
<1>11. Abstract!GiveSlice("source", k)
  BY <1>1, <1>6, <1>7, <1>8, <1>10, Zenon DEF Abstract!GiveSlice
<1>12. k \in 0 .. Len(code["source"])
  BY <1>6
<1>13. ReplayInv'
  BY <1>2 DEF ReplayInv, y
<1> QED
  BY <1>11, <1>12, <1>13, Zenon DEF Abstract!AbsNext

LEMMA StepAbstract ==
  ASSUME PairInv, ReplayInv, [Next]_vars
  PROVE  [Abstract!AbsNext]_(Abstract!absVars) /\ ReplayInv'
<1>1. CASE vm'["source"] = vm["source"]
  <2>1. UNCHANGED Abstract!absVars
    BY <1>1 DEF Abstract!absVars, Outcomes
  <2> QED
    BY <1>1, <2>1 DEF ReplayInv
<1>2. CASE vm'["source"] = RunForSlice(vm["source"], Slice) /\ vm'["source"] # vm["source"]
  <2>1. ~Over(vm["source"])
    BY <1>2 DEF RunForSlice
  <2> QED
    BY <1>2, <2>1, SliceAbstract
<1> QED
  BY <1>1, <1>2, SourceSteps

(***************************************************************************)
(* A machine with all its data, whatever the program computes, is one of   *)
(* the machines HypervisorCore multiplexes: outcomes are all a scheduler,  *)
(* the metrics or a migration can see of it.                               *)
(***************************************************************************)
THEOREM Suffices == Spec => OutcomesSuffice
<1>1. Init => Abstract!AbsInit /\ ReplayInv
  BY InitAbstract, ReplayInit
<1>2. PairInv /\ ReplayInv /\ [Next]_vars => [Abstract!AbsNext]_(Abstract!absVars) /\ ReplayInv'
  BY StepAbstract
<1> QED
  BY <1>1, <1>2, PairInductive, PTL DEF Spec, OutcomesSuffice, Abstract!AbsSpec

=============================================================================
