----------------------- MODULE LegacyHypervisorProofs -----------------------
(***************************************************************************)
(* Proofs about LegacyHypervisor, for programs, slices and registers of    *)
(* any number and width: the two machines do not disturb each other and    *)
(* stay in step, and the loop is left only when both programs are done.    *)
(***************************************************************************)
EXTENDS LegacyHypervisor, WellFoundedInduction, FiniteSetTheorems, TLAPS

-----------------------------------------------------------------------------
(* Alone is defined by recursion over the lines of a program. *)

(* A set of numbers that is not empty has a least element. *)
LEMMA Least ==
  ASSUME NEW T, T \subseteq Nat, T # {}
  PROVE  \E n \in T : \A k \in T : n <= k
<1>1. PICK n \in T : \A k \in T : ~(<<k, n>> \in OpToRel(<, Nat))
  BY NatLessThanWellFounded, WFMin
<1>2. \A k \in T : ~(k < n)
  BY <1>1 DEF OpToRel
<1> QED
  BY <1>2

(* The machines after 0 to n lines of p. *)
IsRun(f, m, p, n) ==
  f = [k \in 0 .. n |-> IF k = 0 THEN m ELSE After(f[k - 1], p[k])]

(* A run of n lines can be made one longer, so there is one of any length. *)
LEMMA RunExists ==
  ASSUME NEW m, NEW p
  PROVE  \A n \in Nat : \E f : IsRun(f, m, p, n)
<1> DEFINE Missing == {n \in Nat : ~ \E f : IsRun(f, m, p, n)}
<1>1. CASE Missing = {}
  BY <1>1
<1>2. CASE Missing # {}
  <2>1. PICK n \in Missing : \A k \in Missing : n <= k
    BY <1>2, Least
  <2>2. n # 0
    <3> DEFINE f == [k \in 0 .. 0 |-> m]
    <3>1. IsRun(f, m, p, 0)
      BY DEF IsRun
    <3> QED
      BY <3>1
  <2>3. PICK f : IsRun(f, m, p, n - 1)
    BY <2>1, <2>2
  <2> DEFINE g == [k \in 0 .. n |-> IF k = n THEN After(f[n - 1], p[n]) ELSE f[k]]
  <2>4. ASSUME NEW k \in 0 .. n
        PROVE  g[k] = IF k = 0 THEN m ELSE After(g[k - 1], p[k])
    BY <2>2, <2>3 DEF IsRun
  <2>5. IsRun(g, m, p, n)
    BY <2>4, Zenon DEF IsRun
  <2> QED
    BY <2>5
<1> QED
  BY <1>1, <1>2

(* Two runs agree as far as both go. *)
LEMMA RunUnique ==
  ASSUME NEW m, NEW p, NEW n \in Nat, NEW l \in n .. n + 1,
         NEW f, IsRun(f, m, p, n), NEW g, IsRun(g, m, p, l)
  PROVE  \A k \in 0 .. n : f[k] = g[k]
<1> DEFINE Differ == {k \in 0 .. n : f[k] # g[k]}
<1>1. CASE Differ = {}
  BY <1>1
<1>2. CASE Differ # {}
  <2> HIDE DEF Differ
  <2>1. PICK k \in Differ : \A j \in Differ : k <= j
    <3>1. Differ \subseteq Nat
      BY DEF Differ
    <3> QED
      BY <1>2, <3>1, Least
  <2> USE DEF Differ
  <2>2. k # 0 => f[k - 1] = g[k - 1]
    BY <2>1
  <2> QED
    BY <2>1, <2>2 DEF IsRun
<1> QED
  BY <1>1, <1>2

(* Alone is the last machine of a run. *)
LEMMA AloneIsRun ==
  ASSUME NEW m, NEW p, NEW n \in Nat
  PROVE  \E f : IsRun(f, m, p, n) /\ Alone(m, p, n) = f[n]
<1> DEFINE f == CHOOSE g : IsRun(g, m, p, n)
<1>1. IsRun(f, m, p, n)
  BY RunExists
<1>2. Alone(m, p, n) = f[n]
  BY DEF Alone, IsRun
<1> QED
  BY <1>1, <1>2

(* The equations of Alone. *)
LEMMA AloneStarts ==
  ASSUME NEW m, NEW p
  PROVE  Alone(m, p, 0) = m
BY AloneIsRun DEF IsRun

LEMMA AloneStep ==
  ASSUME NEW m, NEW p, NEW n \in Nat
  PROVE  Alone(m, p, n + 1) = After(Alone(m, p, n), p[n + 1])
<1>1. PICK f : IsRun(f, m, p, n) /\ Alone(m, p, n) = f[n]
  BY AloneIsRun
<1>2. PICK g : IsRun(g, m, p, n + 1) /\ Alone(m, p, n + 1) = g[n + 1]
  BY AloneIsRun
<1>3. f[n] = g[n]
  BY <1>1, <1>2, RunUnique
<1> QED
  BY <1>1, <1>2, <1>3 DEF IsRun

-----------------------------------------------------------------------------

(***************************************************************************)
(* The invariant behind MachinesIsolated: while the program runs each      *)
(* machine is where its own program has taken it.                          *)
(***************************************************************************)
IsolationInv ==
  /\ DOMAIN vm = Vm
  /\ pos \in [Vm -> Nat]
  /\ MachinesIsolated

(***************************************************************************)
(* Each machine is what its own program makes of what it started as: the   *)
(* two loops over the streams touch only the machine of their own.         *)
(***************************************************************************)
THEOREM Isolated == Spec => []MachinesIsolated
<1>1. Init => IsolationInv
  BY AloneStarts DEF Init, IsolationInv, MachinesIsolated
<1>2. IsolationInv /\ [Next]_vars => IsolationInv'
  <2> SUFFICES ASSUME IsolationInv, [Next]_vars
               PROVE  IsolationInv'
    OBVIOUS
  <2> USE DEF IsolationInv, MachinesIsolated
  <2>1. CASE UNCHANGED vars
    BY <2>1 DEF vars, settings
  <2>2. CASE OuterLoop
    BY <2>2 DEF OuterLoop, settings
  <2>3. ASSUME NEW v \in Vm, SliceUsed(v) \/ NoLineLeft(v)
        PROVE  IsolationInv'
    BY <2>3 DEF SliceUsed, NoLineLeft, settings
  <2>4. ASSUME NEW v \in Vm, ProcessLine(v)
        PROVE  IsolationInv'
    <3> DEFINE line == program[v][pos[v] + 1]
    <3>1. /\ process = "running" /\ process' \in Outcomes(vm[v], line)
          /\ pos' = [pos EXCEPT ![v] = @ + 1]
          /\ process' = "running" => vm' = [vm EXCEPT ![v] = After(@, line)]
          /\ process' # "running" => vm' = vm
          /\ first' = first /\ program' = program
      BY <2>4 DEF ProcessLine, GetLine, settings
    <3>2. process' # "finished"
      BY <3>1 DEF Outcomes
    <3>3. ASSUME process' = "running", NEW w \in Vm
          PROVE  vm[w]' = Alone(first[w]', program[w]', pos[w]')
      <4>1. CASE w = v
        <5>1. /\ vm[w]' = After(vm[w], program[w][pos[w] + 1])
              /\ pos[w]' = pos[w] + 1
          BY <3>1, <3>3, <4>1
        <5>2. vm[w] = Alone(first[w], program[w], pos[w])
          BY <3>1
        <5> QED
          BY <3>1, <5>1, <5>2, AloneStep
      <4>2. CASE w # v
        BY <3>1, <3>3, <4>2
      <4> QED
        BY <4>1, <4>2
    <3> QED
      BY <3>1, <3>2, <3>3
  <2> QED
    BY <2>1, <2>2, <2>3, <2>4 DEF Next
<1>3. IsolationInv => MachinesIsolated
  BY DEF IsolationInv
<1> QED
  BY <1>1, <1>2, <1>3, PTL DEF Spec

-----------------------------------------------------------------------------

(* A slice has at most as many lines as it may; turns are those of Vm. *)
CountInv ==
  /\ program \in [Vm -> Programs]
  /\ slice \in [Vm -> Slices]
  /\ opened \in [Vm -> BOOLEAN]
  /\ pos \in [Vm -> Nat]
  /\ \A v \in Vm : pos[v] <= Len(program[v])
  /\ turn \in 0 .. 2
  /\ count \in Nat
  /\ turn = 0 => count = 0

LEMMA SlicesAreInts == Slices \subseteq Int
BY LegacyHypervisorAssumption

LEMMA Lengths == \A p \in Programs : Len(p) \in Nat
BY LegacyHypervisorAssumption

LEMMA CountInit == Init => CountInv
BY Lengths DEF Init, CountInv, Vm

LEMMA CountStep == CountInv /\ [Next]_vars => CountInv'
<1> SUFFICES ASSUME CountInv, [Next]_vars
             PROVE  CountInv'
  OBVIOUS
<1> USE DEF CountInv, settings
<1>1. CASE UNCHANGED vars
  BY <1>1 DEF vars
<1>2. CASE OuterLoop
  BY <1>2 DEF OuterLoop
<1>3. ASSUME NEW v \in Vm, SliceUsed(v) \/ NoLineLeft(v)
      PROVE  CountInv'
  BY <1>3 DEF SliceUsed, NoLineLeft, EndSlice, Vm
<1>4. ASSUME NEW v \in Vm, ProcessLine(v)
      PROVE  CountInv'
  BY <1>4, Lengths DEF ProcessLine, GetLine, HasLine, Vm
<1> QED
  BY <1>1, <1>2, <1>3, <1>4 DEF Next

(***************************************************************************)
(* The invariant behind FinishedMeansAll: getline sets the eofbit only at  *)
(* the end of a file that opened, and no file is read back.                *)
(***************************************************************************)
EofInv ==
  /\ eof \in [Vm -> BOOLEAN]
  /\ \A v \in Vm : eof[v] => opened[v] /\ pos[v] = Len(program[v])
  /\ process = "finished" => \A v \in Vm : eof[v]

LEMMA EofInductive == Spec => [](CountInv /\ EofInv)
<1>1. Init => CountInv /\ EofInv
  BY CountInit DEF Init, EofInv
<1>2. CountInv /\ EofInv /\ [Next]_vars => CountInv' /\ EofInv'
  <2> SUFFICES ASSUME CountInv, EofInv, [Next]_vars
               PROVE  EofInv'
    BY CountStep
  <2> USE DEF CountInv, EofInv, settings
  <2>1. CASE UNCHANGED vars
    BY <2>1 DEF vars
  <2>2. CASE OuterLoop
    BY <2>2 DEF OuterLoop, Vm
  <2>3. ASSUME NEW v \in Vm, SliceUsed(v)
        PROVE  EofInv'
    BY <2>3 DEF SliceUsed
  <2>4. ASSUME NEW v \in Vm, NoLineLeft(v)
        PROVE  EofInv'
    BY <2>4, Lengths DEF NoLineLeft, HasLine
  <2>5. ASSUME NEW v \in Vm, ProcessLine(v)
        PROVE  EofInv'
    <3>1. process' # "finished"
      BY <2>5 DEF ProcessLine, Outcomes
    <3>2. /\ pos' = [pos EXCEPT ![v] = @ + 1]
          /\ eof' = [eof EXCEPT ![v] = pos[v] + 1 = Len(program[v]) /\ ~ended[v]]
          /\ opened' = opened /\ program' = program /\ opened[v]
      BY <2>5 DEF ProcessLine, GetLine, HasLine
    <3>3. eof' \in [Vm -> BOOLEAN]
      BY <3>2
    <3>4. ASSUME NEW w \in Vm, eof'[w]
          PROVE  opened'[w] /\ pos'[w] = Len(program'[w])
      <4>1. CASE w = v
        <5>1. pos[v] + 1 = Len(program[v])
          BY <3>2, <3>4, <4>1
        <5> QED
          BY <3>2, <4>1, <5>1
      <4>2. CASE w # v
        BY <3>2, <3>4, <4>2
      <4> QED
        BY <4>1, <4>2
    <3> QED
      BY <3>1, <3>3, <3>4
  <2> QED
    BY <2>1, <2>2, <2>3, <2>4, <2>5 DEF Next
<1> QED
  BY <1>1, <1>2, PTL DEF Spec

(* The loop is left only when every line of both programs was executed. *)
THEOREM FinishedIsDone == Spec => []FinishedMeansAll
<1>1. EofInv => FinishedMeansAll
  BY DEF EofInv, FinishedMeansAll
<1> QED
  BY <1>1, EofInductive, PTL

-----------------------------------------------------------------------------

(* Both files opened and both slices are positive: the case of LoopEnds. *)
CanEnd == \A v \in Vm : opened[v] /\ slice[v] > 0

LEMMA UnreadIsNatural ==
  CountInv /\ EofInv => \A v \in Vm : Unread(v) \in Nat /\ (~eof[v] <=> Unread(v) > 0)
<1> SUFFICES ASSUME CountInv, EofInv, NEW v \in Vm
             PROVE  Unread(v) \in Nat /\ (~eof[v] <=> Unread(v) > 0)
  OBVIOUS
<1>1. pos[v] \in Nat /\ Len(program[v]) \in Nat /\ pos[v] <= Len(program[v])
  BY Lengths DEF CountInv
<1>2. CASE eof[v]
  <2>1. pos[v] = Len(program[v])
    BY <1>2 DEF EofInv
  <2> QED
    BY <1>1, <1>2, <2>1 DEF Unread
<1>3. CASE ~eof[v]
  BY <1>1, <1>3 DEF Unread
<1> QED
  BY <1>2, <1>3

(* No more than three steps in a row read nothing. *)
LEMMA DueIsSmall == CountInv /\ EofInv /\ CanEnd => Due \in 0 .. 3
<1> SUFFICES ASSUME CountInv, EofInv, CanEnd PROVE Due \in 0 .. 3
  OBVIOUS
<1>1. Unread(1) \in Nat /\ Unread(2) \in Nat /\ slice[2] > 0
  BY UnreadIsNatural DEF Vm, CanEnd
<1>2. DueAtTest \in 0 .. 2 /\ (Unread(2) = 0 => DueAtTest \in 0 .. 1)
  BY <1>1 DEF DueAtTest
<1>3. \A n : DueIn2(n) \in 0 .. 3
  BY <1>2 DEF DueIn2
<1>4. DueIn2(0) \in 0 .. 2
  BY <1>1, <1>2 DEF DueIn2, Reads
<1>5. \A n : DueIn1(n) \in 0 .. 3
  BY <1>4 DEF DueIn1
<1>6. CASE turn = 0
  BY <1>2, <1>6 DEF Due
<1>7. CASE turn = 1
  BY <1>5, <1>7 DEF Due
<1>8. CASE turn = 2
  BY <1>3, <1>8 DEF Due
<1> QED
  BY <1>6, <1>7, <1>8 DEF CountInv

(* A getline that is due brings its own file nearer to its end. *)
LEMMA ReadingReads ==
  ASSUME CountInv, EofInv, CanEnd, CountInv', EofInv', NEW v \in Vm,
         ProcessLine(v) \/ (NoLineLeft(v) /\ Unread(v) > 0)
  PROVE  /\ Unread(v)' < Unread(v)
         /\ \A w \in Vm \ {v} : Unread(w)' = Unread(w)
<1>1. /\ pos[v] \in Nat /\ Len(program[v]) \in Nat /\ pos[v] <= Len(program[v])
      /\ program' = program
  BY Lengths DEF CountInv, ProcessLine, NoLineLeft, settings
<1>2. \A w \in Vm \ {v} : pos'[w] = pos[w] /\ eof'[w] = eof[w]
  BY DEF ProcessLine, NoLineLeft, GetLine, CountInv, EofInv
<1>3. \A w \in Vm \ {v} : Unread(w)' = Unread(w)
  BY <1>1, <1>2 DEF Unread
<1>4. CASE ProcessLine(v)
  <2>1. pos'[v] = pos[v] + 1 /\ pos[v] < Len(program[v])
    BY <1>4 DEF ProcessLine, GetLine, HasLine, CountInv
  <2>2. ~eof[v]
    BY <1>1, <2>1 DEF EofInv
  <2>3. Unread(v) = Len(program[v]) - pos[v] + 1
    BY <2>2 DEF Unread
  <2>4. Unread(v)' = Len(program[v]) - (pos[v] + 1) + (IF eof'[v] THEN 0 ELSE 1)
    BY <1>1, <2>1 DEF Unread
  <2>5. Unread(v)' < Unread(v)
    BY <1>1, <2>3, <2>4
  <2> QED
    BY <1>3, <2>5
<1>5. CASE NoLineLeft(v) /\ Unread(v) > 0
  <2>1. ~eof[v]
    BY <1>5, UnreadIsNatural
  <2>2. eof'[v] /\ pos' = pos
    BY <1>5 DEF NoLineLeft, CanEnd, EofInv
  <2>3. Unread(v) = Len(program[v]) - pos[v] + 1
    BY <2>1 DEF Unread
  <2>4. Unread(v)' = Len(program[v]) - pos[v] + 0
    BY <1>1, <2>2 DEF Unread
  <2>5. Unread(v)' < Unread(v)
    BY <1>1, <2>3, <2>4
  <2> QED
    BY <1>3, <2>5
<1> QED
  BY <1>4, <1>5

(* A step that reads nothing brings the next one that does nearer. *)
LEMMA WaitingEnds ==
  ASSUME CountInv, EofInv, CanEnd, slice' = slice,
         \A v \in Vm : Unread(v)' = Unread(v),
         \/ turn = 0 /\ turn' = 1 /\ count' = 0 /\ (~eof[1] \/ ~eof[2])
         \/ turn = 1 /\ turn' = 2 /\ count' = 0 /\ ~Reads(1, count)
         \/ turn = 2 /\ turn' = 0 /\ ~Reads(2, count)
  PROVE  Due' = Due - 1
<1>1. /\ Unread(1) \in Nat /\ Unread(1)' = Unread(1)
      /\ Unread(2) \in Nat /\ Unread(2)' = Unread(2)
      /\ slice[1] > 0 /\ slice[2] > 0
      /\ ~eof[1] <=> Unread(1) > 0
      /\ ~eof[2] <=> Unread(2) > 0
  BY UnreadIsNatural DEF Vm, CanEnd
<1>2. DueAtTest' = DueAtTest
  BY <1>1 DEF DueAtTest
<1>3. DueAtTest \in 0 .. 2
  BY <1>1 DEF DueAtTest
<1>4. \A n : Reads(1, n)' = Reads(1, n) /\ Reads(2, n)' = Reads(2, n)
  BY <1>1 DEF Reads
<1>5. DueIn2(0)' = DueIn2(0)
  BY <1>2, <1>4 DEF DueIn2
<1>6. CASE turn = 0 /\ turn' = 1 /\ count' = 0 /\ (~eof[1] \/ ~eof[2])
  <2>1. Due = DueAtTest /\ Due' = DueIn1(0)'
    BY <1>6 DEF Due, DueIn1
  <2>2. DueIn1(0)' = IF Reads(1, 0) THEN 0 ELSE 1 + DueIn2(0)
    BY <1>4, <1>5 DEF DueIn1
  <2>3. DueIn1(0)' = DueAtTest - 1
    BY <1>1, <1>6, <2>2 DEF DueIn2, DueAtTest, Reads
  <2> QED
    BY <2>1, <2>3
<1>7. CASE turn = 1 /\ turn' = 2 /\ count' = 0 /\ ~Reads(1, count)
  <2>1. Due = 1 + DueIn2(0) /\ Due' = DueIn2(0)
    BY <1>5, <1>7 DEF Due, DueIn1, DueIn2
  <2>2. DueIn2(0) \in Int
    BY <1>3 DEF DueIn2
  <2> QED
    BY <2>1, <2>2
<1>8. CASE turn = 2 /\ turn' = 0 /\ ~Reads(2, count)
  <2>1. Due = 1 + DueAtTest /\ Due' = DueAtTest
    BY <1>2, <1>8 DEF Due, DueIn2
  <2> QED
    BY <1>3, <2>1
<1> QED
  BY <1>6, <1>7, <1>8

LEMMA StepNearsEnd ==
  ASSUME CountInv, EofInv, CanEnd, CountInv', EofInv', CanEnd', Next
  PROVE  StepsLeft' \in 0 .. StepsLeft - 1
<1>1. /\ Unread(1) \in Nat /\ Unread(2) \in Nat /\ Due \in 0 .. 3
      /\ process = "running" /\ slice' = slice
  BY UnreadIsNatural, DueIsSmall DEF Vm, Next, OuterLoop, SliceUsed, NoLineLeft,
     ProcessLine, settings
<1>2. Unread(1)' \in Nat /\ Unread(2)' \in Nat /\ Due' \in 0 .. 3
  <2>1. (CountInv /\ EofInv => \A v \in Vm : Unread(v) \in Nat /\ (~eof[v] <=> Unread(v) > 0))'
    BY UnreadIsNatural, PTL
  <2>2. (CountInv /\ EofInv /\ CanEnd => Due \in 0 .. 3)'
    BY DueIsSmall, PTL
  <2> QED
    BY <2>1, <2>2 DEF Vm
<1> DEFINE left == 4 * (Unread(1) + Unread(2)) + Due + 1
<1>3. StepsLeft = left /\ left \in Nat /\ left > 0
  BY <1>1 DEF StepsLeft
<1>4. CASE process' # "running"
  <2>1. StepsLeft' = 0
    BY <1>4 DEF StepsLeft
  <2> QED
    BY <1>3, <2>1
<1>5. ASSUME process' = "running",
             \/ Unread(1)' + Unread(2)' < Unread(1) + Unread(2)
             \/ Unread(1)' + Unread(2)' = Unread(1) + Unread(2) /\ Due' = Due - 1
      PROVE  StepsLeft' \in 0 .. StepsLeft - 1
  <2>1. StepsLeft' = 4 * (Unread(1)' + Unread(2)') + Due' + 1
    BY <1>5 DEF StepsLeft
  <2> QED
    BY <1>1, <1>2, <1>3, <1>5, <2>1
<1>6. CASE OuterLoop
  <2>1. Unread(1)' = Unread(1) /\ Unread(2)' = Unread(2)
    BY <1>6 DEF OuterLoop, Unread, settings
  <2>2. CASE ~eof[1] \/ ~eof[2]
    <3>1. Due' = Due - 1 /\ process' = "running"
      BY <1>1, <1>6, <2>1, <2>2, WaitingEnds DEF OuterLoop, Vm
    <3> QED
      BY <1>5, <2>1, <3>1
  <2>3. CASE ~(~eof[1] \/ ~eof[2])
    BY <1>4, <1>6, <2>3 DEF OuterLoop
  <2> QED
    BY <2>2, <2>3
<1>7. ASSUME NEW v \in Vm, SliceUsed(v) \/ (NoLineLeft(v) /\ ~(Unread(v) > 0))
      PROVE  StepsLeft' \in 0 .. StepsLeft - 1
  <2>1. /\ turn = v /\ turn' = (v + 1) % 3 /\ count' = 0 /\ pos' = pos
        /\ program' = program /\ process' = "running"
    BY <1>7 DEF SliceUsed, NoLineLeft, EndSlice, settings
  <2>2. eof' = eof
    <3>1. CASE SliceUsed(v)
      BY <3>1 DEF SliceUsed
    <3>2. CASE NoLineLeft(v) /\ ~(Unread(v) > 0)
      <4>1. eof[v]
        BY <3>2, UnreadIsNatural
      <4>2. eof' = [eof EXCEPT ![v] = TRUE]
        BY <3>2 DEF NoLineLeft, CanEnd
      <4> QED
        BY <4>1, <4>2 DEF EofInv
    <3> QED
      BY <1>7, <3>1, <3>2
  <2>3. \A w \in Vm : Unread(w)' = Unread(w)
    BY <2>1, <2>2 DEF Unread
  <2>4. ~Reads(v, count)
    <3>1. slice[v] \in Int /\ count \in Nat
      BY SlicesAreInts DEF CountInv
    <3> QED
      BY <1>7, <3>1 DEF SliceUsed, Reads
  <2>5. /\ (v = 1 /\ turn' = 2) \/ (v = 2 /\ turn' = 0)
    BY <2>1 DEF Vm
  <2>6. Due' = Due - 1
    BY <1>1, <2>1, <2>3, <2>4, <2>5, WaitingEnds
  <2> QED
    BY <1>5, <2>1, <2>3, <2>6 DEF Vm
<1>8. ASSUME NEW v \in Vm, ProcessLine(v) \/ (NoLineLeft(v) /\ Unread(v) > 0),
             process' = "running"
      PROVE  StepsLeft' \in 0 .. StepsLeft - 1
  <2>1. /\ Unread(v)' < Unread(v)
        /\ \A w \in Vm \ {v} : Unread(w)' = Unread(w)
    BY <1>8, ReadingReads
  <2>2. Unread(1)' + Unread(2)' < Unread(1) + Unread(2)
    <3>1. CASE v = 1
      <4>1. Unread(1)' < Unread(1) /\ Unread(2)' = Unread(2)
        BY <2>1, <3>1 DEF Vm
      <4> QED
        BY <1>1, <1>2, <4>1
    <3>2. CASE v = 2
      <4>1. Unread(2)' < Unread(2) /\ Unread(1)' = Unread(1)
        BY <2>1, <3>2 DEF Vm
      <4> QED
        BY <1>1, <1>2, <4>1
    <3> QED
      BY <3>1, <3>2 DEF Vm
  <2> QED
    BY <1>5, <1>8, <2>2
<1> QED
  BY <1>4, <1>6, <1>7, <1>8 DEF Next

(***************************************************************************)
(* Every step of the loop over the two files brings its end nearer: with   *)
(* files that opened and positive slices it ends, for programs and slices  *)
(* of any length.                                                          *)
(***************************************************************************)
THEOREM LoopGetsDone == Spec => LoopNearsEnd
<1>1. CanEnd /\ [Next]_vars => CanEnd'
  BY DEF CanEnd, Next, OuterLoop, SliceUsed, NoLineLeft, ProcessLine, settings, vars
<1>2. /\ CountInv /\ EofInv /\ (CountInv /\ EofInv)' /\ [Next]_vars
      => [(\A v \in Vm : opened[v] /\ slice[v] > 0) => StepsLeft' \in 0 .. StepsLeft - 1]_vars
  BY <1>1, StepNearsEnd DEF CanEnd
<1> QED
  BY <1>2, EofInductive, PTL DEF Spec, LoopNearsEnd

-----------------------------------------------------------------------------

(* While no stream has ended every round gives each machine a whole slice. *)
BothGoOn == \A v \in Vm : slice[v] > 0 /\ HasLine(v)

LEMMA SlicesPositive ==
  ASSUME CountInv, BothGoOn
  PROVE  slice[1] \in Nat \ {0} /\ slice[2] \in Nat \ {0}
<1>1. slice[1] \in Int /\ slice[2] \in Int
  BY SlicesAreInts DEF CountInv, Vm
<1>2. slice[1] > 0 /\ slice[2] > 0
  BY DEF BothGoOn, Vm
<1> QED
  BY <1>1, <1>2

(* What the machines have of a round that they began with a and b lines. *)
RoundFrom(a, b) ==
  /\ count <= IF turn = 2 THEN slice[2] ELSE slice[1]
  /\ pos[1] = a + IF turn = 0 THEN 0 ELSE IF turn = 1 THEN count ELSE slice[1]
  /\ pos[2] = b + IF turn = 2 THEN count ELSE 0

(* The machines in the round that follows r whole ones. *)
InRound(r) == RoundFrom(r * slice[1], r * slice[2])

(* The invariant behind SlicesAlternate. *)
RoundInv == BothGoOn => \E r \in Nat : InRound(r)

(* The slices that r whole ones and d more lines have begun. *)
LEMMA SlicesBegun ==
  ASSUME NEW s \in Nat \ {0}, NEW r \in Nat, NEW d \in 0 .. s
  PROVE  (r * s + d + s - 1) \div s = IF d = 0 THEN r ELSE r + 1
<1>1. ASSUME NEW q \in Nat, NEW e \in 0 .. s - 1
      PROVE  (q * s + e) \div s = q
  OBVIOUS
<1>2. r * s + d + s - 1 = IF d = 0 THEN r * s + (s - 1) ELSE (r + 1) * s + (d - 1)
  OBVIOUS
<1> QED
  BY <1>1, <1>2

(***************************************************************************)
(* While both programs have lines left machine 1 has begun as many slices  *)
(* as machine 2 or one more, whatever the lengths of the slices.           *)
(***************************************************************************)
THEOREM Alternate == Spec => []SlicesAlternate
<1>1. Init => CountInv /\ RoundInv
  <2> SUFFICES ASSUME Init, BothGoOn
               PROVE  InRound(0)
    BY CountInit DEF RoundInv
  <2>1. slice[1] \in Nat \ {0} /\ slice[2] \in Nat \ {0}
    BY CountInit, SlicesPositive
  <2>2. RoundFrom(0, 0)
    BY <2>1 DEF Init, RoundFrom, Vm
  <2> QED
    BY <2>1, <2>2 DEF InRound
<1>2. CountInv /\ RoundInv /\ [Next]_vars => CountInv' /\ RoundInv'
  <2> SUFFICES ASSUME CountInv, CountInv', RoundInv, [Next]_vars, BothGoOn'
               PROVE  \E r \in Nat : InRound(r)'
    BY CountStep DEF RoundInv
  <2> USE DEF settings
  <2>1. /\ slice' = slice /\ program' = program /\ opened' = opened
        /\ \A v \in Vm : pos[v] <= pos'[v]
    <3>1. \/ pos' = pos
          \/ \E v \in Vm : pos' = [pos EXCEPT ![v] = @ + 1]
      BY DEF Next, vars, OuterLoop, SliceUsed, NoLineLeft, ProcessLine, GetLine
    <3>2. UNCHANGED settings
      BY DEF Next, vars, OuterLoop, SliceUsed, NoLineLeft, ProcessLine
    <3>3. \A v \in Vm : pos[v] <= pos'[v]
      BY <3>1 DEF CountInv
    <3> QED
      BY <3>2, <3>3
  <2>2. BothGoOn
    BY <2>1, Lengths DEF BothGoOn, HasLine, CountInv
  <2>3. PICK r \in Nat : InRound(r)
    BY <2>2 DEF RoundInv
  <2>4. slice[1] \in Nat \ {0} /\ slice[2] \in Nat \ {0}
    BY <2>2, SlicesPositive
  <2>5. PICK a \in Nat, b \in Nat : a = r * slice[1] /\ b = r * slice[2]
    BY <2>4
  <2>6. RoundFrom(a, b)
    BY <2>3, <2>5 DEF InRound
  <2>7. RoundFrom(a, b)' \/ RoundFrom(a + slice[1], b + slice[2])'
    <3>1. CASE UNCHANGED vars
      BY <2>6, <3>1 DEF vars, RoundFrom
    <3>2. CASE OuterLoop
      BY <2>1, <2>4, <2>6, <3>2 DEF OuterLoop, RoundFrom
    <3>3. ASSUME NEW v \in Vm, SliceUsed(v)
          PROVE  RoundFrom(a, b)' \/ RoundFrom(a + slice[1], b + slice[2])'
      <4>1. /\ turn = v /\ count >= slice[v] /\ pos' = pos
            /\ turn' = (v + 1) % 3 /\ count' = 0
        BY <3>3 DEF SliceUsed, EndSlice
      <4>2. v = 1 => RoundFrom(a, b)'
        BY <2>1, <2>4, <2>6, <4>1 DEF RoundFrom, CountInv
      <4>3. v = 2 => RoundFrom(a + slice[1], b + slice[2])'
        BY <2>1, <2>4, <2>6, <4>1, SMTT(30) DEF RoundFrom, CountInv
      <4> QED
        BY <4>2, <4>3 DEF Vm
    <3>4. ASSUME NEW v \in Vm
          PROVE  ~NoLineLeft(v)
      BY <2>2 DEF NoLineLeft, BothGoOn
    <3>5. ASSUME NEW v \in Vm, ProcessLine(v)
          PROVE  RoundFrom(a, b)'
      <4>1. /\ turn = v /\ count < slice[v] /\ turn' = turn /\ slice' = slice
            /\ pos' = [pos EXCEPT ![v] = @ + 1] /\ count' = count + 1
        BY <3>5 DEF ProcessLine, GetLine
      <4> QED
        BY <2>4, <2>6, <4>1, SMTT(30) DEF RoundFrom, CountInv, Vm
    <3> QED
      BY <3>1, <3>2, <3>3, <3>4, <3>5 DEF Next
  <2>8. a + slice[1] = (r + 1) * slice[1] /\ b + slice[2] = (r + 1) * slice[2]
    BY <2>4, <2>5
  <2>9. InRound(r)' \/ InRound(r + 1)'
    BY <2>1, <2>5, <2>7, <2>8 DEF InRound
  <2> QED
    BY <2>9
<1>3. CountInv /\ RoundInv => SlicesAlternate
  <2> SUFFICES ASSUME CountInv, RoundInv, BothGoOn
               PROVE  Begun(1) - Begun(2) \in {0, 1}
    BY DEF SlicesAlternate, BothGoOn
  <2>1. PICK r \in Nat : InRound(r)
    BY DEF RoundInv
  <2>2. slice[1] \in Nat \ {0} /\ slice[2] \in Nat \ {0}
    BY SlicesPositive
  <2>3. ASSUME NEW v \in Vm, NEW d \in 0 .. slice[v], pos[v] = r * slice[v] + d
        PROVE  Begun(v) = IF d = 0 THEN r ELSE r + 1
    BY <2>2, <2>3, SlicesBegun DEF Begun, Vm
  <2> DEFINE D(v) == IF v = 1 THEN IF turn = 0 THEN 0 ELSE IF turn = 1 THEN count ELSE slice[1]
                     ELSE IF turn = 2 THEN count ELSE 0
  <2>4. ASSUME NEW v \in Vm
        PROVE  D(v) \in 0 .. slice[v] /\ pos[v] = r * slice[v] + D(v)
    BY <2>1, <2>2 DEF InRound, RoundFrom, CountInv, Vm
  <2>5. ASSUME NEW v \in Vm
        PROVE  Begun(v) = IF D(v) = 0 THEN r ELSE r + 1
    BY <2>3, <2>4
  <2>6. D(1) = 0 => D(2) = 0
    BY <2>2
  <2> HIDE DEF D
  <2>7. /\ Begun(1) = IF D(1) = 0 THEN r ELSE r + 1
        /\ Begun(2) = IF D(2) = 0 THEN r ELSE r + 1
    BY <2>5 DEF Vm
  <2> QED
    BY <2>6, <2>7
<1> QED
  BY <1>1, <1>2, <1>3, PTL DEF Spec

-----------------------------------------------------------------------------
(* The switch over the options, on command lines of any length. *)

(* What getopt has collected after each of the first n options. *)
Collected(scan, args, n) ==
  scan = [k \in 0 .. n |-> IF k = 0 THEN NoOptions ELSE TakeOption(scan[k - 1], args[k])]

LEMMA CollectedExists ==
  ASSUME NEW args
  PROVE  \A n \in Nat : \E scan : Collected(scan, args, n)
<1> DEFINE Missing == {n \in Nat : ~ \E scan : Collected(scan, args, n)}
<1>1. CASE Missing = {}
  BY <1>1
<1>2. CASE Missing # {}
  <2>1. PICK n \in Missing : \A k \in Missing : n <= k
    BY <1>2, Least
  <2>2. n # 0
    <3> DEFINE f == [k \in 0 .. 0 |-> NoOptions]
    <3>1. Collected(f, args, 0)
      BY DEF Collected
    <3> QED
      BY <3>1
  <2>3. PICK f : Collected(f, args, n - 1)
    BY <2>1, <2>2
  <2> DEFINE g == [k \in 0 .. n |-> IF k = n THEN TakeOption(f[n - 1], args[n]) ELSE f[k]]
  <2>4. ASSUME NEW k \in 0 .. n
        PROVE  g[k] = IF k = 0 THEN NoOptions ELSE TakeOption(g[k - 1], args[k])
    BY <2>2, <2>3 DEF Collected
  <2>5. Collected(g, args, n)
    BY <2>4, Zenon DEF Collected
  <2> QED
    BY <2>5
<1> QED
  BY <1>1, <1>2

(* The number of the machine an option belongs to grows with each -v. *)
LEMMA VsStep ==
  ASSUME NEW args, NEW n \in Nat
  PROVE  /\ Vs(args, 0) = 0
         /\ Vs(args, n) \in 0 .. n
         /\ Vs(args, n + 1) = Vs(args, n) + IF args[n + 1] = "-v" THEN 1 ELSE 0
<1> DEFINE V(k) == {j \in 1 .. k : args[j] = "-v"}
<1>1. V(0) = {}
  OBVIOUS
<1>2. IsFiniteSet(1 .. n) /\ Cardinality(1 .. n) = n
  BY FS_Interval
<1>3. IsFiniteSet(V(n)) /\ Cardinality(V(n)) \in 0 .. n
  <2> DEFINE I == 1 .. n
  <2>1. V(n) \subseteq I
    OBVIOUS
  <2> HIDE DEF V
  <2>2. IsFiniteSet(V(n)) /\ Cardinality(V(n)) <= n
    BY <1>2, <2>1, FS_Subset
  <2>3. Cardinality(V(n)) \in Nat
    BY <2>2, FS_CardinalityType
  <2> QED
    BY <2>2, <2>3
<1>4. Cardinality(V(0)) = 0
  BY <1>1, FS_EmptySet
<1>5. CASE args[n + 1] = "-v"
  <2>1. V(n + 1) = V(n) \cup {n + 1} /\ n + 1 \notin V(n)
    BY <1>5
  <2> HIDE DEF V
  <2>2. Cardinality(V(n + 1)) = Cardinality(V(n)) + 1
    BY <1>3, <2>1, FS_AddElement
  <2>3. Vs(args, n + 1) = Vs(args, n) + 1
    BY <2>2 DEF Vs, V
  <2> QED
    BY <1>3, <1>4, <1>5, <2>3 DEF Vs, V
<1>6. CASE args[n + 1] # "-v"
  <2>1. V(n + 1) = V(n)
    BY <1>6
  <2>2. Vs(args, n + 1) = Vs(args, n)
    BY <2>1 DEF Vs
  <2> HIDE DEF V
  <2> QED
    BY <1>3, <1>4, <1>6, <2>2 DEF Vs, V
<1> QED
  BY <1>5, <1>6

LEMMA VsGrows ==
  ASSUME NEW args, NEW n \in Nat, NEW k \in 0 .. n
  PROVE  Vs(args, k) <= Vs(args, n)
<1>1. {j \in 1 .. k : args[j] = "-v"} \subseteq {j \in 1 .. n : args[j] = "-v"}
  OBVIOUS
<1>2. IsFiniteSet({j \in 1 .. n : args[j] = "-v"})
  <2>1. IsFiniteSet(1 .. n)
    BY FS_Interval
  <2> QED
    BY <2>1, FS_Subset
<1> QED
  BY <1>1, <1>2, FS_Subset DEF Vs

(***************************************************************************)
(* One more option: a -v gives no machine anything, and opens one to which *)
(* nothing was given yet; a file is the last given to its owner.           *)
(***************************************************************************)
LEMMA LastGivenStep ==
  ASSUME NEW args, NEW n \in Nat, NEW v
  PROVE  /\ Given(args, v, 0) = {}
         /\ args[n + 1] = "-v" \/ v # Owner(args, n) =>
              LastGiven(args, v, n + 1) = LastGiven(args, v, n)
         /\ args[n + 1] # "-v" /\ v = Owner(args, n) =>
              LastGiven(args, v, n + 1) = args[n + 1]
<1>1. args[n + 1] # "-v" => Owner(args, n + 1) = Owner(args, n)
  BY VsStep DEF Owner
<1>2. CASE args[n + 1] = "-v" \/ v # Owner(args, n)
  <2>1. Given(args, v, n + 1) = Given(args, v, n)
    BY <1>1, <1>2 DEF Given
  <2>2. LastGiven(args, v, n + 1) = LastGiven(args, v, n)
    BY <2>1 DEF LastGiven
  <2> QED
    BY <1>2, <2>2 DEF Given
<1>3. CASE args[n + 1] # "-v" /\ v = Owner(args, n)
  <2>1. Given(args, v, n + 1) = Given(args, v, n) \cup {n + 1}
    BY <1>1, <1>3 DEF Given
  <2>2. \A k \in Given(args, v, n) : k \in Nat /\ k < n + 1
    BY DEF Given
  <2>3. Latest(Given(args, v, n + 1)) = n + 1
    <3>1. \A j \in Given(args, v, n + 1) : j <= n + 1
      BY <2>1, <2>2
    <3>2. \A k \in Given(args, v, n + 1) :
            (\A j \in Given(args, v, n + 1) : j <= k) => k = n + 1
      BY <2>1, <2>2
    <3> QED
      BY <2>1, <3>1, <3>2 DEF Latest
  <2> QED
    BY <1>3, <2>1, <2>3 DEF LastGiven, Given
<1> QED
  BY <1>2, <1>3 DEF Given

(* Nothing is given to a machine before its -v. *)
LEMMA NothingGivenYet ==
  ASSUME NEW args, NEW n \in Nat, NEW v, v > Owner(args, n), v \in Nat
  PROVE  LastGiven(args, v, n) = NoSnapshot
<1>1. ASSUME NEW k \in 1 .. n
      PROVE  Owner(args, k) <= Owner(args, n)
  BY VsGrows, VsStep DEF Owner
<1>2. Owner(args, n) \in Nat
  BY VsStep DEF Owner
<1>3. \A k \in 1 .. n : Owner(args, k) \in Nat
  BY VsStep DEF Owner
<1>4. Given(args, v, n) = {}
  BY <1>1, <1>2, <1>3 DEF Given
<1> QED
  BY <1>4 DEF LastGiven

(***************************************************************************)
(* What the loop holds after n options: the name for the machine whose -v  *)
(* came last, and those for the machines before it.                        *)
(***************************************************************************)
Collectable(args) == {args[k] : k \in DOMAIN args} \cup {NoSnapshot}

Held(s, args, n) ==
  /\ s = [vms |-> Vs(args, n), name |-> s.name, out |-> s.out]
  /\ s.name \in Collectable(args) /\ s.name = LastGiven(args, Owner(args, n), n)
  /\ s.out \in Seq(Collectable(args)) /\ Len(s.out) = Owner(args, n) - 1
  /\ \A v \in 1 .. Len(s.out) : s.out[v] = LastGiven(args, v, n)

LEMMA HeldStep ==
  ASSUME NEW args, NEW n \in Nat, n + 1 \in DOMAIN args, NEW s, Held(s, args, n)
  PROVE  Held(TakeOption(s, args[n + 1]), args, n + 1)
<1> DEFINE t == TakeOption(s, args[n + 1])
           own == Owner(args, n)
<1>1. /\ own \in Nat \ {0} /\ Vs(args, n) \in Nat
      /\ own = IF Vs(args, n) = 0 THEN 1 ELSE Vs(args, n)
  BY VsStep DEF Owner
<1>2. CASE args[n + 1] # "-v"
  <2>1. t = [vms |-> Vs(args, n), name |-> args[n + 1], out |-> s.out]
    BY <1>2 DEF TakeOption, Held
  <2>2. Vs(args, n + 1) = Vs(args, n) /\ Owner(args, n + 1) = own
    BY <1>1, <1>2, VsStep DEF Owner
  <2>3. args[n + 1] \in Collectable(args)
    BY DEF Collectable
  <2>4. args[n + 1] = LastGiven(args, own, n + 1)
    BY <1>2, LastGivenStep
  <2>5. \A v \in 1 .. Len(s.out) : LastGiven(args, v, n + 1) = LastGiven(args, v, n)
    BY <1>1, LastGivenStep DEF Held
  <2> QED
    BY <2>1, <2>2, <2>3, <2>4, <2>5 DEF Held
<1>3. CASE args[n + 1] = "-v" /\ Vs(args, n) = 0
  <2>1. t = [vms |-> 1, name |-> s.name, out |-> s.out]
    BY <1>3 DEF TakeOption, NextVm, Held
  <2>2. Vs(args, n + 1) = 1 /\ Owner(args, n + 1) = 1 /\ own = 1
    BY <1>1, <1>3, VsStep DEF Owner
  <2>3. \A v : LastGiven(args, v, n + 1) = LastGiven(args, v, n)
    BY <1>3, LastGivenStep
  <2> QED
    BY <2>1, <2>2, <2>3 DEF Held
<1>4. CASE args[n + 1] = "-v" /\ Vs(args, n) # 0
  <2>1. t = [vms |-> own + 1, name |-> NoSnapshot, out |-> Append(s.out, s.name)]
    <3>1. s = [vms |-> own, name |-> s.name, out |-> s.out] /\ own # 0
      BY <1>1, <1>4 DEF Held
    <3> HIDE DEF own
    <3>2. s.vms = own
      BY <3>1
    <3> QED
      BY <1>4, <3>1, <3>2 DEF TakeOption, NextVm
  <2>2. Vs(args, n + 1) = own + 1 /\ Owner(args, n + 1) = own + 1
    BY <1>1, <1>4, VsStep DEF Owner
  <2>3. \A v : LastGiven(args, v, n + 1) = LastGiven(args, v, n)
    BY <1>4, LastGivenStep
  <2>4. LastGiven(args, own + 1, n + 1) = NoSnapshot
    BY <1>1, <2>3, NothingGivenYet
  <2>5. /\ t.out \in Seq(Collectable(args)) /\ Len(t.out) = own
        /\ \A v \in 1 .. own : t.out[v] = IF v = own THEN s.name ELSE s.out[v]
    BY <1>1, <2>1 DEF Held
  <2>6. \A v \in 1 .. own : t.out[v] = LastGiven(args, v, n + 1)
    BY <1>1, <2>3, <2>5 DEF Held
  <2>7. t = [vms |-> own + 1, name |-> t.name, out |-> t.out] /\ t.name = NoSnapshot
    BY <2>1
  <2> HIDE DEF t
  <2>8. Held(t, args, n + 1)
    BY <1>1, <2>2, <2>4, <2>5, <2>6, <2>7 DEF Held, Collectable
  <2> QED
    BY <2>8 DEF t
<1> QED
  BY <1>2, <1>3, <1>4

(* Every machine of a command line gets the last file given to it. *)
LEMMA FilesGiven ==
  ASSUME NEW args, NEW l \in Nat, Len(args) = l, DOMAIN args = 1 .. l,
         NEW v \in 1 .. Owner(args, l)
  PROVE  snapshot_Files(args)[v] = LastGiven(args, v, l)
<1> DEFINE scan == CHOOSE f : Collected(f, args, l)
           Wrong == {n \in 0 .. l : ~Held(scan[n], args, n)}
<1>1. Collected(scan, args, l)
  BY CollectedExists
<1>2. snapshot_Files(args) = Append(scan[l].out, scan[l].name)
  BY DEF snapshot_Files, Collected
<1> HIDE DEF scan
<1>3. Held(scan[0], args, 0)
  <2>1. Vs(args, 0) = 0 /\ Owner(args, 0) = 1 /\ LastGiven(args, 1, 0) = NoSnapshot
    BY VsStep, LastGivenStep DEF Owner, LastGiven
  <2>2. scan[0] = NoOptions
    BY <1>1 DEF Collected
  <2> QED
    BY <2>1, <2>2 DEF Held, NoOptions, Collectable
<1>4. CASE Wrong = {}
  <2>1. Held(scan[l], args, l)
    BY <1>4
  <2>2. Owner(args, l) \in Nat
    BY VsStep DEF Owner
  <2> QED
    BY <1>2, <2>1, <2>2 DEF Held
<1>5. CASE Wrong # {}
  <2> HIDE DEF Wrong
  <2>1. PICK n \in Wrong : \A k \in Wrong : n <= k
    <3>1. Wrong \subseteq Nat
      BY DEF Wrong
    <3> QED
      BY <1>5, <3>1, Least
  <2>2. n \in 1 .. l /\ Held(scan[n - 1], args, n - 1)
    BY <1>3, <2>1 DEF Wrong
  <2>3. scan[n] = TakeOption(scan[n - 1], args[n])
    BY <1>1, <2>2 DEF Collected
  <2>4. Held(scan[n], args, n)
    BY <2>2, <2>3, HeldStep
  <2> QED
    BY <2>1, <2>4 DEF Wrong
<1> QED
  BY <1>4, <1>5

(***************************************************************************)
(* A machine starts from the last snapshot given to it, however many -v    *)
(* and -s a command line has.                                              *)
(***************************************************************************)
THEOREM SnapshotsGoHome == Spec => []SnapshotGoesToItsVm
<1>1. ASSUME NEW args \in CommandLines, NEW v \in Vm
      PROVE  snapshot_Files(args)[v] = LastGiven(args, v, Len(args))
  <2>1. /\ args \in Seq({args[n] : n \in DOMAIN args})
        /\ \E i, j \in DOMAIN args : i < j /\ args[i] = "-v" /\ args[j] = "-v"
    BY LegacyHypervisorAssumption
  <2>2. Len(args) \in Nat /\ DOMAIN args = 1 .. Len(args)
    BY <2>1
  <2>3. PICK i, j \in 1 .. Len(args) : i < j /\ args[i] = "-v" /\ args[j] = "-v"
    BY <2>1, <2>2
  <2>4. PICK a \in Nat, b \in Nat : a + 1 = i /\ b + 1 = j
    <3>1. i - 1 \in Nat /\ j - 1 \in Nat /\ (i - 1) + 1 = i /\ (j - 1) + 1 = j
      BY <2>2, <2>3
    <3> QED
      BY <3>1
  <2>5. /\ Vs(args, a) \in Nat /\ Vs(args, i) = Vs(args, a) + 1
        /\ Vs(args, b) \in Nat /\ Vs(args, j) = Vs(args, b) + 1
    <3>1. ASSUME NEW c \in Nat, args[c + 1] = "-v"
          PROVE  Vs(args, c) \in Nat /\ Vs(args, c + 1) = Vs(args, c) + 1
      BY <3>1, VsStep
    <3>2. args[a + 1] = "-v" /\ args[b + 1] = "-v"
      BY <2>3, <2>4
    <3>3. /\ Vs(args, a) \in Nat /\ Vs(args, a + 1) = Vs(args, a) + 1
          /\ Vs(args, b) \in Nat /\ Vs(args, b + 1) = Vs(args, b) + 1
      BY <3>1, <3>2
    <3> QED
      BY <2>4, <3>3
  <2>6. Vs(args, i) <= Vs(args, b)
    BY <2>3, <2>4, VsGrows
  <2>7. Vs(args, j) <= Vs(args, Len(args)) /\ Vs(args, Len(args)) \in Nat
    BY <2>2, <2>3, VsGrows, VsStep
  <2>8. v \in 1 .. Owner(args, Len(args))
    BY <2>5, <2>6, <2>7 DEF Owner, Vm
  <2> QED
    BY <2>2, <2>8, FilesGiven
<1>2. Init => options \in CommandLines
  BY DEF Init
<1>3. options \in CommandLines /\ [Next]_vars => (options \in CommandLines)'
  BY DEF Next, vars, settings, OuterLoop, SliceUsed, NoLineLeft, ProcessLine
<1>4. options \in CommandLines => SnapshotGoesToItsVm
  BY <1>1 DEF SnapshotGoesToItsVm
<1> QED
  BY <1>2, <1>3, <1>4, PTL DEF Spec

=============================================================================
