------------------------ MODULE HypervisorCoreProofs ------------------------
(***************************************************************************)
(* Proofs about HypervisorCore, for every number of machines, every        *)
(* program, every configuration and every scheduler.                       *)
(***************************************************************************)
EXTENDS HypervisorCore, SequenceTheorems, TLAPS

(* The machine Run or PreCopyMigrate is working with. *)
Busy(i) == phase \in {"dispatch", "precopy"} /\ cur = i

(* Where in Run a call of RunForSlice and a pre-copy round may be open. *)
ControlInv ==
  /\ phase \in {"idle", "loop"} => call = "none" /\ round = 0
  /\ phase = "dispatch" => call # "none" /\ round = 0
  /\ phase \in {"dispatch", "precopy"} => cur \in Added

(* A machine nobody works with is settled, and new if it was not added. *)
MachineInv ==
  \A i \in Vms :
    /\ pc[i] <= Len(program[i])
    /\ i \notin Added => pc[i] = 0 /\ status[i] = "Ready" /\ ~pending[i]
    /\ ~Busy(i) => StatusMatchesPc(i)

(* The loop of RunForSlice was left at an instruction that does not retire. *)
Stopped ==
  /\ ran < budget
  /\ \/ status[cur] = "Halted" /\ AtInstruction(cur, "Halt") /\ ~pending[cur]
     \/ status[cur] = "Faulted" /\ AtInstruction(cur, "Trap") /\ ~pending[cur]
     \/ status[cur] = "Blocked" /\ AtInstruction(cur, "Migrate") /\ pending[cur]

(* The slice used up the program, or itself. *)
Exhausted ==
  /\ ~pending[cur]
  /\ \/ status[cur] = "Halted" /\ pc[cur] = Len(program[cur])
     \/ status[cur] = "Ready" /\ InProgram(cur) /\ ran = budget

(* A slice in progress: where it began, what it retired, how it stands. *)
SliceInv ==
  phase = "dispatch" =>
    /\ budget = config[cur].execSlice
    /\ ran <= budget
    /\ ran <= pc[cur]
    /\ \A j \in 1 .. ran : program[cur][pc[cur] - ran + j] = "Retire"
    /\ call = "executing" => status[cur] = "Running" /\ ~pending[cur]
    /\ call = "broke" => Stopped
    /\ call = "returned" => Stopped \/ Exhausted

(***************************************************************************)
(* The pre-copy rounds: the machine is on its MIGRATE and stays there.     *)
(* This is what MetricsExact rests on, since the rounds are not counted.   *)
(***************************************************************************)
PreCopyInv ==
  phase = "precopy" =>
    /\ pending[cur]
    /\ AtInstruction(cur, "Migrate")
    /\ call # "none" => ran = 0
    /\ call = "executing" => status[cur] = "Running"
    /\ call = "broke" => status[cur] = "Blocked"
    /\ call \in {"none", "returned"} => status[cur] \in {"Blocked", "Ready"}

(* The metrics lag behind the pc by the instructions of the open slice. *)
MetricsInv ==
  /\ \A n \in Names : (\A j \in Added : config[j].name # n) => retired[n] = 0
  /\ \A i \in Added : UniqueName(i) =>
       retired[config[i].name] = IF InSlice(i) THEN pc[i] - ran ELSE pc[i]

IInv ==
  /\ TypeOK
  /\ ControlInv
  /\ MachineInv
  /\ SliceInv
  /\ PreCopyInv
  /\ MetricsInv

-----------------------------------------------------------------------------

(* A program is a sequence, and its length a natural number. *)
LEMMA ProgramType ==
  ASSUME TypeOK, NEW i \in Vms
  PROVE  /\ program[i] \in Seq(Outcome)
         /\ Len(program[i]) \in Nat
BY ProgramsAssumption DEF TypeOK, VmTypeOK

(* The fields of a configuration. *)
LEMMA ConfigType ==
  ASSUME TypeOK, NEW i \in Vms
  PROVE  config[i].name \in Names /\ config[i].execSlice \in Nat
BY HypervisorAssumption DEF TypeOK

LEMMA AddedAreVms == TypeOK => Added \subseteq Vms
BY HypervisorAssumption DEF TypeOK, Added

(* RunForSlice, its instructions and its end keep the types of a machine. *)
LEMMA RunForSliceType ==
  ASSUME VmTypeOK, NEW i \in Vms, NEW m \in Nat, RunForSlice(i, m)
  PROVE  VmTypeOK'
<1>1. CASE Terminal(i)
  BY <1>1 DEF RunForSlice, VmTypeOK, Call
<1>2. CASE ~Terminal(i)
  BY <1>2 DEF RunForSlice, VmTypeOK, Call, VmStatus
<1> QED
  BY <1>1, <1>2

LEMMA ExecuteSliceType ==
  ASSUME VmTypeOK, ExecuteSlice
  PROVE  VmTypeOK'
<1> USE DEF VmTypeOK, Call, VmStatus
<1>1. CASE ExecuteRetire
  BY <1>1 DEF ExecuteRetire
<1>2. CASE ExecuteTrap
  BY <1>2 DEF ExecuteTrap
<1>3. CASE ExecuteMigrate
  BY <1>3 DEF ExecuteMigrate
<1>4. CASE ExecuteHalt
  BY <1>4 DEF ExecuteHalt
<1>5. CASE FinishSlice
  BY <1>5 DEF FinishSlice, SettledStatus
<1> QED
  BY <1>1, <1>2, <1>3, <1>4, <1>5 DEF ExecuteSlice

LEMMA TypeInit == Init => TypeOK
BY HypervisorAssumption DEF Init, TypeOK, VmInit, VmTypeOK, VmStatus, Call, Phase

LEMMA TypeNext == TypeOK /\ [Next]_vars => TypeOK'
<1> SUFFICES ASSUME TypeOK, [Next]_vars PROVE TypeOK'
  OBVIOUS
<1> USE DEF TypeOK, Phase
<1>1. CASE AddVm
  BY <1>1, HypervisorAssumption DEF AddVm, vmVars, VmTypeOK
<1>2. CASE Run
  BY <1>2 DEF Run, vmVars, VmTypeOK
<1>3. CASE Leave
  BY <1>3 DEF Leave, vmVars, VmTypeOK
<1>4. CASE VmStep
  BY <1>4, ExecuteSliceType DEF VmStep, hvVars
<1>5. CASE RecordSlice
  <2>1. CurName \in Names
    BY ConfigType DEF CurName, VmTypeOK
  <2>2. retired' \in [Names -> Nat]
    BY <1>5, <2>1 DEF RecordSlice, VmTypeOK
  <2> QED
    BY <1>5, <2>2 DEF RecordSlice, TakeResult, VmTypeOK, Call
<1>6. CASE PreCopyRound
  <2>1. VmTypeOK'
    BY <1>6, RunForSliceType, HypervisorAssumption DEF PreCopyRound, VmTypeOK
  <2> QED
    BY <1>6, <2>1, HypervisorAssumption DEF PreCopyRound
<1>7. CASE PreCopyReturn
  BY <1>7 DEF PreCopyReturn, TakeResult, hvVars, VmTypeOK, Call
<1>8. CASE TransferAndClear
  BY <1>8, HypervisorAssumption DEF TransferAndClear, VmTypeOK
<1>9. ASSUME NEW idx \in 0 .. MaxVms, PickNext(idx) PROVE TypeOK'
  <2>1. CASE SkipPick(idx)
    BY <2>1 DEF SkipPick, vars, vmVars, hvVars, VmTypeOK
  <2>2. CASE Dispatch(idx)
    <3>1. idx \in Vms
      BY <2>2, AddedAreVms DEF Dispatch, Alive
    <3>2. config[idx].execSlice \in Nat /\ config[idx].name \in Names
      BY <3>1, ConfigType
    <3>3. VmTypeOK'
      BY <2>2, <3>1, <3>2, RunForSliceType DEF Dispatch
    <3>4. dispatched' \in [Names -> Nat]
      BY <2>2, <3>2 DEF Dispatch
    <3> QED
      BY <2>2, <3>3, <3>4 DEF Dispatch
  <2> QED
    BY <1>9, <2>1, <2>2 DEF PickNext
<1>10. CASE UNCHANGED vars
  BY <1>10 DEF vars, vmVars, hvVars, VmTypeOK
<1> QED
  BY <1>1, <1>2, <1>3, <1>4, <1>5, <1>6, <1>7, <1>8, <1>9, <1>10 DEF Next, RunStep

(* Every variable keeps its type, whatever the scheduler picks. *)
THEOREM TypeCorrect == Spec => []TypeOK
<1>1. Init => TypeOK
  BY TypeInit
<1>2. TypeOK /\ [Next]_vars => TypeOK'
  BY TypeNext
<1> QED
  BY <1>1, <1>2, PTL DEF Spec

-----------------------------------------------------------------------------

(* What a machine's status says of its pc survives what leaves it alone. *)
LEMMA StatusFrame ==
  ASSUME NEW i \in Vms, StatusMatchesPc(i), UNCHANGED program,
         pc'[i] = pc[i], status'[i] = status[i], pending'[i] = pending[i]
  PROVE  StatusMatchesPc(i)'
BY DEF StatusMatchesPc, InProgram, AtInstruction

(* A step that only moves machine cur keeps the other machines settled. *)
LEMMA MachineFrame ==
  ASSUME TypeOK, MachineInv, cur \in Added, Busy(cur), Busy(cur)', cur' = cur,
         UNCHANGED <<program, size>>,
         pc'[cur] <= Len(program[cur]),
         \A i \in Vms \ {cur} :
           pc'[i] = pc[i] /\ status'[i] = status[i] /\ pending'[i] = pending[i]
  PROVE  MachineInv'
<1> SUFFICES ASSUME NEW i \in Vms
             PROVE  /\ pc'[i] <= Len(program[i])
                    /\ i \notin Added => pc'[i] = 0 /\ status'[i] = "Ready" /\ ~pending'[i]
                    /\ ~Busy(i)' => StatusMatchesPc(i)'
  BY DEF MachineInv, Added
<1>1. CASE i = cur
  BY <1>1
<1>2. CASE i # cur
  <2>1. ~Busy(i)
    BY <1>2 DEF Busy
  <2> QED
    BY <1>2, <2>1, StatusFrame DEF MachineInv
<1> QED
  BY <1>1, <1>2

LEMMA InitInv == Init => IInv
<1> SUFFICES ASSUME Init PROVE IInv
  OBVIOUS
<1>1. TypeOK
  BY TypeInit
<1>2. Added = {}
  BY DEF Init, Added
<1>3. ControlInv /\ SliceInv /\ PreCopyInv
  BY DEF Init, VmInit, ControlInv, SliceInv, PreCopyInv
<1>4. MachineInv
  <2> SUFFICES ASSUME NEW i \in Vms
               PROVE  /\ pc[i] <= Len(program[i])
                      /\ pc[i] = 0 /\ status[i] = "Ready" /\ ~pending[i]
                      /\ StatusMatchesPc(i)
    BY DEF MachineInv
  <2>1. program[i] \in Seq(Outcome) /\ Len(program[i]) \in Nat
    BY <1>1, ProgramType
  <2>2. Len(program[i]) = 0 => program[i] = <<>>
    BY <2>1, EmptySeq
  <2> QED
    BY <2>1, <2>2 DEF Init, VmInit, StatusMatchesPc, InProgram
<1>5. MetricsInv
  BY <1>2 DEF Init, MetricsInv
<1> QED
  BY <1>1, <1>3, <1>4, <1>5 DEF IInv

LEMMA AddVmInv == IInv /\ AddVm => IInv'
<1> SUFFICES ASSUME IInv, AddVm PROVE IInv'
  OBVIOUS
<1>1. TypeOK'
  BY TypeNext DEF IInv, Next
<1>2. size \in Vms /\ size \notin Added /\ Added' = Added \cup {size}
  BY HypervisorAssumption DEF IInv, TypeOK, AddVm, Added
<1>3. ControlInv' /\ SliceInv' /\ PreCopyInv'
  BY DEF IInv, ControlInv, AddVm, vmVars, SliceInv, PreCopyInv
<1>4. MachineInv'
  <2>1. \A i \in Vms : ~Busy(i)
    BY DEF AddVm, Busy
  <2>2. \A i \in Vms : StatusMatchesPc(i)'
    BY <2>1, StatusFrame DEF IInv, MachineInv, AddVm, vmVars
  <2> QED
    BY <1>2, <2>2 DEF IInv, MachineInv, AddVm, vmVars
<1>5. MetricsInv'
  <2>1. \A n \in Names : (\A j \in Added' : config'[j].name # n) => retired'[n] = 0
    BY <1>2 DEF IInv, MetricsInv, AddVm
  <2>2. ASSUME NEW i \in Added', UniqueName(i)'
        PROVE  retired'[config'[i].name] = pc'[i] /\ ~InSlice(i)'
    <3>1. CASE i \in Added
      <4>1. UniqueName(i)
        BY <1>2, <2>2 DEF UniqueName, AddVm
      <4> QED
        BY <3>1, <4>1 DEF IInv, MetricsInv, AddVm, vmVars, InSlice
    <3>2. CASE i = size
      <4>1. \A j \in Added : config[j].name # config[i].name
        BY <1>2, <2>2, <3>2 DEF UniqueName, AddVm
      <4>2. config[i].name \in Names
        BY <1>2, <3>2, ConfigType DEF IInv
      <4>3. pc[i] = 0
        BY <1>2, <3>2 DEF IInv, MachineInv
      <4> QED
        BY <4>1, <4>2, <4>3 DEF IInv, MetricsInv, AddVm, vmVars, InSlice
    <3> QED
      BY <1>2, <3>1, <3>2
  <2> QED
    BY <2>1, <2>2 DEF MetricsInv
<1> QED
  BY <1>1, <1>3, <1>4, <1>5 DEF IInv

(* A change of phase outside a slice and a migration disturbs nothing. *)
LEMMA QuietInv ==
  ASSUME IInv, TypeOK', UNCHANGED <<program, pc, status, pending, call, config,
                                    size, round, retired>>,
         phase \in {"idle", "loop"}, phase' \in {"idle", "loop"}
  PROVE  IInv'
<1>1. \A i \in Vms : StatusMatchesPc(i)'
  BY StatusFrame DEF IInv, MachineInv, Busy
<1>2. MachineInv'
  BY <1>1 DEF IInv, MachineInv, Added
<1>3. ControlInv' /\ SliceInv' /\ PreCopyInv'
  BY DEF IInv, ControlInv, SliceInv, PreCopyInv
<1>4. MetricsInv'
  BY DEF IInv, MetricsInv, InSlice, UniqueName, Added
<1> QED
  BY <1>2, <1>3, <1>4 DEF IInv

-----------------------------------------------------------------------------

(* A pre-copy round cannot retire, trap or halt: the machine is on MIGRATE. *)
LEMMA PreCopyOnlyMigrates ==
  ASSUME PreCopyInv, phase = "precopy", NEW o \in Outcome, AtInstruction(cur, o)
  PROVE  o = "Migrate"
BY DEF PreCopyInv, AtInstruction

(* Only a machine Run is working with executes. *)
LEMMA SliceOpen ==
  ASSUME IInv, call \in {"executing", "broke", "returned"}
  PROVE  /\ phase \in {"dispatch", "precopy"}
         /\ cur \in Added /\ cur \in Vms /\ Busy(cur)
BY AddedAreVms DEF IInv, ControlInv, TypeOK, Phase, Busy

(* MetricsInv needs to be looked at only where pc and ran move. *)
LEMMA MetricsFrame ==
  ASSUME TypeOK, MetricsInv, cur \in Added, cur' = cur,
         UNCHANGED <<phase, config, size, retired>>,
         \A i \in Vms \ {cur} : pc'[i] = pc[i],
         phase = "dispatch" => pc'[cur] - ran' = pc[cur] - ran,
         phase # "dispatch" => pc'[cur] = pc[cur]
  PROVE  MetricsInv'
<1>1. Added \subseteq Vms /\ Added' = Added
  BY AddedAreVms DEF Added
<1>2. ASSUME NEW i \in Added, UniqueName(i)'
      PROVE  retired'[config'[i].name] =
               IF InSlice(i)' THEN pc'[i] - ran' ELSE pc'[i]
  <2>1. UniqueName(i)
    BY <1>1, <1>2 DEF UniqueName
  <2>2. retired[config[i].name] = IF InSlice(i) THEN pc[i] - ran ELSE pc[i]
    BY <2>1 DEF MetricsInv
  <2>3. CASE i = cur
    BY <2>2, <2>3 DEF InSlice
  <2>4. CASE i # cur
    BY <1>1, <2>2, <2>4 DEF InSlice
  <2> QED
    BY <2>3, <2>4
<1> QED
  BY <1>1, <1>2 DEF MetricsInv

LEMMA RetireInv == IInv /\ VmStep /\ ExecuteRetire => IInv'
<1> SUFFICES ASSUME IInv, VmStep, ExecuteRetire PROVE IInv'
  OBVIOUS
<1>1. TypeOK'
  BY TypeNext DEF IInv, Next, RunStep
<1>2. /\ phase = "dispatch" /\ call = "executing"
      /\ cur \in Added /\ cur \in Vms /\ Busy(cur)
  BY SliceOpen, PreCopyOnlyMigrates
  DEF IInv, ExecuteRetire, LoopContinues, Outcome
<1>3. /\ pc' = [pc EXCEPT ![cur] = pc[cur] + 1]
      /\ ran' = ran + 1
      /\ UNCHANGED <<program, pending, call, cur, budget, hvVars>>
      /\ status' = [status EXCEPT ![cur] = "Running"]
  BY DEF ExecuteRetire, VmStep
<1>4. /\ pc[cur] \in Nat /\ ran \in Nat /\ budget \in Nat
      /\ Len(program[cur]) \in Nat
      /\ ran < budget /\ pc[cur] < Len(program[cur])
      /\ program[cur][pc[cur] + 1] = "Retire"
  BY <1>2, ProgramType
  DEF IInv, TypeOK, VmTypeOK, ExecuteRetire, LoopContinues, AtInstruction, InProgram
<1>5. pc'[cur] = pc[cur] + 1 /\ status'[cur] = "Running"
  BY <1>2, <1>3 DEF IInv, TypeOK, VmTypeOK
<1>6. \A i \in Vms \ {cur} :
        pc'[i] = pc[i] /\ status'[i] = status[i] /\ pending'[i] = pending[i]
  BY <1>3 DEF IInv, TypeOK, VmTypeOK
<1>7. ControlInv'
  BY <1>2, <1>3 DEF IInv, ControlInv, hvVars, Added
<1>8. MachineInv'
  BY <1>2, <1>3, <1>4, <1>5, <1>6, MachineFrame DEF IInv, hvVars, Busy
<1>9. SliceInv'
  <2>1. \A j \in 1 .. ran + 1 :
          program[cur][(pc[cur] + 1) - (ran + 1) + j] = "Retire"
    <3> SUFFICES ASSUME NEW j \in 1 .. ran + 1
                 PROVE  program[cur][(pc[cur] + 1) - (ran + 1) + j] = "Retire"
      OBVIOUS
    <3>1. (pc[cur] + 1) - (ran + 1) + j = pc[cur] - ran + j
      BY <1>4, SMTT(30)
    <3>2. CASE j = ran + 1
      BY <1>4, <3>1, <3>2
    <3>3. CASE j # ran + 1
      <4>1. j \in 1 .. ran
        BY <1>4, <3>3
      <4> QED
        BY <1>2, <3>1, <4>1 DEF IInv, SliceInv
    <3> QED
      BY <3>2, <3>3
  <2> QED
    BY <1>2, <1>3, <1>4, <1>5, <2>1, SMTT(30) DEF IInv, SliceInv, hvVars
<1>10. PreCopyInv'
  BY <1>2, <1>3 DEF PreCopyInv, hvVars
<1>11. MetricsInv'
  BY <1>2, <1>3, <1>4, <1>5, <1>6, MetricsFrame DEF IInv, hvVars
<1> QED
  BY <1>1, <1>7, <1>8, <1>9, <1>10, <1>11 DEF IInv

(* The three instructions that end the loop of RunForSlice. *)
LEMMA StopInv ==
  ASSUME IInv, VmStep, ExecuteTrap \/ ExecuteMigrate \/ ExecuteHalt
  PROVE  IInv'
<1>1. TypeOK'
  BY TypeNext DEF IInv, Next, RunStep
<1>2. /\ phase \in {"dispatch", "precopy"} /\ call = "executing" /\ call' = "broke"
      /\ cur \in Added /\ cur \in Vms /\ Busy(cur)
  BY SliceOpen DEF ExecuteTrap, ExecuteMigrate, ExecuteHalt, LoopContinues
<1>3. UNCHANGED <<program, pc, cur, budget, ran, hvVars>>
  BY DEF ExecuteTrap, ExecuteMigrate, ExecuteHalt, VmStep
<1>4. /\ ran < budget
      /\ InProgram(cur)
  BY DEF ExecuteTrap, ExecuteMigrate, ExecuteHalt, LoopContinues
<1>5. \/ AtInstruction(cur, "Trap") /\ status'[cur] = "Faulted" /\ pending'[cur] = pending[cur]
      \/ AtInstruction(cur, "Migrate") /\ status'[cur] = "Blocked" /\ pending'[cur]
      \/ AtInstruction(cur, "Halt") /\ status'[cur] = "Halted" /\ pending'[cur] = pending[cur]
  BY <1>2 DEF ExecuteTrap, ExecuteMigrate, ExecuteHalt, IInv, TypeOK, VmTypeOK
<1>6. \A i \in Vms \ {cur} :
        pc'[i] = pc[i] /\ status'[i] = status[i] /\ pending'[i] = pending[i]
  BY DEF ExecuteTrap, ExecuteMigrate, ExecuteHalt, IInv, TypeOK, VmTypeOK
<1>7. ControlInv'
  BY <1>2, <1>3 DEF IInv, ControlInv, hvVars, Added
<1>8. MachineInv'
  BY <1>2, <1>3, <1>6, MachineFrame DEF IInv, MachineInv, hvVars, Busy
<1>9. SliceInv'
  <2> SUFFICES ASSUME phase = "dispatch" PROVE SliceInv'
    BY <1>3 DEF SliceInv, hvVars
  <2>1. ~pending[cur]
    BY <1>2 DEF IInv, SliceInv
  <2>2. Stopped'
    BY <1>3, <1>4, <1>5, <2>1 DEF Stopped, AtInstruction, InProgram
  <2> QED
    BY <1>2, <1>3, <2>2 DEF IInv, SliceInv, hvVars
<1>10. PreCopyInv'
  <2> SUFFICES ASSUME phase = "precopy" PROVE PreCopyInv'
    BY <1>3 DEF PreCopyInv, hvVars
  <2>1. status'[cur] = "Blocked" /\ pending'[cur] /\ AtInstruction(cur, "Migrate")
    BY <1>5, PreCopyOnlyMigrates DEF IInv, Outcome
  <2> QED
    BY <1>2, <1>3, <2>1 DEF IInv, PreCopyInv, AtInstruction, InProgram
<1>11. MetricsInv'
  BY <1>2, <1>3, <1>6, MetricsFrame DEF IInv, hvVars
<1> QED
  BY <1>1, <1>7, <1>8, <1>9, <1>10, <1>11 DEF IInv

LEMMA FinishInv == IInv /\ VmStep /\ FinishSlice => IInv'
<1> SUFFICES ASSUME IInv, VmStep, FinishSlice PROVE IInv'
  OBVIOUS
<1>1. TypeOK'
  BY TypeNext DEF IInv, Next, RunStep
<1>2. /\ phase \in {"dispatch", "precopy"} /\ call \in {"executing", "broke"}
      /\ call' = "returned" /\ cur \in Added /\ cur \in Vms /\ Busy(cur)
  BY SliceOpen DEF FinishSlice
<1>3. UNCHANGED <<program, pc, pending, cur, budget, ran, hvVars>>
  BY DEF FinishSlice, VmStep
<1>4. status'[cur] = SettledStatus(cur)
  BY <1>2 DEF FinishSlice, IInv, TypeOK, VmTypeOK
<1>5. \A i \in Vms \ {cur} :
        pc'[i] = pc[i] /\ status'[i] = status[i] /\ pending'[i] = pending[i]
  BY <1>3 DEF FinishSlice, IInv, TypeOK, VmTypeOK
<1>6. /\ pc[cur] \in Nat /\ Len(program[cur]) \in Nat /\ pc[cur] <= Len(program[cur])
      /\ ran \in Nat /\ budget \in Nat
  BY <1>2, ProgramType DEF IInv, TypeOK, VmTypeOK, MachineInv
<1>7. ControlInv'
  BY <1>2, <1>3 DEF IInv, ControlInv, hvVars, Added
<1>8. MachineInv'
  BY <1>2, <1>3, <1>5, <1>6, MachineFrame DEF IInv, hvVars, Busy
<1>9. SliceInv'
  <2> SUFFICES ASSUME phase = "dispatch" PROVE SliceInv'
    BY <1>3 DEF SliceInv, hvVars
  <2>1. CASE call = "broke"
    <3>1. Stopped /\ InProgram(cur)
      BY <2>1 DEF IInv, SliceInv, Stopped, AtInstruction
    <3>2. Stopped'
      BY <1>3, <1>4, <3>1 DEF Stopped, SettledStatus, AtInstruction, InProgram
    <3> QED
      BY <1>2, <1>3, <3>2 DEF IInv, SliceInv, hvVars
  <2>2. CASE call = "executing"
    <3>1. status[cur] = "Running" /\ ~pending[cur] /\ ran <= budget
      BY <2>2 DEF IInv, SliceInv
    <3>2. InProgram(cur) => ran = budget
      BY <1>6, <2>2, <3>1 DEF FinishSlice, LoopContinues
    <3>3. Exhausted'
      BY <1>3, <1>4, <1>6, <3>1, <3>2 DEF Exhausted, SettledStatus, InProgram
    <3> QED
      BY <1>2, <1>3, <3>3 DEF IInv, SliceInv, hvVars
  <2> QED
    BY <1>2, <2>1, <2>2
<1>10. PreCopyInv'
  <2> SUFFICES ASSUME phase = "precopy" PROVE PreCopyInv'
    BY <1>3 DEF PreCopyInv, hvVars
  <2>1. status'[cur] \in {"Blocked", "Ready"}
    BY <1>2, <1>4 DEF IInv, PreCopyInv, SettledStatus, AtInstruction
  <2> QED
    BY <1>2, <1>3, <2>1 DEF IInv, PreCopyInv, AtInstruction, InProgram
<1>11. MetricsInv'
  BY <1>2, <1>3, <1>5, MetricsFrame DEF IInv, hvVars
<1> QED
  BY <1>1, <1>7, <1>8, <1>9, <1>10, <1>11 DEF IInv

-----------------------------------------------------------------------------

LEMMA DispatchInv ==
  ASSUME IInv, NEW idx \in 0 .. MaxVms, Dispatch(idx)
  PROVE  IInv'
<1>1. TypeOK'
  BY TypeNext DEF IInv, Next, PickNext
<1>2. idx \in Added /\ idx \in Vms /\ ~Terminal(idx)
  BY AddedAreVms DEF IInv, Dispatch, Alive
<1>3. /\ phase = "loop" /\ phase' = "dispatch"
      /\ call' = "executing" /\ cur' = idx /\ ran' = 0
      /\ budget' = config[idx].execSlice
      /\ status' = [status EXCEPT ![idx] = "Running"]
      /\ UNCHANGED <<program, pc, pending, config, size, round, retired>>
  BY <1>2 DEF Dispatch, RunForSlice
<1>4. /\ config[idx].execSlice \in Nat /\ pc[idx] \in Nat
      /\ Len(program[idx]) \in Nat
  BY <1>2, ConfigType, ProgramType DEF IInv, TypeOK, VmTypeOK
<1>5. \A i \in Vms : ~Busy(i)
  BY <1>3 DEF Busy
<1>6. status'[idx] = "Running" /\ ~pending'[idx]
  BY <1>2, <1>3, <1>5 DEF IInv, TypeOK, VmTypeOK, MachineInv, StatusMatchesPc
<1>7. ControlInv'
  BY <1>2, <1>3 DEF IInv, ControlInv, Added
<1>8. MachineInv'
  <2> SUFFICES ASSUME NEW i \in Vms
               PROVE  /\ pc'[i] <= Len(program'[i])
                      /\ i \notin Added' => pc'[i] = 0 /\ status'[i] = "Ready" /\ ~pending'[i]
                      /\ ~Busy(i)' => StatusMatchesPc(i)'
    BY DEF MachineInv
  <2>1. CASE i = idx
    BY <1>2, <1>3, <2>1 DEF IInv, MachineInv, Added, Busy
  <2>2. CASE i # idx
    <3>1. status'[i] = status[i]
      BY <1>3, <2>2 DEF IInv, TypeOK, VmTypeOK
    <3> QED
      BY <1>3, <1>5, <3>1, StatusFrame DEF IInv, MachineInv, Added
  <2> QED
    BY <2>1, <2>2
<1>9. SliceInv'
  BY <1>3, <1>4, <1>6 DEF SliceInv
<1>10. PreCopyInv'
  BY <1>3 DEF PreCopyInv
<1>11. MetricsInv'
  <2>1. ASSUME NEW i \in Added, UniqueName(i)'
        PROVE  retired'[config'[i].name] =
                 IF InSlice(i)' THEN pc'[i] - ran' ELSE pc'[i]
    <3>1. UniqueName(i)
      BY <1>3, <2>1 DEF UniqueName, Added
    <3>2. retired[config[i].name] = pc[i] /\ pc[i] - 0 = pc[i]
      BY <1>3, <3>1, AddedAreVms DEF IInv, MetricsInv, InSlice, TypeOK, VmTypeOK
    <3> QED
      BY <1>3, <3>2
  <2> QED
    BY <1>3, <2>1 DEF IInv, MetricsInv, Added
<1> QED
  BY <1>1, <1>7, <1>8, <1>9, <1>10, <1>11 DEF IInv

LEMMA RecordSliceInv == IInv /\ RecordSlice => IInv'
<1> SUFFICES ASSUME IInv, RecordSlice PROVE IInv'
  OBVIOUS
<1>1. TypeOK'
  BY TypeNext DEF IInv, Next, RunStep
<1>2. /\ phase = "dispatch" /\ call = "returned"
      /\ cur \in Added /\ cur \in Vms /\ Busy(cur)
  BY SliceOpen DEF RecordSlice, TakeResult
<1>3. /\ call' = "none" /\ retired' = [retired EXCEPT ![CurName] = @ + ran]
      /\ phase' = IF pending[cur] THEN "precopy" ELSE "loop"
      /\ UNCHANGED <<program, pc, status, pending, cur, budget, ran, config, size, round>>
  BY DEF RecordSlice, TakeResult
<1>4. Stopped \/ Exhausted
  BY <1>2 DEF IInv, SliceInv
<1>5. /\ pc[cur] \in Nat /\ ran \in Nat /\ CurName \in Names
      /\ retired \in [Names -> Nat]
  BY <1>2, ConfigType DEF IInv, TypeOK, VmTypeOK, CurName
<1>6. ControlInv'
  BY <1>2, <1>3 DEF IInv, ControlInv, Added
<1>7. MachineInv'
  <2>1. \A i \in Vms \ {cur} : StatusMatchesPc(i)'
    BY <1>3, StatusFrame DEF IInv, MachineInv, Busy
  <2>2. ~pending[cur] => StatusMatchesPc(cur)'
    BY <1>3, <1>4
    DEF Stopped, Exhausted, StatusMatchesPc, AtInstruction, InProgram
  <2>3. pending[cur] => Busy(cur)'
    BY <1>3 DEF Busy
  <2> QED
    BY <1>3, <2>1, <2>2, <2>3 DEF IInv, MachineInv, Added
<1>8. SliceInv'
  BY <1>3 DEF SliceInv
<1>9. PreCopyInv'
  BY <1>3, <1>4 DEF PreCopyInv, Stopped, Exhausted, AtInstruction, InProgram
<1>10. MetricsInv'
  <2>1. \A n \in Names \ {CurName} : retired'[n] = retired[n]
    BY <1>3, <1>5
  <2>2. retired'[CurName] = retired[CurName] + ran
    BY <1>3, <1>5
  <2>3. ASSUME NEW i \in Added, UniqueName(i)'
        PROVE  retired'[config[i].name] = pc[i]
    <3>1. UniqueName(i)
      BY <1>3, <2>3 DEF UniqueName, Added
    <3>2. CASE i = cur
      BY <1>2, <1>5, <2>2, <3>1, <3>2 DEF IInv, MetricsInv, InSlice, CurName
    <3>3. CASE i # cur
      <4>1. config[i].name # CurName
        BY <1>2, <3>1, <3>3 DEF UniqueName, CurName
      <4>2. config[i].name \in Names
        BY AddedAreVms, ConfigType DEF IInv
      <4> QED
        BY <2>1, <3>1, <3>3, <4>1, <4>2 DEF IInv, MetricsInv, InSlice
    <3> QED
      BY <3>2, <3>3
  <2>4. \A n \in Names : (\A j \in Added : config[j].name # n) => retired'[n] = 0
    BY <1>2, <2>1 DEF IInv, MetricsInv, CurName
  <2> QED
    BY <1>3, <2>3, <2>4 DEF MetricsInv, Added, InSlice
<1> QED
  BY <1>1, <1>6, <1>7, <1>8, <1>9, <1>10 DEF IInv

-----------------------------------------------------------------------------

LEMMA PreCopyRoundInv == IInv /\ PreCopyRound => IInv'
<1> SUFFICES ASSUME IInv, PreCopyRound PROVE IInv'
  OBVIOUS
<1>1. TypeOK'
  BY TypeNext DEF IInv, Next, RunStep
<1>2. /\ phase = "precopy" /\ call = "none"
      /\ cur \in Added /\ cur \in Vms /\ Busy(cur)
  BY AddedAreVms DEF IInv, PreCopyRound, RunForSlice, ControlInv, Busy
<1>3. status[cur] \in {"Blocked", "Ready"} /\ ~Terminal(cur)
  BY <1>2 DEF IInv, PreCopyInv, Terminal
<1>4. /\ call' = "executing" /\ ran' = 0 /\ cur' = cur
      /\ status' = [status EXCEPT ![cur] = "Running"]
      /\ UNCHANGED <<program, pc, pending, config, size, phase, retired>>
  BY <1>3 DEF PreCopyRound, RunForSlice
<1>5. \A i \in Vms \ {cur} :
        pc'[i] = pc[i] /\ status'[i] = status[i] /\ pending'[i] = pending[i]
  BY <1>4 DEF IInv, TypeOK, VmTypeOK
<1>6. status'[cur] = "Running"
  BY <1>2, <1>4 DEF IInv, TypeOK, VmTypeOK
<1>7. ControlInv'
  BY <1>2, <1>4 DEF ControlInv, Added
<1>8. MachineInv'
  BY <1>2, <1>4, <1>5, MachineFrame DEF IInv, MachineInv, Busy
<1>9. SliceInv'
  BY <1>2, <1>4 DEF SliceInv
<1>10. PreCopyInv'
  BY <1>2, <1>4, <1>6 DEF IInv, PreCopyInv, AtInstruction, InProgram
<1>11. MetricsInv'
  BY <1>2, <1>4, <1>5, MetricsFrame DEF IInv
<1> QED
  BY <1>1, <1>7, <1>8, <1>9, <1>10, <1>11 DEF IInv

LEMMA PreCopyReturnInv == IInv /\ PreCopyReturn => IInv'
<1> SUFFICES ASSUME IInv, PreCopyReturn PROVE IInv'
  OBVIOUS
<1>1. TypeOK'
  BY TypeNext DEF IInv, Next, RunStep
<1>2. /\ phase = "precopy" /\ call = "returned" /\ call' = "none"
      /\ cur \in Added /\ cur \in Vms /\ Busy(cur)
  BY SliceOpen DEF PreCopyReturn, TakeResult
<1>3. UNCHANGED <<program, pc, status, pending, cur, budget, ran, hvVars>>
  BY DEF PreCopyReturn, TakeResult
<1>4. ControlInv'
  BY <1>2, <1>3 DEF IInv, ControlInv, hvVars, Added
<1>5. MachineInv'
  BY <1>2, <1>3, MachineFrame DEF IInv, MachineInv, hvVars, Busy
<1>6. SliceInv'
  BY <1>2, <1>3 DEF SliceInv, hvVars
<1>7. PreCopyInv'
  BY <1>2, <1>3 DEF IInv, PreCopyInv, hvVars, AtInstruction, InProgram
<1>8. MetricsInv'
  BY <1>2, <1>3, MetricsFrame DEF IInv, hvVars
<1> QED
  BY <1>1, <1>4, <1>5, <1>6, <1>7, <1>8 DEF IInv

LEMMA TransferAndClearInv == IInv /\ TransferAndClear => IInv'
<1> SUFFICES ASSUME IInv, TransferAndClear PROVE IInv'
  OBVIOUS
<1>1. TypeOK'
  BY TypeNext DEF IInv, Next, RunStep
<1>2. /\ phase = "precopy" /\ phase' = "loop" /\ call = "none" /\ round' = 0
      /\ cur \in Added /\ cur \in Vms
      /\ pending' = [pending EXCEPT ![cur] = FALSE]
      /\ UNCHANGED <<program, pc, status, call, cur, budget, ran, config, size, retired>>
  BY AddedAreVms DEF IInv, TransferAndClear, ControlInv
<1>3. \A i \in Vms \ {cur} : StatusMatchesPc(i)' /\ pending'[i] = pending[i]
  BY <1>2, StatusFrame DEF IInv, MachineInv, Busy, TypeOK, VmTypeOK
<1>4. StatusMatchesPc(cur)'
  BY <1>2
  DEF IInv, PreCopyInv, TypeOK, VmTypeOK, StatusMatchesPc, AtInstruction, InProgram
<1>5. MachineInv'
  BY <1>2, <1>3, <1>4 DEF IInv, MachineInv, Added
<1>6. ControlInv' /\ SliceInv' /\ PreCopyInv'
  BY <1>2 DEF ControlInv, SliceInv, PreCopyInv
<1>7. MetricsInv'
  BY <1>2 DEF IInv, MetricsInv, InSlice, UniqueName, Added
<1> QED
  BY <1>1, <1>5, <1>6, <1>7 DEF IInv

-----------------------------------------------------------------------------

LEMMA NextInv == IInv /\ [Next]_vars => IInv'
<1> SUFFICES ASSUME IInv, [Next]_vars PROVE IInv'
  OBVIOUS
<1>1. TypeOK'
  BY TypeNext DEF IInv
<1>2. CASE AddVm
  BY <1>2, AddVmInv
<1>3. CASE Run
  BY <1>1, <1>3, QuietInv DEF Run, vmVars
<1>4. CASE Leave
  BY <1>1, <1>4, QuietInv DEF Leave, vmVars
<1>5. CASE VmStep
  BY <1>5, RetireInv, StopInv, FinishInv DEF VmStep, ExecuteSlice
<1>6. CASE RecordSlice
  BY <1>6, RecordSliceInv
<1>7. CASE PreCopyRound
  BY <1>7, PreCopyRoundInv
<1>8. CASE PreCopyReturn
  BY <1>8, PreCopyReturnInv
<1>9. CASE TransferAndClear
  BY <1>9, TransferAndClearInv
<1>10. ASSUME NEW idx \in 0 .. MaxVms, Dispatch(idx) PROVE IInv'
  BY <1>10, DispatchInv
<1>11. CASE UNCHANGED vars
  BY <1>1, <1>11
  DEF vars, vmVars, hvVars, IInv, ControlInv, MachineInv, SliceInv, PreCopyInv,
      MetricsInv, Added, Busy, StatusMatchesPc, AtInstruction, InProgram,
      Stopped, Exhausted, UniqueName, InSlice
<1> QED
  BY <1>2, <1>3, <1>4, <1>5, <1>6, <1>7, <1>8, <1>9, <1>10, <1>11
  DEF Next, RunStep, PickNext, SkipPick

(* The invariant of the proofs holds in every reachable state. *)
THEOREM Inductive == Spec => []IInv
<1>1. Init => IInv
  BY InitInv
<1>2. IInv /\ [Next]_vars => IInv'
  BY NextInv
<1> QED
  BY <1>1, <1>2, PTL DEF Spec

(* Run never leaves a machine with a status its program counter belies. *)
THEOREM Settled == Spec => []SettledBetweenSlices
<1>1. IInv => SettledBetweenSlices
  BY AddedAreVms DEF IInv, MachineInv, SettledBetweenSlices, Busy
<1> QED
  BY <1>1, Inductive, PTL

(* instructionsByVm is exact although PreCopyMigrate drops its counts. *)
THEOREM Metrics == Spec => []MetricsExact
<1>1. IInv => MetricsExact
  BY DEF IInv, MetricsInv, MetricsExact, InSlice
<1> QED
  BY <1>1, Inductive, PTL

-----------------------------------------------------------------------------

(* In a slice or a migration the machine at work is over only once stopped. *)
LEMMA StepKeepsTerminal ==
  ASSUME IInv, [Next]_vars, NEW i \in Vms, Terminal(i)
  PROVE  Terminal(i)' /\ pc'[i] = pc[i]
<1> USE DEF Terminal
<1>1. CASE VmStep
  <2>1. call \in {"executing", "broke"} /\ cur \in Vms /\ phase \in {"dispatch", "precopy"}
    BY <1>1, SliceOpen
    DEF VmStep, ExecuteSlice, ExecuteRetire, ExecuteTrap, ExecuteMigrate,
        ExecuteHalt, FinishSlice, LoopContinues
  <2>2. CASE i # cur
    BY <1>1, <2>2
    DEF IInv, TypeOK, VmTypeOK, VmStep, ExecuteSlice, ExecuteRetire, ExecuteTrap,
        ExecuteMigrate, ExecuteHalt, FinishSlice
  <2>3. CASE i = cur
    <3>1. call = "broke" /\ phase = "dispatch"
      BY <2>1, <2>3 DEF IInv, SliceInv, PreCopyInv
    <3>2. Stopped
      BY <3>1 DEF IInv, SliceInv
    <3>3. FinishSlice
      BY <1>1, <3>1
      DEF VmStep, ExecuteSlice, ExecuteRetire, ExecuteTrap, ExecuteMigrate,
          ExecuteHalt, LoopContinues
    <3> QED
      BY <2>1, <2>3, <3>2, <3>3
      DEF FinishSlice, SettledStatus, Stopped, AtInstruction, IInv, TypeOK, VmTypeOK
  <2> QED
    BY <2>2, <2>3
<1>2. CASE PreCopyRound
  <2>1. cur \in Vms /\ ~Terminal(cur)
    BY <1>2 DEF IInv, TypeOK, VmTypeOK, PreCopyInv, PreCopyRound, RunForSlice
  <2> QED
    BY <1>2, <2>1 DEF PreCopyRound, RunForSlice, IInv, TypeOK, VmTypeOK
<1>3. ASSUME NEW idx \in 0 .. MaxVms, Dispatch(idx)
      PROVE  Terminal(i)' /\ pc'[i] = pc[i]
  BY <1>3, AddedAreVms DEF Dispatch, Alive, RunForSlice, IInv, TypeOK, VmTypeOK
<1>4. CASE UNCHANGED <<status, pc>>
  BY <1>4
<1> QED
  BY <1>1, <1>2, <1>3, <1>4
  DEF Next, RunStep, AddVm, Run, Leave, RecordSlice, TakeResult, PreCopyReturn,
      TransferAndClear, PickNext, SkipPick, vars, vmVars, hvVars

(* No later slice, migration, AddVm or Run revives a machine that is over. *)
THEOREM TerminalStays == Spec => TerminalIsFinal
<1>1. IInv /\ [Next]_vars =>
        [\A i \in Vms : Terminal(i) => Terminal(i)' /\ pc'[i] = pc[i]]_vars
  BY StepKeepsTerminal
<1> QED
  BY <1>1, Inductive, PTL DEF Spec, TerminalIsFinal

-----------------------------------------------------------------------------

LEMMA InitSliced == Init => Sliced!AbsInit
<1> SUFFICES ASSUME Init PROVE Sliced!AbsInit
  OBVIOUS
<1>1. \A i \in Vms : ~InSlice(i) /\ ~Terminal(i) /\ pc[i] = 0
  BY DEF Init, VmInit, InSlice, Terminal
<1> QED
  BY <1>1 DEF Sliced!AbsInit

(* A step that neither closes a slice nor moves a machine outside one. *)
LEMMA StutterSliced ==
  ASSUME UNCHANGED <<program, config>>,
         \A i \in Vms :
           /\ (IF InSlice(i)' THEN pc'[i] - ran' ELSE pc'[i])
                = (IF InSlice(i) THEN pc[i] - ran ELSE pc[i])
           /\ (~InSlice(i)' /\ Terminal(i)') = (~InSlice(i) /\ Terminal(i))
  PROVE  UNCHANGED Sliced!absVars
BY DEF Sliced!absVars

LEMMA BooleanEquality ==
  ASSUME NEW a \in BOOLEAN, NEW b \in BOOLEAN, a <=> b
  PROVE  a = b
OBVIOUS

(* EXCEPT, element by element. *)
LEMMA ExceptIsIf ==
  ASSUME NEW S, NEW f, NEW g, NEW x \in S, NEW v,
         f = [i \in S |-> f[i]], g = [i \in S |-> g[i]],
         g[x] = v, \A i \in S \ {x} : g[i] = f[i]
  PROVE  g = [f EXCEPT ![x] = v]
OBVIOUS

(* RecordSlice is where the abstract machine takes its slice, in one step. *)
LEMMA RecordSliced ==
  ASSUME IInv, RecordSlice
  PROVE  Sliced!AbsNext
<1>1. /\ phase = "dispatch" /\ call = "returned"
      /\ cur \in Vms
  BY SliceOpen DEF RecordSlice, TakeResult
<1>2. /\ phase' \in {"precopy", "loop"}
      /\ UNCHANGED <<program, pc, status, cur, ran, config>>
  BY DEF RecordSlice, TakeResult
<1>3. /\ pc[cur] \in Nat /\ ran \in Nat /\ ran <= pc[cur]
      /\ Len(program[cur]) \in Nat /\ pc[cur] <= Len(program[cur])
      /\ budget = config[cur].execSlice /\ ran <= budget /\ budget \in Nat
      /\ \A j \in 1 .. ran : program[cur][pc[cur] - ran + j] = "Retire"
  BY <1>1, ProgramType DEF IInv, TypeOK, VmTypeOK, MachineInv, SliceInv
<1>4. Stopped \/ Exhausted
  BY <1>1 DEF IInv, SliceInv
<1>5. /\ InSlice(cur) /\ \A i \in Vms : ~InSlice(i)'
      /\ \A i \in Vms \ {cur} : ~InSlice(i)
  BY <1>1, <1>2 DEF InSlice
<1> DEFINE d == [i \in Vms |-> IF InSlice(i) THEN pc[i] - ran ELSE pc[i]]
           o == [i \in Vms |-> ~InSlice(i) /\ Terminal(i)]
           q == [i \in Vms |-> config[i].execSlice]
<1>6. d[cur] = pc[cur] - ran /\ d[cur] + ran = pc[cur] /\ q[cur] = budget
  BY <1>1, <1>3, <1>5
<1>12. ~o[cur]
  BY <1>1, <1>5, Zenon
<1>7. Sliced!SliceRetires(cur, ran)
  <2>1. \/ ran = budget
        \/ pc[cur] = Len(program[cur])
        \/ program[cur][pc[cur] + 1] # "Retire"
    BY <1>4 DEF Stopped, Exhausted, AtInstruction
  <2> QED
    BY <1>3, <1>6, <2>1 DEF Sliced!SliceRetires
<1>8. Terminal(cur) <=> Sliced!SliceFinishes(cur, ran)
  <2>1. Sliced!SliceFinishes(cur, ran) <=>
          \/ pc[cur] = Len(program[cur])
          \/ ran < budget /\ program[cur][pc[cur] + 1] \in {"Halt", "Trap"}
    BY <1>6 DEF Sliced!SliceFinishes
  <2>2. CASE Stopped
    BY <1>3, <2>1, <2>2 DEF Stopped, AtInstruction, InProgram, Terminal
  <2>3. CASE Exhausted
    BY <1>3, <2>1, <2>3 DEF Exhausted, InProgram, Terminal
  <2> QED
    BY <1>4, <2>2, <2>3
<1>9. d' = [d EXCEPT ![cur] = @ + ran]
  BY <1>1, <1>2, <1>5, <1>6
<1>10. o' = [o EXCEPT ![cur] = Sliced!SliceFinishes(cur, ran)]
  <2>1. \A i \in Vms : Terminal(i)' <=> Terminal(i)
    BY <1>2 DEF Terminal
  <2>2. \A i \in Vms \ {cur} : o'[i] = o[i]
    <3> SUFFICES ASSUME NEW i \in Vms \ {cur} PROVE o'[i] = o[i]
      OBVIOUS
    <3>1. (~InSlice(i)' /\ Terminal(i)') = (~InSlice(i) /\ Terminal(i))
      BY <1>5, <2>1
    <3> QED
      BY <3>1, Zenon
  <2>3. o'[cur] <=> Sliced!SliceFinishes(cur, ran)
    BY <1>1, <1>5, <1>8, <2>1, Zenon
  <2>4. o'[cur] \in BOOLEAN /\ Sliced!SliceFinishes(cur, ran) \in BOOLEAN
    BY <1>1, Zenon DEF Sliced!SliceFinishes
  <2>5. o'[cur] = Sliced!SliceFinishes(cur, ran)
    BY <2>3, <2>4, BooleanEquality, Zenon
  <2>6. o = [i \in Vms |-> o[i]] /\ o' = [i \in Vms |-> o'[i]]
    BY Zenon
  <2> HIDE DEF o
  <2> QED
    BY <1>1, <2>2, <2>5, <2>6, ExceptIsIf, Zenon
<1>11. ran \in 0 .. Len(program[cur])
  BY <1>3
<1>13. PICK m \in Vms : m = cur
  BY <1>1
<1>14. PICK k \in 0 .. Len(program[m]) : k = ran
  BY <1>11, <1>13
<1>15. Sliced!GiveSlice(m, k)
  BY <1>2, <1>7, <1>9, <1>10, <1>12, <1>13, <1>14 DEF Sliced!GiveSlice
<1> QED
  BY <1>15, Zenon DEF Sliced!AbsNext

LEMMA StepSliced == IInv /\ [Next]_vars => [Sliced!AbsNext]_(Sliced!absVars)
<1> SUFFICES ASSUME IInv, [Next]_vars PROVE [Sliced!AbsNext]_(Sliced!absVars)
  OBVIOUS
<1> USE DEF InSlice
<1>1. CASE VmStep
  <2>1. call \in {"executing", "broke"} /\ phase \in {"dispatch", "precopy"}
        /\ cur \in Vms
    BY <1>1, SliceOpen
    DEF VmStep, ExecuteSlice, ExecuteRetire, ExecuteTrap, ExecuteMigrate,
        ExecuteHalt, FinishSlice, LoopContinues
  <2>2. /\ UNCHANGED <<program, cur, phase, config>>
        /\ \A i \in Vms \ {cur} : pc'[i] = pc[i] /\ status'[i] = status[i]
    BY <1>1
    DEF IInv, TypeOK, VmTypeOK, VmStep, ExecuteSlice, ExecuteRetire, ExecuteTrap,
        ExecuteMigrate, ExecuteHalt, FinishSlice, hvVars
  <2>3. CASE phase = "dispatch"
    <3>1. pc'[cur] - ran' = pc[cur] - ran
      <4>1. pc[cur] \in Nat /\ ran \in Nat
        BY <2>1 DEF IInv, TypeOK, VmTypeOK
      <4>2. CASE ExecuteRetire
        BY <2>1, <4>1, <4>2 DEF ExecuteRetire, IInv, TypeOK, VmTypeOK
      <4>3. CASE ~ExecuteRetire
        BY <1>1, <4>3
        DEF VmStep, ExecuteSlice, ExecuteTrap, ExecuteMigrate, ExecuteHalt, FinishSlice
      <4> QED
        BY <4>2, <4>3
    <3> QED
      BY <2>2, <2>3, <3>1, StutterSliced DEF Terminal
  <2>4. CASE phase = "precopy"
    <3>1. ~ExecuteRetire /\ ~ExecuteTrap /\ ~ExecuteHalt
      BY <2>4, PreCopyOnlyMigrates
      DEF IInv, ExecuteRetire, ExecuteTrap, ExecuteHalt, Outcome
    <3>2. pc' = pc
      BY <1>1, <3>1 DEF VmStep, ExecuteSlice, ExecuteMigrate, FinishSlice
    <3>3. ~Terminal(cur) /\ ~Terminal(cur)'
      <4>1. status[cur] \in {"Running", "Blocked"} /\ InProgram(cur)
        BY <2>1, <2>4 DEF IInv, PreCopyInv, AtInstruction
      <4> QED
        BY <1>1, <2>1, <3>1, <4>1
        DEF VmStep, ExecuteSlice, ExecuteMigrate, FinishSlice, SettledStatus,
            Terminal, IInv, TypeOK, VmTypeOK
    <3> QED
      BY <2>2, <2>4, <3>2, <3>3, StutterSliced DEF Terminal
  <2> QED
    BY <2>1, <2>3, <2>4
<1>2. CASE RecordSlice
  BY <1>2, RecordSliced
<1>3. CASE PreCopyRound
  <2>1. /\ phase = "precopy" /\ UNCHANGED <<program, config, phase, pc>>
        /\ cur \in Vms /\ status[cur] \in {"Blocked", "Ready"}
    BY <1>3 DEF PreCopyRound, RunForSlice, IInv, TypeOK, VmTypeOK, PreCopyInv
  <2>2. status' = [status EXCEPT ![cur] = "Running"]
    BY <1>3, <2>1 DEF PreCopyRound, RunForSlice, Terminal
  <2>3. \A i \in Vms : Terminal(i)' <=> Terminal(i)
    BY <2>1, <2>2 DEF Terminal, IInv, TypeOK, VmTypeOK
  <2> QED
    BY <2>1, <2>3, StutterSliced
<1>4. ASSUME NEW idx \in 0 .. MaxVms, Dispatch(idx) PROVE UNCHANGED Sliced!absVars
  <2>1. /\ idx \in Vms /\ ~Terminal(idx) /\ phase = "loop" /\ phase' = "dispatch"
        /\ cur' = idx /\ ran' = 0 /\ UNCHANGED <<program, config, pc>>
        /\ status' = [status EXCEPT ![idx] = "Running"]
        /\ pc[idx] \in Nat
    BY <1>4, AddedAreVms DEF Dispatch, Alive, RunForSlice, IInv, TypeOK, VmTypeOK
  <2>2. pc[idx] - 0 = pc[idx]
    BY <2>1
  <2>3. \A i \in Vms \ {idx} : Terminal(i)' <=> Terminal(i)
    BY <2>1 DEF Terminal, IInv, TypeOK, VmTypeOK
  <2> QED
    BY <2>1, <2>2, <2>3, StutterSliced
<1>5. CASE UNCHANGED <<program, config, pc, status>> /\ phase # "dispatch" /\ phase' # "dispatch"
  BY <1>5, StutterSliced DEF Terminal
<1>6. CASE UNCHANGED vars
  BY <1>6, StutterSliced DEF vars, vmVars, hvVars, Terminal
<1> QED
  BY <1>1, <1>2, <1>3, <1>4, <1>5, <1>6
  DEF Next, RunStep, AddVm, Run, Leave, PreCopyReturn, TakeResult,
      TransferAndClear, PickNext, SkipPick, vmVars, hvVars

(***************************************************************************)
(* Run implements SlicedMachines: an iteration is one atomic slice of one  *)
(* machine, and a migration, pre-copy rounds included, is invisible.       *)
(***************************************************************************)
THEOREM Atomic == Spec => SlicesAreAtomic
<1>1. Init => Sliced!AbsInit
  BY InitSliced
<1>2. IInv /\ [Next]_vars => [Sliced!AbsNext]_(Sliced!absVars)
  BY StepSliced
<1> QED
  BY <1>1, <1>2, Inductive, PTL DEF Spec, SlicesAreAtomic, Sliced!AbsSpec

-----------------------------------------------------------------------------

(* No step of Run adds a machine, renames one or revives one. *)
LEMMA AliveShrinks ==
  ASSUME IInv, [Next]_vars, ~AddVm
  PROVE  Added' = Added /\ config' = config /\ Alive' \subseteq Alive
<1>1. Added' = Added /\ config' = config
  BY DEF Next, Run, RunStep, Leave, VmStep, RecordSlice, PreCopyRound,
     PreCopyReturn, TransferAndClear, PickNext, SkipPick, Dispatch, Added,
     vars, hvVars
<1>2. \A i \in Added : Terminal(i) => Terminal(i)'
  BY StepKeepsTerminal, AddedAreVms DEF IInv
<1> QED
  BY <1>1, <1>2 DEF Alive

(* A name no machine has was never dispatched. *)
NewNames ==
  \A n \in Names : (\A j \in Added : config[j].name # n) => dispatched[n] = 0

(***************************************************************************)
(* Dispatches.  Names that several machines share are counted together, so *)
(* what follows is about machines with a name of their own.                *)
(***************************************************************************)
Count(i) == dispatched[config[i].name]

(* The counters of the model saturate at MaxDispatch. *)
Saturated == \A n \in Names : dispatched[n] <= MaxDispatch

(* A dispatch as the saturating counters of the model count it. *)
Bump(c) == IF c < MaxDispatch THEN c + 1 ELSE c

(* What a dispatch does to the counters of machines with names of their own. *)
LEMMA DispatchCounts ==
  ASSUME IInv, NEW idx \in 0 .. MaxVms, Dispatch(idx)
  PROVE  /\ phase' = "dispatch" /\ idx \in Alive /\ UNCHANGED <<config, size>>
         /\ Added' = Added /\ Alive' \subseteq Alive
         /\ \A i \in Alive : Count(i) \in Nat /\ (UniqueName(i)' <=> UniqueName(i))
         /\ \A i \in Alive \ {idx} : UniqueName(i) => Count(i)' = Count(i)
         /\ Count(idx)' = Bump(Count(idx))
<1>1. /\ phase' = "dispatch" /\ idx \in Alive /\ UNCHANGED <<config, size>>
      /\ Added' = Added /\ Alive' \subseteq Alive
  BY AliveShrinks DEF Dispatch, AddVm, IInv, Next, PickNext
<1>2. /\ Alive \subseteq Vms /\ dispatched \in [Names -> Nat]
      /\ \A i \in Vms : config[i].name \in Names
  BY AddedAreVms, ConfigType DEF Alive, IInv, TypeOK
<1>3. \A i \in Alive : Count(i) \in Nat /\ (UniqueName(i)' <=> UniqueName(i))
  BY <1>1, <1>2 DEF Count, UniqueName
<1>4. dispatched' = [dispatched EXCEPT ![config[idx].name] = Bump(Count(idx))]
  BY <1>1, <1>2 DEF Dispatch, Bump, Count
<1>5. \A i \in Alive \ {idx} : UniqueName(i) => Count(i)' = Count(i)
  <2> SUFFICES ASSUME NEW i \in Alive \ {idx}, UniqueName(i) PROVE Count(i)' = Count(i)
    OBVIOUS
  <2>1. config[i].name # config[idx].name /\ config[i].name \in Names
    BY <1>1, <1>2 DEF UniqueName, Alive
  <2> QED
    BY <1>1, <1>2, <1>4, <2>1 DEF Count
<1>6. Count(idx)' = Bump(Count(idx))
  BY <1>1, <1>2, <1>4 DEF Count
<1> QED
  BY <1>1, <1>3, <1>5, <1>6

(* A dispatch gives no dispatches to a name nobody has, and saturates. *)
LEMMA DispatchNames ==
  ASSUME IInv, NewNames, Saturated, NEW idx \in 0 .. MaxVms, Dispatch(idx)
  PROVE  NewNames' /\ Saturated'
<1>1. idx \in Alive /\ UNCHANGED <<config, size>> /\ Added' = Added /\ Alive \subseteq Vms
  BY DispatchCounts, AddedAreVms DEF Alive, IInv
<1>2. dispatched \in [Names -> Nat] /\ config[idx].name \in Names /\ MaxDispatch \in Nat
  BY <1>1, ConfigType, HypervisorAssumption DEF IInv, TypeOK
<1>3. \A n \in Names : dispatched'[n] = dispatched[n]
                         \/ (n = config[idx].name /\ dispatched'[n] <= MaxDispatch)
  BY <1>1, <1>2 DEF Dispatch, Saturated
<1> QED
  BY <1>1, <1>3 DEF NewNames, Saturated, Alive

(* The counters stay within the value at which they saturate. *)
Bounded(i) == Count(i) \in Nat /\ MaxDispatch \in Nat /\ Count(i) <= MaxDispatch

LEMMA CountsBounded == IInv /\ Saturated => \A i \in Alive : Bounded(i)
BY AddedAreVms, ConfigType, HypervisorAssumption
DEF Bounded, Saturated, Count, Alive, IInv, TypeOK

-----------------------------------------------------------------------------

(***************************************************************************)
(* The invariant behind SlicesAreWhole.  What the dispatches of a machine  *)
(* have promised is what it retired, plus the slice it is in the middle    *)
(* of: at that point nothing is known of how the slice will end.           *)
(***************************************************************************)
Promised(i) ==
  retired[config[i].name] + (IF InSlice(i) THEN config[i].execSlice ELSE 0)

(* c dispatches of a slice amount to r, or to at most r once c is saturated. *)
Pays(c, slice, r) ==
  c * slice <= r /\ (c < MaxDispatch => c * slice = r)

WholeInv ==
  /\ NewNames /\ Saturated
  /\ \A i \in Added :
       UniqueName(i) /\ NeverMigrates(i) /\ (InSlice(i) \/ ~Terminal(i)) =>
         Pays(Count(i), config[i].execSlice, Promised(i))

LEMMA WholeInit == Init => WholeInv
BY HypervisorAssumption DEF Init, WholeInv, NewNames, Saturated, Added

(* A dispatch adds one slice to both sides, until the count is saturated. *)
LEMMA PaysForOneMore ==
  ASSUME NEW c \in Nat, NEW slice \in Nat, NEW r \in Nat, c <= MaxDispatch,
         Pays(c, slice, r)
  PROVE  Pays(Bump(c), slice, r + slice)
<1>1. MaxDispatch \in Nat
  BY HypervisorAssumption
<1>2. /\ (c + 1) * slice = c * slice + slice
      /\ c * slice \in Nat
  OBVIOUS
<1> DEFINE p == c * slice
           q == (c + 1) * slice
<1>3. q = p + slice /\ p \in Nat /\ p <= r /\ (c < MaxDispatch => p = r)
  BY <1>2 DEF Pays
<1> HIDE DEF p, q
<1>4. CASE c < MaxDispatch
  <2>1. q <= r + slice /\ q = r + slice
    BY <1>3, <1>4
  <2> QED
    BY <1>4, <2>1 DEF Pays, Bump, q
<1>5. CASE ~(c < MaxDispatch)
  <2>1. p <= r + slice
    BY <1>3
  <2> QED
    BY <1>5, <2>1 DEF Pays, Bump, p
<1> QED
  BY <1>4, <1>5

(* Steps that open and close no slice and count nothing. *)
LEMMA WholeFrame ==
  ASSUME IInv, [Next]_vars, WholeInv,
         UNCHANGED <<program, config, size, dispatched, retired>>,
         \A i \in Added : InSlice(i)' <=> InSlice(i)
  PROVE  WholeInv'
<1>1. Added' = Added /\ Added \subseteq Vms
  BY AddedAreVms DEF Added, IInv
<1>2. NewNames' /\ Saturated'
  BY <1>1 DEF WholeInv, NewNames, Saturated
<1>3. ASSUME NEW i \in Added, UniqueName(i)', NeverMigrates(i)', (InSlice(i) \/ ~Terminal(i))'
      PROVE  Pays(Count(i), config[i].execSlice, Promised(i))'
  <2>1. UniqueName(i) /\ NeverMigrates(i)
    BY <1>1, <1>3 DEF UniqueName, NeverMigrates
  <2>2. InSlice(i) \/ ~Terminal(i)
    BY <1>1, <1>3, StepKeepsTerminal
  <2>3. Pays(Count(i), config[i].execSlice, Promised(i))
    BY <2>1, <2>2 DEF WholeInv
  <2>4. Promised(i)' = Promised(i) /\ Count(i)' = Count(i)
    BY DEF Promised, Count
  <2> QED
    BY <2>3, <2>4 DEF Pays
<1> QED
  BY <1>1, <1>2, <1>3 DEF WholeInv

(* A new machine starts with nothing dispatched and nothing retired. *)
LEMMA WholeAddVm == IInv /\ WholeInv /\ AddVm => WholeInv'
<1> SUFFICES ASSUME IInv, WholeInv, AddVm PROVE WholeInv'
  OBVIOUS
<1>1. /\ size \in Vms /\ size \notin Added /\ Added' = Added \cup {size}
      /\ UNCHANGED <<program, config, status, dispatched, retired, phase, cur>>
      /\ phase = "idle"
  BY HypervisorAssumption DEF IInv, TypeOK, AddVm, Added, vmVars
<1>2. NewNames' /\ Saturated'
  BY <1>1 DEF WholeInv, NewNames, Saturated
<1>3. ASSUME NEW i \in Added', UniqueName(i)', NeverMigrates(i)', (InSlice(i) \/ ~Terminal(i))'
      PROVE  Pays(Count(i), config[i].execSlice, Promised(i))'
  <2>1. UniqueName(i) /\ NeverMigrates(i) /\ (InSlice(i) \/ ~Terminal(i))
    BY <1>1, <1>3 DEF UniqueName, NeverMigrates, InSlice, Terminal
  <2>2. Promised(i)' = Promised(i) /\ Count(i)' = Count(i)
    BY <1>1 DEF Promised, Count, InSlice
  <2>3. Pays(Count(i), config[i].execSlice, Promised(i))
    <3>1. CASE i \in Added
      BY <2>1, <3>1 DEF WholeInv
    <3>2. CASE i = size
      <4>1. \A j \in Added : config[j].name # config[i].name
        BY <1>1, <1>3, <3>2 DEF UniqueName
      <4>2. config[i].name \in Names /\ config[i].execSlice \in Nat
        BY <1>1, <3>2, ConfigType DEF IInv
      <4>3. Count(i) = 0 /\ retired[config[i].name] = 0
        BY <4>1, <4>2 DEF IInv, MetricsInv, WholeInv, NewNames, Count
      <4>4. Promised(i) = 0
        BY <1>1, <4>3 DEF Promised, InSlice
      <4>5. 0 * config[i].execSlice = 0
        BY <4>2
      <4> QED
        BY <4>3, <4>4, <4>5 DEF Pays
    <3> QED
      BY <1>1, <3>1, <3>2
  <2> QED
    BY <1>1, <2>2, <2>3 DEF Pays
<1> QED
  BY <1>2, <1>3 DEF WholeInv

(* A dispatch counts one more and promises one slice more. *)
LEMMA WholeDispatch ==
  ASSUME IInv, WholeInv, NEW idx \in 0 .. MaxVms, Dispatch(idx)
  PROVE  WholeInv'
<1>1. /\ phase = "loop" /\ phase' = "dispatch" /\ cur' = idx /\ idx \in Alive
      /\ UNCHANGED <<program, config, retired>> /\ Added' = Added
  BY DispatchCounts DEF Dispatch, RunForSlice
<1>2. NewNames' /\ Saturated'
  BY DispatchNames DEF WholeInv
<1>3. \A i \in Added : i # idx /\ ~Terminal(i)' => i \in Alive
  BY AddedAreVms DEF Dispatch, RunForSlice, Alive, Terminal, IInv, TypeOK, VmTypeOK
<1>4. ASSUME NEW i \in Added, UniqueName(i)', NeverMigrates(i)', (InSlice(i) \/ ~Terminal(i))'
      PROVE  Pays(Count(i), config[i].execSlice, Promised(i))'
  <2>1. i \in Alive
    BY <1>1, <1>3, <1>4 DEF InSlice
  <2>2. UniqueName(i) /\ NeverMigrates(i)
    BY <1>1, <1>4, <2>1, DispatchCounts DEF NeverMigrates
  <2>3. Pays(Count(i), config[i].execSlice, Promised(i))
    BY <2>1, <2>2 DEF WholeInv, Alive
  <2>4. CASE i # idx
    <3>1. Count(i)' = Count(i)
      BY <2>1, <2>2, <2>4, DispatchCounts
    <3>2. Promised(i)' = Promised(i)
      BY <1>1, <2>4 DEF Promised, InSlice
    <3> QED
      BY <1>1, <2>3, <3>1, <3>2 DEF Pays
  <2>5. CASE i = idx
    <3>1. Count(i)' = Bump(Count(i))
      BY <2>5, DispatchCounts
    <3>2. config[i].execSlice \in Nat /\ config[i].name \in Names
      BY <2>1, AddedAreVms, ConfigType DEF Alive, IInv
    <3>3. Count(i) \in Nat /\ Count(i) <= MaxDispatch
      BY <2>1, CountsBounded DEF WholeInv, Bounded
    <3>4. retired[config[i].name] \in Nat
      BY <3>2 DEF IInv, TypeOK
    <3>5. Promised(i) \in Nat /\ Promised(i)' = Promised(i) + config[i].execSlice
      BY <1>1, <2>5, <3>2, <3>4 DEF Promised, InSlice
    <3>6. Pays(Bump(Count(i)), config[i].execSlice, Promised(i) + config[i].execSlice)
      BY <2>3, <3>2, <3>3, <3>5, PaysForOneMore
    <3> QED
      BY <1>1, <3>1, <3>5, <3>6 DEF Pays
  <2> QED
    BY <2>4, <2>5
<1> QED
  BY <1>1, <1>2, <1>4 DEF WholeInv

(***************************************************************************)
(* The slice that ends was either cut short by the end of the machine or   *)
(* by a MIGRATE, and promises nothing any more, or was retired in full.    *)
(***************************************************************************)
LEMMA WholeRecordSlice == IInv /\ WholeInv /\ RecordSlice => WholeInv'
<1> SUFFICES ASSUME IInv, WholeInv, RecordSlice PROVE WholeInv'
  OBVIOUS
<1>1. /\ phase = "dispatch" /\ phase' # "dispatch" /\ call = "returned"
      /\ cur \in Added /\ cur \in Vms
      /\ retired' = [retired EXCEPT ![CurName] = @ + ran]
      /\ UNCHANGED <<program, pc, status, cur, config, size, dispatched>>
  BY SliceOpen DEF RecordSlice, TakeResult
<1>2. Added' = Added /\ Added \subseteq Vms
  BY <1>1, AddedAreVms DEF Added, IInv
<1>3. NewNames' /\ Saturated'
  BY <1>1, <1>2 DEF WholeInv, NewNames, Saturated
<1>4. /\ retired \in [Names -> Nat] /\ CurName \in Names
      /\ retired' \in [Names -> Nat]
  BY <1>1, ConfigType, TypeNext DEF IInv, TypeOK, CurName, Next, RunStep
<1>5. ASSUME NEW i \in Added, UniqueName(i)', NeverMigrates(i)', (InSlice(i) \/ ~Terminal(i))'
      PROVE  Pays(Count(i), config[i].execSlice, Promised(i))'
  <2>1. UniqueName(i) /\ NeverMigrates(i) /\ ~Terminal(i) /\ ~InSlice(i)'
    BY <1>1, <1>2, <1>5 DEF UniqueName, NeverMigrates, InSlice, Terminal
  <2>2. Pays(Count(i), config[i].execSlice, Promised(i)) /\ Count(i)' = Count(i)
    BY <1>1, <2>1 DEF WholeInv, Count
  <2>3. config[i].name \in Names /\ config[i].execSlice \in Nat
    BY <1>2, ConfigType DEF IInv
  <2>4. Promised(i)' = retired'[config[i].name]
    <3>1. retired'[config[i].name] \in Nat /\ config' = config
      BY <1>1, <1>4, <2>3
    <3> QED
      BY <2>1, <3>1 DEF Promised
  <2>5. Promised(i)' = Promised(i)
    <3>1. CASE i # cur
      <4>1. config[i].name # CurName
        BY <1>1, <2>1, <3>1 DEF UniqueName, CurName
      <4>2. retired'[config[i].name] = retired[config[i].name]
        BY <1>1, <1>4, <2>3, <4>1
      <4>3. retired[config[i].name] + 0 = retired[config[i].name]
        BY <1>4, <2>3
      <4> QED
        BY <2>4, <3>1, <4>2, <4>3 DEF Promised, InSlice
    <3>2. CASE i = cur
      <4>1. Stopped \/ Exhausted
        BY <1>1 DEF IInv, SliceInv
      <4>2. ~Stopped
        <5>1. ~AtInstruction(i, "Migrate")
          <6> SUFFICES ASSUME AtInstruction(i, "Migrate") PROVE FALSE
            OBVIOUS
          <6>1. pc[i] \in Nat /\ Len(program[i]) \in Nat /\ program[i] \in Seq(Outcome)
            BY <1>2, ProgramType DEF IInv, TypeOK, VmTypeOK
          <6>2. (pc[i] + 1) \in DOMAIN program[i]
            BY <6>1 DEF AtInstruction, InProgram
          <6> QED
            BY <2>1, <6>2 DEF NeverMigrates, AtInstruction
        <5> QED
          BY <2>1, <3>2, <5>1 DEF Stopped, Terminal
      <4>3. ran = config[i].execSlice
        BY <1>1, <2>1, <3>2, <4>1, <4>2 DEF Exhausted, Terminal, IInv, SliceInv
      <4>4. retired'[config[i].name] = retired[config[i].name] + ran
        BY <1>1, <1>4, <3>2 DEF CurName
      <4> QED
        BY <1>1, <2>4, <3>2, <4>3, <4>4 DEF Promised, InSlice
    <3> QED
      BY <3>1, <3>2
  <2> QED
    BY <1>1, <2>2, <2>5 DEF Pays
<1> QED
  BY <1>2, <1>3, <1>5 DEF WholeInv

LEMMA WholeNext == IInv /\ WholeInv /\ [Next]_vars => WholeInv'
<1> SUFFICES ASSUME IInv, WholeInv, [Next]_vars PROVE WholeInv'
  OBVIOUS
<1>1. CASE AddVm
  BY <1>1, WholeAddVm
<1>2. ASSUME NEW idx \in 0 .. MaxVms, Dispatch(idx) PROVE WholeInv'
  BY <1>2, WholeDispatch
<1>3. CASE RecordSlice
  BY <1>3, WholeRecordSlice
<1>4. CASE VmStep
  <2>1. UNCHANGED <<program, cur, hvVars>>
    BY <1>4
    DEF VmStep, ExecuteSlice, ExecuteRetire, ExecuteTrap, ExecuteMigrate,
        ExecuteHalt, FinishSlice
  <2> QED
    BY <2>1, WholeFrame DEF hvVars, InSlice
<1>5. CASE /\ phase # "dispatch" /\ phase' # "dispatch"
           /\ UNCHANGED <<program, config, size, dispatched, retired>>
  BY <1>5, WholeFrame DEF InSlice
<1>6. CASE UNCHANGED vars
  BY <1>6, WholeFrame DEF InSlice, vars, vmVars, hvVars
<1> QED
  BY <1>1, <1>2, <1>3, <1>4, <1>5, <1>6
  DEF Next, RunStep, Run, Leave, PreCopyRound, RunForSlice, PreCopyReturn, TakeResult,
      TransferAndClear, PickNext, SkipPick, vmVars, hvVars

(* Each dispatch of a machine that never migrates was worth its whole slice. *)
THEOREM WholeSlices == Spec => []SlicesAreWhole
<1>1. IInv /\ WholeInv => SlicesAreWhole
  <2> SUFFICES ASSUME IInv, WholeInv, phase \in {"idle", "loop"},
                      NEW i \in Alive, UniqueName(i), NeverMigrates(i)
               PROVE  Pays(Count(i), config[i].execSlice, retired[config[i].name])
    BY DEF SlicesAreWhole, Pays, Count
  <2>1. i \in Added /\ ~Terminal(i) /\ ~InSlice(i)
    BY DEF Alive, InSlice
  <2>2. Pays(Count(i), config[i].execSlice, Promised(i))
    BY <2>1 DEF WholeInv
  <2>3. retired[config[i].name] \in Nat
    BY <2>1, AddedAreVms, ConfigType DEF IInv, TypeOK
  <2>4. Promised(i) = retired[config[i].name]
    BY <2>1, <2>3 DEF Promised
  <2> QED
    BY <2>2, <2>4
<1> QED
  BY <1>1, WholeInit, WholeNext, Inductive, PTL DEF Spec

-----------------------------------------------------------------------------

(* The ranks CallLeft and Left give, and that Left counts down to 0. *)
LEMMA LeftValues ==
  ASSUME IInv
  PROVE  /\ CallLeft \in 0 .. 3
         /\ call = "executing" => CallLeft = 3
         /\ call = "broke" => CallLeft = 2
         /\ call = "returned" => CallLeft = 1
         /\ call = "none" => CallLeft = 0
         /\ phase = "dispatch" => Left = 4 * PreCopyRounds + 2 + (budget - ran) + CallLeft
         /\ phase = "precopy" => Left = 4 * (PreCopyRounds - round) + 1 + CallLeft
         /\ phase \in {"idle", "loop"} => Left = 0
         /\ Left \in Nat
<1>1. /\ CallLeft \in 0 .. 3
      /\ call = "executing" => CallLeft = 3
      /\ call = "broke" => CallLeft = 2
      /\ call = "returned" => CallLeft = 1
      /\ call = "none" => CallLeft = 0
  BY DEF CallLeft, IInv, TypeOK, VmTypeOK, Call
<1>2. /\ phase = "dispatch" => Left = 4 * PreCopyRounds + 2 + (budget - ran) + CallLeft
      /\ phase = "precopy" => Left = 4 * (PreCopyRounds - round) + 1 + CallLeft
      /\ phase \in {"idle", "loop"} => Left = 0
  BY DEF Left
<1>3. phase \in Phase /\ PreCopyRounds \in Nat /\ round \in 0 .. PreCopyRounds
  BY HypervisorAssumption DEF IInv, TypeOK
<1>4. phase = "dispatch" => budget - ran \in Nat
  BY DEF IInv, SliceInv, TypeOK, VmTypeOK
<1>5. Left \in Nat
  BY <1>1, <1>2, <1>3, <1>4 DEF Phase
<1> QED
  BY <1>1, <1>2, <1>5

LEMMA LeftIsNatural == IInv => Left \in Nat
BY LeftValues

(* One step of the machine at work. *)
LEMMA VmStepNearsEnd ==
  ASSUME IInv, IInv', VmStep
  PROVE  Left' < Left
<1>1. UNCHANGED <<phase, round, budget>> /\ phase \in {"dispatch", "precopy"}
  BY SliceOpen
  DEF VmStep, ExecuteSlice, ExecuteRetire, ExecuteTrap, ExecuteMigrate,
      ExecuteHalt, FinishSlice, LoopContinues, hvVars
<1>2. /\ ran \in Nat /\ budget \in Nat /\ ran' \in Nat
      /\ PreCopyRounds \in Nat /\ round \in Nat
  BY HypervisorAssumption DEF IInv, TypeOK, VmTypeOK
<1>3. \/ ran' = ran + 1 /\ CallLeft' = CallLeft /\ phase = "dispatch"
      \/ ran' = ran /\ CallLeft' < CallLeft
  <2>1. CASE ExecuteRetire
    <3>1. phase = "dispatch"
      BY <1>1, <2>1, PreCopyOnlyMigrates DEF IInv, ExecuteRetire, Outcome
    <3> QED
      BY <2>1, <3>1 DEF ExecuteRetire, CallLeft
  <2>2. CASE ExecuteTrap \/ ExecuteMigrate \/ ExecuteHalt
    <3>1. call = "executing" /\ call' = "broke" /\ ran' = ran
      BY <2>2 DEF ExecuteTrap, ExecuteMigrate, ExecuteHalt, LoopContinues
    <3> QED
      BY <3>1 DEF CallLeft
  <2>3. CASE FinishSlice
    <3>1. call \in {"executing", "broke"} /\ call' = "returned" /\ ran' = ran
      BY <2>3 DEF FinishSlice
    <3> QED
      BY <3>1 DEF CallLeft
  <2> QED
    BY <2>1, <2>2, <2>3 DEF VmStep, ExecuteSlice
<1>4. CallLeft \in 0 .. 3 /\ CallLeft' \in 0 .. 3
  BY LeftValues DEF CallLeft, IInv, TypeOK, VmTypeOK, Call
<1> DEFINE l == Left
           m == Left'
           c == CallLeft
           d == CallLeft'
<1>5. CASE phase = "dispatch"
  <2>1. Left = 4 * PreCopyRounds + 2 + (budget - ran) + CallLeft
    BY <1>5 DEF Left
  <2>2. Left' = 4 * PreCopyRounds + 2 + (budget - ran') + CallLeft'
    BY <1>1, <1>5 DEF Left
  <2>3. /\ l = 4 * PreCopyRounds + 2 + (budget - ran) + c
        /\ m = 4 * PreCopyRounds + 2 + (budget - ran') + d
        /\ c \in 0 .. 3 /\ d \in 0 .. 3
        /\ (ran' = ran + 1 /\ d = c) \/ (ran' = ran /\ d < c)
    BY <1>3, <1>4, <2>1, <2>2, Zenon
  <2> HIDE DEF l, m, c, d
  <2>4. CASE ran' = ran + 1 /\ d = c
    <3>1. budget - ran' = (budget - ran) - 1
      BY <1>2, <2>4
    <3>2. m = 4 * PreCopyRounds + 2 + ((budget - ran) - 1) + c
      BY <2>3, <2>4, <3>1, Zenon
    <3> DEFINE x == budget - ran
               b == 4 * PreCopyRounds + 2
    <3>3. b \in Int /\ x \in Int /\ c \in Int
      BY <1>2, <2>3
    <3>4. m = b + (x - 1) + c /\ l = b + x + c
      BY <2>3, <3>2, Zenon
    <3> HIDE DEF x, b
    <3>5. m < l
      BY <3>3, <3>4
    <3> QED
      BY <3>5 DEF l, m
  <2>5. CASE ran' = ran /\ d < c
    <3>1. m < l
      BY <1>2, <2>3, <2>5
    <3> QED
      BY <3>1 DEF l, m
  <2> QED
    BY <2>3, <2>4, <2>5
<1>6. CASE phase = "precopy"
  <2>1. Left = 4 * (PreCopyRounds - round) + 1 + CallLeft
    BY <1>6 DEF Left
  <2>2. Left' = 4 * (PreCopyRounds - round) + 1 + CallLeft'
    BY <1>1, <1>6 DEF Left
  <2>3. /\ l = 4 * (PreCopyRounds - round) + 1 + c
        /\ m = 4 * (PreCopyRounds - round) + 1 + d
        /\ c \in 0 .. 3 /\ d \in 0 .. 3 /\ d < c
    BY <1>3, <1>4, <1>6, <2>1, <2>2, Zenon
  <2> HIDE DEF l, m, c, d
  <2>4. m < l
    BY <1>2, <2>3
  <2> QED
    BY <2>4 DEF l, m
<1> QED
  BY <1>1, <1>5, <1>6

(* Every step of an iteration that dispatched a machine brings its end nearer. *)
LEMMA StepNearsEnd ==
  ASSUME IInv, IInv', Next, phase \in {"dispatch", "precopy"}
  PROVE  Left' \in 0 .. Left - 1
<1>1. Left \in Nat /\ Left' \in Nat
  <2>1. (IInv => Left \in Nat)'
    BY LeftIsNatural, PTL
  <2> QED
    BY <2>1, LeftIsNatural
<1>2. PreCopyRounds \in Nat /\ round \in 0 .. PreCopyRounds
  BY HypervisorAssumption DEF IInv, TypeOK
<1>3. CASE VmStep
  BY <1>1, <1>3, VmStepNearsEnd
<1>4. CASE RecordSlice
  <2>1. /\ phase = "dispatch" /\ call = "returned" /\ call' = "none" /\ round' = round
        /\ phase' = "precopy" \/ phase' = "loop"
    BY <1>4 DEF RecordSlice, TakeResult
  <2>2. /\ Left = 4 * PreCopyRounds + 2 + (budget - ran) + CallLeft
        /\ CallLeft = 1
        /\ budget - ran \in Nat
    BY <2>1, LeftValues DEF IInv, SliceInv, TypeOK, VmTypeOK
  <2>3. phase' = "precopy" => Left' = 4 * (PreCopyRounds - round) + 1 + 0
    BY <2>1 DEF Left, CallLeft
  <2>4. phase' = "loop" => Left' = 0
    BY DEF Left
  <2> QED
    BY <1>1, <1>2, <2>1, <2>2, <2>3, <2>4
<1>5. CASE PreCopyRound
  <2>1. /\ phase = "precopy" /\ phase' = "precopy" /\ round' = round + 1
        /\ call = "none" /\ status[cur] \notin {"Halted", "Faulted"}
    BY <1>5 DEF PreCopyRound, RunForSlice, IInv, PreCopyInv
  <2>2. call' = "executing"
    BY <1>5, <2>1 DEF PreCopyRound, RunForSlice, Terminal
  <2>3. Left = 4 * (PreCopyRounds - round) + 1 + 0
    BY <2>1 DEF Left, CallLeft
  <2>4. Left' = 4 * (PreCopyRounds - (round + 1)) + 1 + 3
    BY <2>1, <2>2 DEF Left, CallLeft
  <2> QED
    BY <1>1, <1>2, <2>3, <2>4
<1>6. CASE PreCopyReturn
  <2>1. /\ phase = "precopy" /\ phase' = "precopy" /\ round' = round
        /\ call = "returned" /\ call' = "none"
    BY <1>6 DEF PreCopyReturn, TakeResult, hvVars
  <2>2. Left = 4 * (PreCopyRounds - round) + 1 + 1
    BY <2>1 DEF Left, CallLeft
  <2>3. Left' = 4 * (PreCopyRounds - round) + 1 + 0
    BY <2>1 DEF Left, CallLeft
  <2> QED
    BY <1>1, <1>2, <2>2, <2>3
<1>7. CASE TransferAndClear
  <2>1. phase = "precopy" /\ phase' = "loop" /\ call = "none" /\ round = PreCopyRounds
    BY <1>7 DEF TransferAndClear
  <2>2. Left = 4 * (PreCopyRounds - round) + 1 + 0 /\ Left' = 0
    BY <2>1 DEF Left, CallLeft
  <2> QED
    BY <1>1, <1>2, <2>2
<1> QED
  BY <1>3, <1>4, <1>5, <1>6, <1>7
  DEF Next, RunStep, AddVm, Run, Leave, PickNext, SkipPick, Dispatch

(* What an iteration of Run has left to do decreases with every step of it. *)
THEOREM IterationsEnd == Spec => IterationEnds
<1>1. IInv /\ IInv' /\ [Next]_vars
        => [(phase \in {"dispatch", "precopy"}) => Left' \in 0 .. Left - 1]_vars
  BY StepNearsEnd
<1> QED
  BY <1>1, Inductive, PTL DEF Spec, IterationEnds

=============================================================================
