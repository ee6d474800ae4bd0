---------------------------- MODULE VmLifecycle ----------------------------
(***************************************************************************)
(* The control state of vmm::VirtualMachine: where a virtual machine is in *)
(* its program, its VmStatus, its pending migration intent, and the call   *)
(* RunForSlice in progress on it.                                          *)
(*                                                                         *)
(* The hypervisor is single-threaded, so at most one RunForSlice is in     *)
(* progress, on the machine cur.  The loop of RunForSlice is one step per  *)
(* instruction.                                                            *)
(*                                                                         *)
(* Registers and memory are abstracted: an instruction is represented by   *)
(* what ExecuteOne does with it.  The instruction set has no jumps and a   *)
(* machine leaves each of its instructions at most once, so a program is   *)
(* exactly the sequence of these outcomes.                                 *)
(***************************************************************************)
EXTENDS Integers, Sequences

CONSTANTS
  Vms,       \* indices of the machines, the positions of the vector vms_
  Programs   \* the programs a machine may be given

(***************************************************************************)
(* "Retire": every opcode that reaches ++cpu_.pc.  "Trap": a division by   *)
(* zero, a failed lw or sw, an opcode of the default branch.               *)
(***************************************************************************)
Outcome == {"Retire", "Trap", "Migrate", "Halt"}

ASSUME ProgramsAssumption == Programs \subseteq Seq(Outcome)

VARIABLES
  program,   \* program_ of each machine
  pc,        \* cpu_.pc of each machine, counted from 0
  status,    \* status_ of each machine
  pending,   \* pendingMigrationTarget_.has_value() of each machine
  call,      \* progress of RunForSlice, see Call
  cur,       \* the machine RunForSlice was last called on
  budget,    \* its argument maxInstructions
  ran        \* its local ran, the instructions retired so far

vmVars == <<program, pc, status, pending, call, cur, budget, ran>>

VmStatus == {"Ready", "Running", "Blocked", "Halted", "Faulted"}

(***************************************************************************)
(* "none": no call.  "executing": in the while loop.  "broke": left it     *)
(* through break.  "returned": the result ran has yet to be read.          *)
(***************************************************************************)
Call == {"none", "executing", "broke", "returned"}

VmTypeOK ==
  /\ program \in [Vms -> Programs]
  /\ pc \in [Vms -> Nat]
  /\ status \in [Vms -> VmStatus]
  /\ pending \in [Vms -> BOOLEAN]
  /\ call \in Call
  /\ cur \in Vms
  /\ budget \in Nat
  /\ ran \in Nat

(* The values a constructed VirtualMachine starts with. *)
VmInit ==
  /\ program \in [Vms -> Programs]
  /\ pc = [i \in Vms |-> 0]
  /\ status = [i \in Vms |-> "Ready"]
  /\ pending = [i \in Vms |-> FALSE]
  /\ call = "none"
  /\ cur \in Vms
  /\ budget = 0
  /\ ran = 0

Terminal(i) == status[i] \in {"Halted", "Faulted"}

InProgram(i) == pc[i] < Len(program[i])

AtInstruction(i, outcome) == InProgram(i) /\ program[i][pc[i] + 1] = outcome

-----------------------------------------------------------------------------

(* Entry of RunForSlice, with its early return for a machine that is over. *)
RunForSlice(i, maxInstructions) ==
  /\ call = "none"
  /\ cur' = i
  /\ ran' = 0
  /\ \/ /\ Terminal(i)
        /\ call' = "returned"
        /\ UNCHANGED <<status, budget>>
     \/ /\ ~Terminal(i)
        /\ call' = "executing"
        /\ budget' = maxInstructions
        /\ status' = [status EXCEPT ![i] = "Running"]
  /\ UNCHANGED <<program, pc, pending>>

(* Mutant: one instruction more than the slice. *)
LoopContinuesOnceMore == call = "executing" /\ ran <= budget /\ InProgram(cur)

LoopContinues == call = "executing" /\ ran < budget /\ InProgram(cur)

(* ExecuteOne of an instruction that ends at ++cpu_.pc and returns 1. *)
ExecuteRetire ==
  /\ LoopContinues /\ AtInstruction(cur, "Retire")
  /\ pc' = [pc EXCEPT ![cur] = @ + 1]
  /\ status' = [status EXCEPT ![cur] = "Running"]
  /\ ran' = ran + 1
  /\ UNCHANGED <<program, pending, call, cur, budget>>

(* ExecuteOne of an instruction that faults: the pc stays on it. *)
ExecuteTrap ==
  /\ LoopContinues /\ AtInstruction(cur, "Trap")
  /\ status' = [status EXCEPT ![cur] = "Faulted"]
  /\ call' = "broke"
  /\ UNCHANGED <<program, pc, pending, cur, budget, ran>>

(* Mutant: MIGRATE is stepped over, and nobody counts it. *)
ExecuteMigrateSteppingOver ==
  /\ LoopContinues /\ AtInstruction(cur, "Migrate")
  /\ pc' = [pc EXCEPT ![cur] = @ + 1]
  /\ pending' = [pending EXCEPT ![cur] = TRUE]
  /\ status' = [status EXCEPT ![cur] = "Blocked"]
  /\ call' = "broke"
  /\ UNCHANGED <<program, cur, budget, ran>>

(* ExecuteOne of MIGRATE: the intent is recorded, the pc stays on it. *)
ExecuteMigrate ==
  /\ LoopContinues /\ AtInstruction(cur, "Migrate")
  /\ pending' = [pending EXCEPT ![cur] = TRUE]
  /\ status' = [status EXCEPT ![cur] = "Blocked"]
  /\ call' = "broke"
  /\ UNCHANGED <<program, pc, cur, budget, ran>>

(* ExecuteOne of HALT: the pc stays on it. *)
ExecuteHalt ==
  /\ LoopContinues /\ AtInstruction(cur, "Halt")
  /\ status' = [status EXCEPT ![cur] = "Halted"]
  /\ call' = "broke"
  /\ UNCHANGED <<program, pc, pending, cur, budget, ran>>

(* Mutant: a machine that used up its slice is left Running. *)
SettledStatusStillRunning(i) == IF ~InProgram(i) THEN "Halted" ELSE status[i]

(* The status RunForSlice leaves behind once its loop is over. *)
SettledStatus(i) ==
  IF ~InProgram(i) THEN "Halted"
  ELSE IF status[i] = "Running" THEN "Ready"
  ELSE status[i]

(* The part of RunForSlice after its loop. *)
FinishSlice ==
  /\ call \in {"executing", "broke"}
  /\ ~LoopContinues
  /\ status' = [status EXCEPT ![cur] = SettledStatus(cur)]
  /\ call' = "returned"
  /\ UNCHANGED <<program, pc, pending, cur, budget, ran>>

ExecuteSlice ==
  ExecuteRetire \/ ExecuteTrap \/ ExecuteMigrate \/ ExecuteHalt \/ FinishSlice

(* The caller takes the value RunForSlice returned. *)
TakeResult ==
  /\ call = "returned"
  /\ call' = "none"
  /\ UNCHANGED <<program, pc, status, cur, budget, ran>>

=============================================================================
