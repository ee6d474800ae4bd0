-------------------------- MODULE HypervisorCore ---------------------------
(***************************************************************************)
(* vmm::HypervisorCore: AddVm, and the loop of Run that asks the scheduler *)
(* for a machine, gives it a slice, records the metrics and carries out a  *)
(* migration the machine asked for.                                        *)
(*                                                                         *)
(* The scheduler is behind the interface IScheduler: here PickNext may     *)
(* return any index, and what is true of this module is true for every     *)
(* scheduler.  ScheduledHypervisor adds the three policies of the code.    *)
(***************************************************************************)
EXTENDS VmLifecycle

CONSTANTS
  MaxVms,           \* bound on the calls of AddVm
  Names,            \* names a VmConfig may carry
  VmConfigs,        \* the VmConfig values passed to machines
  PreCopyRounds,    \* rounds of PreCopyMigrate, 2 in the code
  PreCopyBudget,    \* instructions of each round, 10 in the code
  MaxDispatch       \* value at which the modelled dispatch counters saturate

ASSUME HypervisorAssumption ==
  /\ MaxVms \in Nat \ {0}
  /\ Vms = 0 .. MaxVms - 1
  /\ VmConfigs \subseteq [name : Names, execSlice : Nat, priority : Int]
  /\ PreCopyRounds \in Nat
  /\ PreCopyBudget \in Nat
  /\ MaxDispatch \in Nat

VARIABLES
  config,      \* config_ of each machine
  size,        \* vms_.size()
  phase,       \* where the caller of Run is, see Phase
  round,       \* pre-copy rounds started
  dispatched,  \* metrics_ dispatchCountByVm, by name
  retired      \* metrics_ instructionsByVm, by name

hvVars == <<config, size, phase, round, dispatched, retired>>
vars == <<vmVars, hvVars>>

(***************************************************************************)
(* "idle": Run is not executing.  "loop": at the top of its while loop.    *)
(* "dispatch": in its call of RunForSlice.  "precopy": in PreCopyMigrate.  *)
(***************************************************************************)
Phase == {"idle", "loop", "dispatch", "precopy"}

TypeOK ==
  /\ VmTypeOK
  /\ config \in [Vms -> VmConfigs]
  /\ size \in 0 .. MaxVms
  /\ phase \in Phase
  /\ round \in 0 .. PreCopyRounds
  /\ dispatched \in [Names -> Nat]
  /\ retired \in [Names -> Nat]

(***************************************************************************)
(* config and program hold from the start what the calls of AddVm will     *)
(* pass; a machine exists once its index is below size.                    *)
(***************************************************************************)
Init ==
  /\ VmInit
  /\ cur = 0
  /\ config \in [Vms -> VmConfigs]
  /\ size = 0
  /\ phase = "idle"
  /\ round = 0
  /\ dispatched = [n \in Names |-> 0]
  /\ retired = [n \in Names |-> 0]

Added == 0 .. size - 1

Alive == {i \in Added : ~Terminal(i)}

CurName == config[cur].name

-----------------------------------------------------------------------------

AddVm ==
  /\ phase = "idle"
  /\ size < MaxVms
  /\ size' = size + 1
  /\ UNCHANGED <<vmVars, config, phase, round, dispatched, retired>>

Run ==
  /\ phase = "idle"
  /\ phase' = "loop"
  /\ UNCHANGED <<vmVars, config, size, round, dispatched, retired>>

(* The break of the loop: allDone, which an empty vms_ satisfies too. *)
Leave ==
  /\ phase = "loop"
  /\ Alive = {}
  /\ phase' = "idle"
  /\ UNCHANGED <<vmVars, config, size, round, dispatched, retired>>

(* An index that is out of range or of a machine that is over: continue. *)
SkipPick(idx) ==
  /\ phase = "loop"
  /\ Alive # {}
  /\ idx \notin Alive
  /\ UNCHANGED vars

(* RecordDispatch and the call of RunForSlice with the machine's slice. *)
Dispatch(idx) ==
  /\ phase = "loop"
  /\ idx \in Alive
  /\ phase' = "dispatch"
  /\ dispatched' = [dispatched EXCEPT
       ![config[idx].name] = IF @ < MaxDispatch THEN @ + 1 ELSE @]
  /\ RunForSlice(idx, config[idx].execSlice)
  /\ UNCHANGED <<config, size, round, retired>>

(* A step inside the RunForSlice that Run or PreCopyMigrate called. *)
VmStep ==
  /\ ExecuteSlice
  /\ UNCHANGED hvVars

(* RecordInstructions, then PreCopyMigrate if the machine asked for it. *)
RecordSlice ==
  /\ phase = "dispatch"
  /\ TakeResult
  /\ retired' = [retired EXCEPT ![CurName] = @ + ran]
  /\ phase' = IF pending[cur] THEN "precopy" ELSE "loop"
  /\ UNCHANGED <<pending, config, size, round, dispatched>>

(* Mutant: an off-by-one in the loop over the rounds. *)
PreCopyRoundOnceMore ==
  /\ phase = "precopy"
  /\ round <= PreCopyRounds
  /\ RunForSlice(cur, PreCopyBudget)
  /\ round' = round + 1
  /\ UNCHANGED <<config, size, phase, dispatched, retired>>

(* One round of PreCopyMigrate: a slice whose result is dropped. *)
PreCopyRound ==
  /\ phase = "precopy"
  /\ round < PreCopyRounds
  /\ RunForSlice(cur, PreCopyBudget)
  /\ round' = round + 1
  /\ UNCHANGED <<config, size, phase, dispatched, retired>>

PreCopyReturn ==
  /\ phase = "precopy"
  /\ TakeResult
  /\ UNCHANGED <<pending, hvVars>>

(***************************************************************************)
(* The rest of PreCopyMigrate and the return to Run.  Snapshot, Serialize  *)
(* and SendWithRetry leave the machine alone and their result is only      *)
(* printed; success and failure both end in ClearMigrationIntent.          *)
(***************************************************************************)
TransferAndClear ==
  /\ phase = "precopy"
  /\ call = "none"
  /\ round = PreCopyRounds
  /\ pending' = [pending EXCEPT ![cur] = FALSE]
  /\ round' = 0
  /\ phase' = "loop"
  /\ UNCHANGED <<program, pc, status, call, cur, budget, ran,
                 config, size, dispatched, retired>>

(* The steps of Run that do not ask the scheduler. *)
RunStep ==
  \/ Leave
  \/ VmStep
  \/ RecordSlice
  \/ PreCopyRound
  \/ PreCopyReturn
  \/ TransferAndClear

PickNext(idx) == SkipPick(idx) \/ Dispatch(idx)

Next ==
  \/ AddVm
  \/ Run
  \/ RunStep
  \/ \E idx \in 0 .. MaxVms : PickNext(idx)

Spec == Init /\ [][Next]_vars

-----------------------------------------------------------------------------

(***************************************************************************)
(* Between two iterations of Run every machine's status agrees with its    *)
(* place in its program: no machine is left Running, none is Halted before *)
(* a HALT or the end of its program, none is Faulted or Blocked except on  *)
(* the instruction that trapped or asked to migrate, none is Ready with    *)
(* nothing left to execute unless it never ran, and no migration intent    *)
(* outlives the migration (RunForSlice's final status, ExecuteOne's early  *)
(* returns, ClearMigrationIntent).                                         *)
(***************************************************************************)
StatusMatchesPc(i) ==
  /\ status[i] = "Ready" => InProgram(i) \/ program[i] = <<>>
  /\ status[i] # "Running"
  /\ status[i] = "Blocked" => AtInstruction(i, "Migrate")
  /\ status[i] = "Halted" => AtInstruction(i, "Halt") \/ pc[i] = Len(program[i])
  /\ status[i] = "Faulted" => AtInstruction(i, "Trap")
  /\ ~pending[i]

SettledBetweenSlices ==
  phase \in {"idle", "loop"} => \A i \in Added : StatusMatchesPc(i)

(* No other machine added so far has the name of machine i. *)
UniqueName(i) == \A j \in Added : config[j].name = config[i].name => j = i

(***************************************************************************)
(* instructionsByVm counts every instruction a machine retired, exactly    *)
(* once: between iterations it equals the machine's pc, which moves only   *)
(* when an instruction retires.  The rounds of PreCopyMigrate drop their   *)
(* counts, so this holds only while they retire nothing.                   *)
(***************************************************************************)
MetricsExact ==
  phase \in {"idle", "loop"} =>
    \A i \in Added : UniqueName(i) => retired[config[i].name] = pc[i]

(***************************************************************************)
(* A machine without a MIGRATE gets the whole of its slice at each of its  *)
(* dispatches, or is over: as long as it is not, dispatchCountByVm times   *)
(* execSlice is instructionsByVm.  A slice cut short, continued, or lost   *)
(* by AddVm or a migration of another machine would show here.             *)
(***************************************************************************)
NeverMigrates(i) == \A k \in DOMAIN program[i] : program[i][k] # "Migrate"

SlicesAreWhole ==
  phase \in {"idle", "loop"} =>
    \A i \in Alive : UniqueName(i) /\ NeverMigrates(i) =>
      LET n == config[i].name
          due == dispatched[n] * config[i].execSlice
      IN due <= retired[n] /\ (dispatched[n] < MaxDispatch => due = retired[n])

(***************************************************************************)
(* A machine that halted or faulted stays so and executes nothing more,    *)
(* through later iterations, later calls of AddVm and of Run.              *)
(***************************************************************************)
TerminalIsFinal ==
  [][\A i \in Vms : Terminal(i) => Terminal(i)' /\ pc'[i] = pc[i]]_vars

(***************************************************************************)
(* An iteration of Run that dispatched a machine ends, whatever the        *)
(* machine's program and however often it asks to migrate: each of its     *)
(* steps brings its end nearer, of which there are no more than the slice  *)
(* and the pre-copy rounds account for (the breaks of RunForSlice's loop   *)
(* and the bound of PreCopyMigrate's).                                     *)
(***************************************************************************)
CallLeft ==
  CASE call = "executing" -> 3
    [] call = "broke"     -> 2
    [] call = "returned"  -> 1
    [] call = "none"      -> 0

Left ==
  CASE phase = "dispatch" -> 4 * PreCopyRounds + 2 + (budget - ran) + CallLeft
    [] phase = "precopy"  -> 4 * (PreCopyRounds - round) + 1 + CallLeft
    [] OTHER              -> 0

IterationEnds ==
  [][(phase \in {"dispatch", "precopy"}) => Left' \in 0 .. Left - 1]_vars

(***************************************************************************)
(* Run implements SlicedMachines: seen from the top of its loop, every     *)
(* iteration is one atomic slice of one machine, whatever RunForSlice does *)
(* in between, and a migration with its pre-copy rounds changes nothing.   *)
(* A machine in the middle of a slice is mapped to where it started.       *)
(***************************************************************************)
InSlice(i) == phase = "dispatch" /\ cur = i

Sliced ==
  INSTANCE SlicedMachines WITH
    Machines <- Vms,
    code <- program,
    quota <- [i \in Vms |-> config[i].execSlice],
    done <- [i \in Vms |-> IF InSlice(i) THEN pc[i] - ran ELSE pc[i]],
    over <- [i \in Vms |-> ~InSlice(i) /\ Terminal(i)]

SlicesAreAtomic == Sliced!AbsSpec

(***************************************************************************)
(* docs/migration-protocol.md:11 says the rounds before the final transfer *)
(* execute the machine.  They do not: RunForSlice starts again on the      *)
(* MIGRATE instruction and returns 0.                                      *)
(***************************************************************************)
PreCopyRoundExecutes == phase = "precopy" /\ call = "returned" => ran > 0

=============================================================================
