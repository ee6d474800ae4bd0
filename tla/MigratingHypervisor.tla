------------------------ MODULE MigratingHypervisor ------------------------
(***************************************************************************)
(* HypervisorCore and MigrationProtocol together: Run on the source, the   *)
(* transfer PreCopyMigrate makes over an unreliable transport, and the     *)
(* machines a target has restored from its packets.                        *)
(*                                                                         *)
(* A snapshot is the machine it is of and its pc: the rest of the state is *)
(* a function of both as long as nothing else is restored, which is what   *)
(* VirtualMachine checks.  Names are taken to be distinct: a packet has  *)
(* the name and nothing else to tell machines apart by.                    *)
(*                                                                         *)
(* The target is external, as the transport is: it restores the packets    *)
(* that reach it with VirtualMachine::Restore, as docs/migration-protocol.md*)
(* says of the receiver, and runs the machines with RunForSlice.           *)
(***************************************************************************)
EXTENDS HypervisorCore, MigrationProtocol

CONSTANTS
  Absent,       \* what the target has of a machine it never restored
  TargetSlice   \* execSlice of the machines on the target

ASSUME MigrationAssumption ==
  /\ Snapshots \subseteq [vm : Vms, pc : Nat]
  /\ \A p \in Programs : [vm : Vms, pc : 0 .. Len(p)] \subseteq Snapshots
  /\ Absent \notin [pc : Nat, status : VmStatus]
  /\ TargetSlice \in Nat

VARIABLES
  called,   \* has PreCopyMigrate called SendWithRetry?
  target    \* the machines on the target

migrationVars == <<vars, protocolVars, called, target>>

TargetMachine == [pc : Nat, status : VmStatus]

MigrationTypeOK ==
  /\ TypeOK
  /\ ProtocolTypeOK
  /\ called \in BOOLEAN
  /\ target \in [Vms -> TargetMachine \cup {Absent}]

MigrationInit ==
  /\ Init
  /\ ProtocolInit
  /\ called = FALSE
  /\ target = [i \in Vms |-> Absent]

-----------------------------------------------------------------------------

(* VirtualMachine::Snapshot of machine i. *)
Snapshot(i) == [vm |-> i, pc |-> pc[i]]

(* The rounds are over: PreCopyMigrate calls SendWithRetry. *)
SendSnapshot ==
  /\ phase = "precopy"
  /\ call = "none"
  /\ round = PreCopyRounds
  /\ ~called
  /\ called' = TRUE
  /\ SendWithRetry(Snapshot(cur))
  /\ UNCHANGED <<vars, target>>

(* Mutant: a transfer that failed is started again. *)
MigrationRepeats ==
  /\ called
  /\ sendPhase = "idle"
  /\ called' = FALSE
  /\ IF result = "ok" THEN TransferAndClear ELSE UNCHANGED vars
  /\ UNCHANGED <<protocolVars, target>>

(* SendWithRetry returned, with success or not: Run clears the intent. *)
MigrationEnds ==
  /\ called
  /\ sendPhase = "idle"
  /\ called' = FALSE
  /\ TransferAndClear
  /\ UNCHANGED <<protocolVars, target>>

(* Everything Run and its callees do apart from the transfer. *)
HostStep ==
  /\ \/ Leave \/ VmStep \/ RecordSlice \/ PreCopyRound \/ PreCopyReturn
     \/ \E idx \in 0 .. MaxVms : PickNext(idx)
  /\ UNCHANGED <<protocolVars, called, target>>

TransportStep == SenderStep /\ UNCHANGED <<vars, called, target>>

SourceStep == HostStep \/ SendSnapshot \/ TransportStep \/ MigrationEnds

CallerStep == (AddVm \/ Run) /\ UNCHANGED <<protocolVars, called, target>>

-----------------------------------------------------------------------------

(* VirtualMachine::Restore, of a new machine or of the one already there. *)
Restored(s) == [pc |-> s.pc, status |-> "Ready"]

(* A packet reaches the target, which restores its machine. *)
Deliver(s) ==
  /\ Receive(s)
  /\ target' = [target EXCEPT ![s.vm] = Restored(s)]
  /\ UNCHANGED <<vars, called>>

Drop(s) == Lose(s) /\ UNCHANGED <<vars, called, target>>

(***************************************************************************)
(* RunForSlice of machine i on the target, a slice of SlicedMachines.      *)
(* "Halted" stands for "Faulted" as well.                                  *)
(***************************************************************************)
OnTarget ==
  INSTANCE SlicedMachines WITH
    Machines <- Vms,
    code <- program,
    quota <- [i \in Vms |-> TargetSlice],
    done <- [i \in Vms |-> IF target[i] = Absent THEN 0 ELSE target[i].pc],
    over <- [i \in Vms |-> target[i] # Absent /\ target[i].status = "Halted"]

StatusAfter(i, k) ==
  IF OnTarget!SliceFinishes(i, k) THEN "Halted"
  ELSE IF k = TargetSlice THEN "Ready"
  ELSE "Blocked"

RunOnTarget(i) ==
  /\ target[i] # Absent
  /\ target[i].status # "Halted"
  /\ \E k \in {n \in 0 .. Len(program[i]) : OnTarget!SliceRetires(i, n)} :
       target' = [target EXCEPT
         ![i] = [pc |-> @.pc + k, status |-> StatusAfter(i, k)]]
  /\ UNCHANGED <<vars, protocolVars, called>>

TargetStep ==
  \/ \E s \in wire : Deliver(s) \/ Drop(s)
  \/ \E i \in Vms : RunOnTarget(i)

MigrationNext == CallerStep \/ SourceStep \/ TargetStep

(***************************************************************************)
(* The thread in Run takes its next step, a call of the transport returns. *)
(* Nothing is assumed of the network or of the target.                     *)
(***************************************************************************)
MigrationSpec ==
  MigrationInit /\ [][MigrationNext]_migrationVars /\ WF_migrationVars(SourceStep)

-----------------------------------------------------------------------------

(***************************************************************************)
(* The hosts agree on where a migrated machine is.  A machine that asked   *)
(* to migrate stays alive on the source, which dispatches and migrates it  *)
(* again, while the target runs it too (Run clears the intent and no       *)
(* more), and a packet sent twice or late is restored over what the target *)
(* has; the two do not drift apart, because neither gets past a MIGRATE.   *)
(***************************************************************************)
HostsAgree == \A i \in Vms : target[i] # Absent => target[i].pc = pc[i]

(***************************************************************************)
(* A migration ends, whatever the transport and the target do, and Run     *)
(* goes on with its loop.                                                  *)
(***************************************************************************)
MigrationReturns == phase = "precopy" ~> phase = "loop"

(***************************************************************************)
(* How many steps of the source that can take: those left of the rounds,   *)
(* two for each attempt left, and those of the call around them.  Each     *)
(* step of the source brings the end nearer, and none of the network or    *)
(* the target, whose packets may come back any number of times, puts it    *)
(* off (the bound of SendWithRetry's loop; one call of it per migration).  *)
(***************************************************************************)
TransferLeft ==
  CASE sendPhase = "handshake" -> 2 * MaxAttempts + 3
    [] sendPhase = "loop"      -> 2 * (MaxAttempts - attempt) + 2
    [] sendPhase = "sending"   -> 2 * (MaxAttempts - attempt) + 3
    [] sendPhase = "idle"      -> 1

MigrationLeft ==
  IF phase # "precopy" THEN 0
  ELSE IF called THEN TransferLeft
  ELSE 2 * MaxAttempts + 3 + Left

MigrationNearsEnd ==
  [][(phase = "precopy") =>
       MigrationLeft' \in 0 .. IF SourceStep THEN MigrationLeft - 1 ELSE MigrationLeft]_migrationVars

=============================================================================
