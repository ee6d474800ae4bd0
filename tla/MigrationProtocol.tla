-------------------------- MODULE MigrationProtocol -------------------------
(***************************************************************************)
(* vmm::MigrationProtocol over a transport that loses, delays, repeats and *)
(* reorders packets: SendWithRetry on one side, the arrival of packets on  *)
(* the other.                                                              *)
(*                                                                         *)
(* The transport is behind the interface IMigrationTransport.  What its    *)
(* SendPacket returns says nothing of the packet: the one implementation   *)
(* in the repository, LocalTransport, returns true and delivers nothing,   *)
(* and one that waits for an answer returns false when the answer is lost. *)
(* A damaged packet is a lost one, for Deserialize refuses it, which is    *)
(* what StateSerializer checks.                                            *)
(***************************************************************************)
EXTENDS Integers, FiniteSets

CONSTANTS
  Snapshots,    \* snapshots PreCopyMigrate takes
  NoSnapshot,   \* SendWithRetry was never called
  MaxAttempts,  \* 3 in the code
  MaxInFlight   \* bound on the packets in transit

ASSUME ProtocolAssumption ==
  /\ NoSnapshot \notin Snapshots
  /\ MaxAttempts \in Nat \ {0}
  /\ MaxInFlight \in Nat

VARIABLES
  sendPhase,  \* where SendWithRetry is, see SendPhase
  sending,    \* the snapshot whose packet it was called with
  attempt,    \* calls of SendPacket so far
  result,     \* what it returned last
  wire        \* packets in transit, each the snapshot it carries

senderVars == <<sendPhase, sending, attempt, result>>
protocolVars == <<senderVars, wire>>

(***************************************************************************)
(* "idle": not called.  "handshake" and "sending": in a call of the        *)
(* transport.  "loop": at the head of the loop over the attempts.          *)
(***************************************************************************)
SendPhase == {"idle", "handshake", "loop", "sending"}

ProtocolTypeOK ==
  /\ sendPhase \in SendPhase
  /\ sending \in Snapshots \cup {NoSnapshot}
  /\ sendPhase # "idle" => sending \in Snapshots
  /\ attempt \in 0 .. MaxAttempts
  /\ result \in {"none", "ok", "handshake failed", "retries exhausted"}
  /\ wire \subseteq Snapshots

ProtocolInit ==
  /\ sendPhase = "idle"
  /\ sending = NoSnapshot
  /\ attempt = 0
  /\ result = "none"
  /\ wire = {}

-----------------------------------------------------------------------------

(* PreCopyMigrate calls SendWithRetry with the packet of a new snapshot. *)
SendWithRetry(s) ==
  /\ sendPhase = "idle"
  /\ sendPhase' = "handshake"
  /\ sending' = s
  /\ attempt' = 0
  /\ result' = "none"
  /\ UNCHANGED wire

Return(answer) == sendPhase' = "idle" /\ result' = answer

(* The transport's Handshake returns. *)
HandshakeReturns ==
  /\ sendPhase = "handshake"
  /\ \/ sendPhase' = "loop" /\ UNCHANGED result
     \/ Return("handshake failed")
  /\ UNCHANGED <<sending, attempt, wire>>

(* Mutant: the attempt is not counted. *)
CallSendPacketUncounted ==
  /\ sendPhase = "loop"
  /\ attempt < MaxAttempts
  /\ sendPhase' = "sending"
  /\ UNCHANGED <<sending, attempt, result, wire>>

(* SendPacket is called: the packet is on its way, or is lost right here. *)
CallSendPacket ==
  /\ sendPhase = "loop"
  /\ attempt < MaxAttempts
  /\ sendPhase' = "sending"
  /\ attempt' = attempt + 1
  /\ \/ UNCHANGED wire
     \/ /\ Cardinality(wire) < MaxInFlight
        /\ wire' = wire \cup {sending}
  /\ UNCHANGED <<sending, result>>

(* It returns, true or false, whatever has become of the packet. *)
SendPacketReturns ==
  /\ sendPhase = "sending"
  /\ \/ Return("ok")
     \/ sendPhase' = "loop" /\ UNCHANGED result
  /\ UNCHANGED <<sending, attempt, wire>>

(* The loop is over without a success. *)
GiveUp ==
  /\ sendPhase = "loop"
  /\ attempt = MaxAttempts
  /\ Return("retries exhausted")
  /\ UNCHANGED <<sending, attempt, wire>>

(* A packet arrives, and may arrive again. *)
Receive(s) ==
  /\ s \in wire
  /\ wire' \in {wire, wire \ {s}}
  /\ UNCHANGED senderVars

Lose(s) ==
  /\ s \in wire
  /\ wire' = wire \ {s}
  /\ UNCHANGED senderVars

SenderStep == HandshakeReturns \/ CallSendPacket \/ SendPacketReturns \/ GiveUp

ProtocolNext ==
  \/ \E s \in Snapshots : SendWithRetry(s)
  \/ SenderStep
  \/ \E s \in wire : Receive(s) \/ Lose(s)

ProtocolSpec == ProtocolInit /\ [][ProtocolNext]_protocolVars

-----------------------------------------------------------------------------

(***************************************************************************)
(* A failure is final only when it may be: the handshake failed and no     *)
(* packet of this call was handed to the transport, or all the attempts    *)
(* were made and each of them reported a failure.                          *)
(***************************************************************************)
FailureIsExhaustive ==
  /\ result = "handshake failed" => attempt = 0
  /\ result = "retries exhausted" => attempt = MaxAttempts

=============================================================================
