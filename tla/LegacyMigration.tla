-------------------------- MODULE LegacyMigration ---------------------------
(***************************************************************************)
(* The migration client and server of homeworks 2 and 3: the client runs a *)
(* program up to a MIGRATE, sends its registers, its pc and the name of    *)
(* the program over TCP and exits; the server accepts one connection,      *)
(* receives once, skips the lines the client has done and runs the rest.   *)
(*                                                                         *)
(* What the server receives is text without an end in a buffer that was    *)
(* never written before.  If all of the message arrived that makes no      *)
(* difference, because white space ends its last field; otherwise the      *)
(* numbers and the name are whatever was in the buffer.                    *)
(***************************************************************************)
EXTENDS LegacyMachine

CONSTANTS
  Programs,  \* programs in the file both programs read
  Saved,     \* machines in the snapshot file given with -s, if there is one
  Fragments, \* what is read of a buffer that not all of a message is in
  NoMessage  \* nothing was sent or received

(* Lines next to those of LegacyMachine. *)
Empty == [op |-> "empty"]
Migrate == [op |-> "MIGRATE"]

(* Writes a file that is read when the client is started with it. *)
Snapshot == [op |-> "SNAPSHOT"]

(* A MIGRATE without an address, or any line in which stoi finds no number. *)
Malformed == [op |-> "malformed"]

(* lines: those of the file named, none if there is no such file. *)
Message ==
  [registers : [Registers -> Value], pc : Int, lines : Programs \cup {<<>>}]

ASSUME LegacyMigrationAssumption ==
  /\ Programs \subseteq Seq(Lines \cup {Empty, Migrate, Snapshot, Malformed})
  /\ Saved \subseteq VmClass
  /\ Fragments \subseteq Message
  /\ NoMessage \notin Message

VARIABLES
  program,     \* lines of the instruction file, the same on both hosts
  started,     \* the machine the client started with
  client,      \* the machine of the client
  clientPos,   \* lines the client has read
  pc,          \* its pc
  clientAt,    \* where the client is, see ClientState
  connections, \* how many connections it got; the server accepts the first
  server,      \* the machine of the server
  serverPos,   \* lines the server has read, skipped ones included
  serverAt,    \* where the server is, see ServerState
  sent,        \* the message the client sent
  received     \* what the server parsed out of its buffer

input == <<program, started>>
clientVars == <<client, clientPos, pc, clientAt, connections>>
serverVars == <<server, serverPos, serverAt, received>>
vars == <<input, clientVars, serverVars, sent>>

(***************************************************************************)
(* "connecting", "sending": in solve, on a MIGRATE line.  "migrated": left *)
(* by the exit after a send that succeeded.                                *)
(***************************************************************************)
ClientState == {"running", "connecting", "sending", "migrated", "finished", "exited", "killed"}

ServerState ==
  {"starting", "listening", "connected", "skipping", "running", "finished", "exited", "killed"}

TypeOK ==
  /\ program \in Programs
  /\ started \in VmClass
  /\ client \in VmClass /\ server \in VmClass
  /\ clientPos \in 0 .. Len(program) /\ pc \in 0 .. Len(program)
  /\ connections \in 0 .. Len(program)
  /\ clientAt \in ClientState /\ serverAt \in ServerState
  /\ sent \in Message \cup {NoMessage}
  /\ received \in Message \cup {NoMessage}
  /\ serverPos \in 0 .. IF received = NoMessage THEN 0 ELSE Len(received.lines)

(* load_Snapshot, if there is a file, sets registers, hi and low but no pc. *)
Starts == Saved \cup {Constructed}

Init ==
  /\ program \in Programs
  /\ started \in Starts
  /\ client = started /\ server = Constructed
  /\ clientPos = 0 /\ pc = 0 /\ clientAt = "running" /\ connections = 0
  /\ serverPos = 0 /\ serverAt = "starting"
  /\ sent = NoMessage /\ received = NoMessage

-----------------------------------------------------------------------------

(* The lines that leave a machine as it is. *)
Inert == {"empty", "MIGRATE", "SNAPSHOT"}

(* The states of a program after machine m executed a line. *)
Outcomes(m, line) ==
  IF line.op = "malformed" THEN {"killed"}
  ELSE IF line.op \in Inert THEN {"running"}
  ELSE IF Exits(m, line) THEN {"exited"}
  ELSE IF MayTrap(m, line) THEN {"running", "killed"}
  ELSE {"running"}

After(m, line) == IF line.op \in Inert THEN m ELSE solve(m, line)

(* solve counts; it is not called for an empty line. *)
Counted(line) == IF line.op = "empty" THEN 0 ELSE 1

(* The loop of the client: the next line, or the end of main. *)
ClientLine ==
  /\ clientAt = "running"
  /\ IF clientPos = Len(program)
     THEN clientAt' = "finished" /\ UNCHANGED <<client, clientPos, pc>>
     ELSE LET line == program[clientPos + 1]
          IN /\ clientPos' = clientPos + 1
             /\ pc' = pc + Counted(line)
             /\ clientAt' \in
                  IF line.op = "MIGRATE" THEN {"connecting"} ELSE Outcomes(client, line)
             /\ client' = IF clientAt' = "running" THEN After(client, line) ELSE client
  /\ UNCHANGED <<input, connections, serverVars, sent>>

(* Mutant: a connection that fails costs the line after the MIGRATE. *)
ConnectLosesLine ==
  /\ clientAt = "connecting"
  /\ clientAt' = "running"
  /\ clientPos' = IF clientPos < Len(program) THEN clientPos + 1 ELSE clientPos
  /\ UNCHANGED <<input, client, pc, connections, serverVars, sent>>

(***************************************************************************)
(* A socket or a connection that fails makes solve return: the client goes *)
(* on.  The server need not accept for a connection to succeed: as long as *)
(* its socket is open there is room for some that wait.                    *)
(***************************************************************************)
Connect ==
  /\ clientAt = "connecting"
  /\ \/ clientAt' = "running" /\ UNCHANGED connections
     \/ /\ serverAt \in {"listening", "connected", "skipping", "running"}
        /\ clientAt' = "sending"
        /\ connections' = connections + 1
  /\ UNCHANGED <<input, client, clientPos, pc, serverVars, sent>>

(* The string the client puts together; hi and low are not in it. *)
StateToSend == [registers |-> client.registers, pc |-> pc, lines |-> program]

(* Mutant: the client does not exit when it has sent its state. *)
SendAndGoOn ==
  /\ clientAt = "sending"
  /\ clientAt' = "running"
  /\ sent' = StateToSend
  /\ UNCHANGED <<input, client, clientPos, pc, connections, serverVars>>

(* send succeeds and the client exits, or it fails and the client goes on. *)
Send ==
  /\ clientAt = "sending"
  /\ \/ clientAt' = "migrated" /\ sent' = StateToSend
     \/ clientAt' = "running" /\ UNCHANGED sent
  /\ UNCHANGED <<input, client, clientPos, pc, connections, serverVars>>

-----------------------------------------------------------------------------

(* socket, bind and listen succeed; if they do not, there is no server. *)
Listen ==
  /\ serverAt = "starting"
  /\ serverAt' = "listening"
  /\ UNCHANGED <<input, clientVars, server, serverPos, received, sent>>

Accept ==
  /\ serverAt = "listening"
  /\ connections # 0
  /\ serverAt' = "connected"
  /\ UNCHANGED <<input, clientVars, server, serverPos, received, sent>>

(* An accept or a recv that fails ends main. *)
AcceptFails ==
  /\ serverAt = "listening"
  /\ serverAt' = "exited"
  /\ UNCHANGED <<input, clientVars, server, serverPos, received, sent>>

RecvFails ==
  /\ serverAt = "connected"
  /\ serverAt' = "exited"
  /\ UNCHANGED <<input, clientVars, server, serverPos, received, sent>>

(* What was sent came by the connection that was accepted. *)
SentOnFirst == sent # NoMessage /\ connections = 1

(* recv gives the message, or only a part of it. *)
RecvMessage ==
  /\ SentOnFirst
  /\ received' \in {sent} \cup Fragments

(* recv gives nothing, because the client closed its first connection. *)
RecvNothing ==
  /\ ~SentOnFirst
  /\ ~(clientAt = "sending" /\ connections = 1)
  /\ received' \in Fragments

(* Mutant: recv is called again until there is a message. *)
ReceiveRetried ==
  /\ serverAt = "connected"
  /\ RecvMessage
  /\ serverAt' \in {"skipping", "killed"}
  /\ server' = [Constructed EXCEPT !.registers = received'.registers]
  /\ UNCHANGED <<input, clientVars, serverPos, sent>>

(***************************************************************************)
(* The one call of recv, and the parsing of the buffer, whatever it has    *)
(* returned.  The zero that ends the text is written after that: reading   *)
(* on behind the buffer may end the server.                                *)
(***************************************************************************)
Receive ==
  /\ serverAt = "connected"
  /\ RecvMessage \/ RecvNothing
  /\ serverAt' \in {"skipping", "killed"}
  /\ server' = [Constructed EXCEPT !.registers = received'.registers]
  /\ UNCHANGED <<input, clientVars, serverPos, sent>>

(* How many lines num_lines_to_skip leaves behind: there may be fewer. *)
Skipped(n) ==
  IF n < 0 THEN 0 ELSE IF n < Len(received.lines) THEN n ELSE Len(received.lines)

(* Mutant: the line of the MIGRATE itself is skipped once more. *)
SkipOneMore ==
  /\ serverAt = "skipping"
  /\ serverPos' = Skipped(received.pc + 1)
  /\ serverAt' = "running"
  /\ UNCHANGED <<input, clientVars, server, received, sent>>

(* pc lines of the file are read and dropped. *)
Skip ==
  /\ serverAt = "skipping"
  /\ serverPos' = Skipped(received.pc)
  /\ serverAt' = "running"
  /\ UNCHANGED <<input, clientVars, server, received, sent>>

(***************************************************************************)
(* The solve of the server knows no MIGRATE: it makes a register number of *)
(* the address, finds no such opcode and changes nothing.                  *)
(***************************************************************************)
ServerAfter(m, line) ==
  IF line.op \in Inert THEN m ELSE solve(m, line)

(* The loop of the server; without the file there are no lines. *)
ServerLine ==
  /\ serverAt = "running"
  /\ IF serverPos = Len(received.lines)
     THEN serverAt' = "finished" /\ UNCHANGED <<server, serverPos>>
     ELSE LET line == received.lines[serverPos + 1]
          IN /\ serverPos' = serverPos + 1
             /\ serverAt' \in Outcomes(server, line)
             /\ server' = IF serverAt' = "running" THEN ServerAfter(server, line) ELSE server
  /\ UNCHANGED <<input, clientVars, received, sent>>

ClientStep == ClientLine \/ Connect \/ Send
ServerStep == Accept \/ Receive \/ Skip \/ ServerLine

Next == ClientStep \/ Listen \/ ServerStep \/ AcceptFails \/ RecvFails

(***************************************************************************)
(* Both programs run; whether a server is ever started is open, and that a *)
(* call fails is nothing to rely on.                                       *)
(***************************************************************************)
Spec == Init /\ [][Next]_vars /\ WF_vars(ClientStep) /\ WF_vars(ServerStep)

-----------------------------------------------------------------------------

(* Machine m after the first n lines of program p, undisturbed. *)
Alone(m, p, n) ==
  LET after[k \in 0 .. n] == IF k = 0 THEN m ELSE After(after[k - 1], p[k])
  IN after[n]

(***************************************************************************)
(* The machine is never executed on both sides: once its state is sent the *)
(* client executes nothing, so the server is alone with it (exit after     *)
(* send), and before recv has returned the server executes nothing.  What  *)
(* a server runs that was sent nothing is no machine of the client's.      *)
(***************************************************************************)
NeverOnBothSides ==
  [][/\ clientPos' # clientPos => sent = NoMessage
     /\ serverPos' # serverPos => received # NoMessage]_vars

(* The server runs, or ran, what it got, and that is what was sent to it. *)
Arrived ==
  SentOnFirst /\ received = sent /\ serverAt \in {"running", "finished"}

(***************************************************************************)
(* README.md:29 says the destination resumes execution: what it computes   *)
(* is what the program would have computed alone.  With empty lines before *)
(* the MIGRATE it resumes too early and executes lines a second time: the  *)
(* client does not count them, and the server skips them as lines.         *)
(***************************************************************************)
RegistersContinue ==
  Arrived => server.registers = Alone(started, program, serverPos).registers

(***************************************************************************)
(* What arrives whole goes on as if it had never been moved, but for hi    *)
(* and low, which StateToSend leaves out: these are 0 until the server     *)
(* executes a mult or a div, and from then on what they would have been.   *)
(* That is so for the programs without an empty line before the MIGRATE,   *)
(* and whatever attempts failed before the one that did not.               *)
(***************************************************************************)
MigrationResumes ==
  Arrived /\ pc = clientPos =>
    LET alone == Alone(started, program, serverPos)
    IN /\ server.registers = alone.registers
       /\ <<server.hi, server.low>> =
            IF \E k \in pc + 1 .. serverPos : program[k].op \in TwoRegisters
            THEN <<alone.hi, alone.low>> ELSE <<0, 0>>

(***************************************************************************)
(* A client whose connection or send failed goes on as if there had been   *)
(* no MIGRATE in its program: no line is lost or executed twice.           *)
(***************************************************************************)
FailureIsHarmless ==
  clientAt \in {"running", "connecting", "sending", "finished"} =>
    client = Alone(started, program, clientPos)

(* A client always ends, and so does a server that got a connection. *)
BothEnd ==
  /\ <>(clientAt \in {"migrated", "finished", "exited", "killed"})
  /\ connections # 0 ~> serverAt \in {"finished", "exited", "killed"}

(***************************************************************************)
(* How many steps the client has left at most, of which a MIGRATE takes    *)
(* three, the calls the server has left, and the lines it has left when it *)
(* has a file.  A step brings its own program nearer to its end and the    *)
(* other one no further from it, whatever calls fail (a failed call of the *)
(* client returns to the line after the MIGRATE, and the server accepts    *)
(* one connection and receives once).                                      *)
(***************************************************************************)
ClientLeft ==
  CASE clientAt = "running"    -> 3 * (Len(program) - clientPos) + 1
    [] clientAt = "connecting" -> 3 * (Len(program) - clientPos) + 3
    [] clientAt = "sending"    -> 3 * (Len(program) - clientPos) + 2
    [] OTHER                   -> 0

ServerCallsLeft ==
  CASE serverAt = "starting"  -> 5
    [] serverAt = "listening" -> 4
    [] serverAt = "connected" -> 3
    [] serverAt = "skipping"  -> 2
    [] serverAt = "running"   -> 1
    [] OTHER                  -> 0

ServerLinesLeft ==
  IF serverAt = "running" THEN Len(received.lines) - serverPos ELSE 0

ServerNearer ==
  \/ ServerCallsLeft' \in 0 .. ServerCallsLeft - 1
  \/ /\ ServerCallsLeft' = ServerCallsLeft
     /\ ServerLinesLeft' \in 0 .. ServerLinesLeft - 1

BothNearEnd ==
  [][\/ ClientLeft' \in 0 .. ClientLeft - 1 /\ UNCHANGED serverVars
     \/ ServerNearer /\ UNCHANGED <<input, clientVars>>]_vars

(* The line the client executed last has opcode op. *)
Executed(op) ==
  clientPos > 0 /\ clientAt = "running" /\ program[clientPos].op = op

(***************************************************************************)
(* mult leaves the whole product of the two registers in hi and low: the   *)
(* halves put together again are the product, whatever the signs.          *)
(***************************************************************************)
ProductIsWhole ==
  Executed("mult") =>
    LET line == program[clientPos]
    IN client.hi * Space + Unsigned(client.low)
         = client.registers[line.d] * client.registers[line.s]

(***************************************************************************)
(* div leaves a quotient and a remainder that give the dividend back, the  *)
(* remainder smaller than the divisor and of the sign of the dividend.     *)
(***************************************************************************)
DivisionIsEuclid ==
  Executed("div") =>
    LET line == program[clientPos]
        a == client.registers[line.d]
        b == client.registers[line.s]
    IN ~MayTrap(client, line) =>
         /\ a = client.low * b + client.hi
         /\ client.hi * client.hi < b * b
         /\ client.hi # 0 => (client.hi < 0) = (a < 0)

=============================================================================
