-------------------------- MODULE LegacyHypervisor --------------------------
(***************************************************************************)
(* main of project.cc and of homework1.cc: the options, the loading of     *)
(* snapshots, and the loop that gives the two machines slices in turn.     *)
(*                                                                         *)
(* A program is the sequence of the lines of its file; a stream is where   *)
(* getline stands in it and its eofbit.  A step is the test of a loop or   *)
(* one pass through its body.                                              *)
(***************************************************************************)
EXTENDS LegacyMachine, FiniteSets

CONSTANTS
  Programs,     \* programs in the two instruction files
  Slices,       \* values of vm_exec_slice_in_instructions, see Settings
  Files,        \* snapshot files
  Saved,        \* machines in these files at the start
  Absent,       \* what a file that does not exist holds
  NoSnapshot,   \* "Nosnapshot" of the code
  CommandLines  \* sequences of "-v" and of files given to -s

Vm == {1, 2}

(* Lines next to those of LegacyMachine; f is the operand of SNAPSHOT. *)
Empty == [op |-> "empty"]
Malformed == [op |-> "malformed"]
SnapshotTo(f) == [op |-> "SNAPSHOT", file |-> f]

ASSUME LegacyHypervisorAssumption ==
  /\ \A p \in Programs : p \in Seq({p[n] : n \in DOMAIN p})
  /\ \A a \in CommandLines :
       /\ a \in Seq({a[n] : n \in DOMAIN a})
       /\ \E i, j \in DOMAIN a : i < j /\ a[i] = "-v" /\ a[j] = "-v"
  /\ Slices \subseteq Int
  /\ Absent \notin Saved /\ NoSnapshot \notin Files

VARIABLES
  homework1, \* is the program homework1.cc? FALSE: project.cc
  program,   \* lines of each instruction file
  slice,     \* vm_exec_slice_in_instructions of each machine
  opened,    \* did each instruction file open?
  ended,     \* does each file end with a newline?
  options,   \* the command line
  first,     \* each machine when the loop starts
  vm,        \* each machine
  pos,       \* lines of each file read
  eof,       \* eofbit of each stream
  turn,      \* 0: test of the while loop, 1 and 2: loop of that machine
  count,     \* i and j, the lines of the slice so far
  files,     \* contents of the snapshot files
  process    \* "running", "finished", "exited" by divi, or "killed"

settings == <<homework1, program, slice, opened, ended, options, first>>
vars == <<settings, vm, pos, eof, turn, count, files, process>>

TypeOK ==
  /\ program \in [Vm -> Programs]
  /\ vm \in [Vm -> VmClass]
  /\ \A v \in Vm : pos[v] \in 0 .. Len(program[v]) /\ count \in Nat
  /\ eof \in [Vm -> BOOLEAN]
  /\ turn \in 0 .. 2
  /\ homework1 \in BOOLEAN
  /\ files \in [Files -> VmClass \cup {Absent}]
  /\ process \in {"running", "finished", "exited", "killed"}

-----------------------------------------------------------------------------

(* Mutant: the name that was pushed is not reset. *)
NextVmKeepsName(s) ==
  IF s.vms = 0 THEN [s EXCEPT !.vms = 1]
  ELSE [s EXCEPT !.vms = @ + 1, !.out = Append(@, s.name)]

(* A -v: the name collected so far belongs to the machine before it. *)
NextVm(s) ==
  IF s.vms = 0 THEN [s EXCEPT !.vms = 1]
  ELSE [vms |-> s.vms + 1, name |-> NoSnapshot, out |-> Append(s.out, s.name)]

(* The body of the switch over the options. *)
TakeOption(s, option) ==
  IF option = "-v" THEN NextVm(s) ELSE [s EXCEPT !.name = option]

NoOptions == [vms |-> 0, name |-> NoSnapshot, out |-> <<>>]

(* The loop over the options: the snapshot files, by machine. *)
snapshot_Files(args) ==
  LET scan[n \in 0 .. Len(args)] ==
        IF n = 0 THEN NoOptions ELSE TakeOption(scan[n - 1], args[n])
  IN Append(scan[Len(args)].out, scan[Len(args)].name)

(* load_Snapshot; a file that does not exist leaves the machine alone. *)
load_Snapshot(content) == IF content = Absent THEN Constructed ELSE content

(***************************************************************************)
(* A configuration may lack the slice, which is then any int.  project.cc  *)
(* knows no option but -v.                                                 *)
(***************************************************************************)
Init ==
  /\ program \in [Vm -> Programs]
  /\ slice \in [Vm -> Slices]
  /\ opened \in [Vm -> BOOLEAN]
  /\ ended \in [Vm -> BOOLEAN]
  /\ options \in CommandLines
  /\ homework1 \in BOOLEAN
  /\ ~homework1 => \A n \in DOMAIN options : options[n] = "-v"
  /\ files \in [Files -> Saved \cup {Absent}]
  /\ first = [v \in Vm |->
                LET f == snapshot_Files(options)[v]
                IN IF f = NoSnapshot THEN Constructed ELSE load_Snapshot(files[f])]
  /\ vm = first
  /\ pos = [v \in Vm |-> 0]
  /\ eof = [v \in Vm |-> FALSE]
  /\ turn = 0
  /\ count = 0
  /\ process = "running"

-----------------------------------------------------------------------------

(* Mutant: the loop ends with the first stream that does. *)
OuterLoopEither ==
  /\ process = "running"
  /\ turn = 0
  /\ IF ~eof[1] /\ ~eof[2]
     THEN turn' = 1 /\ count' = 0 /\ UNCHANGED process
     ELSE process' = "finished" /\ UNCHANGED <<turn, count>>
  /\ UNCHANGED <<settings, vm, pos, eof, files>>

(* while (!instructionsfile1.eof() || !instructionsfile2.eof()) *)
OuterLoop ==
  /\ process = "running"
  /\ turn = 0
  /\ IF ~eof[1] \/ ~eof[2]
     THEN turn' = 1 /\ count' = 0 /\ UNCHANGED process
     ELSE process' = "finished" /\ UNCHANGED <<turn, count>>
  /\ UNCHANGED <<settings, vm, pos, eof, files>>

EndSlice(v) == turn' = (v + 1) % 3 /\ count' = 0

(* The slice is used up, without another getline. *)
SliceUsed(v) ==
  /\ process = "running"
  /\ turn = v
  /\ count >= slice[v]
  /\ EndSlice(v)
  /\ UNCHANGED <<settings, vm, pos, eof, files, process>>

(* getline succeeds: the stream is open and has another line. *)
HasLine(v) == opened[v] /\ pos[v] < Len(program[v])

(* Reading the last line of a file without a final newline sets eofbit. *)
GetLine(v) ==
  /\ pos' = [pos EXCEPT ![v] = @ + 1]
  /\ eof' = [eof EXCEPT ![v] = pos[v] + 1 = Len(program[v]) /\ ~ended[v]]
  /\ count' = count + 1

(* Mutant: a getline that fails does not end the loop of the slice. *)
NoLineLeftRetried(v) ==
  /\ process = "running"
  /\ turn = v
  /\ count < slice[v]
  /\ ~HasLine(v)
  /\ eof' = [eof EXCEPT ![v] = opened[v]]
  /\ UNCHANGED <<settings, vm, pos, turn, count, files, process>>

(* getline fails, and sets eofbit only in a stream that was opened. *)
NoLineLeft(v) ==
  /\ process = "running"
  /\ turn = v
  /\ count < slice[v]
  /\ ~HasLine(v)
  /\ eof' = [eof EXCEPT ![v] = opened[v]]
  /\ EndSlice(v)
  /\ UNCHANGED <<settings, vm, pos, files, process>>

(***************************************************************************)
(* What a line does to machine m: the machines that may result, and how    *)
(* the program goes on.  stoi throws for a malformed line, and project.cc, *)
(* which does not skip empty lines and has no SNAPSHOT, meets it there.    *)
(***************************************************************************)
Throws(line) ==
  line.op = "malformed" \/ (~homework1 /\ line.op \in {"empty", "SNAPSHOT"})

Outcomes(m, line) ==
  IF Throws(line) THEN {"killed"}
  ELSE IF line.op \in {"empty", "SNAPSHOT"} THEN {"running"}
  ELSE IF Exits(m, line) THEN {"exited"}
  ELSE IF MayTrap(m, line) THEN {"running", "killed"}
  ELSE {"running"}

After(m, line) ==
  IF line.op \in {"empty", "SNAPSHOT"} THEN m ELSE solve(m, line)

(* A file that does not open is reported, and stays as it was. *)
Written(m, line) ==
  {files} \cup
    IF line.op = "SNAPSHOT" THEN {[files EXCEPT ![line.file] = m]} ELSE {}

(* Mutant: the second loop, a copy of the first, still names vm1. *)
ProcessLineForFirst(v) ==
  /\ process = "running"
  /\ turn = v
  /\ count < slice[v]
  /\ HasLine(v)
  /\ GetLine(v)
  /\ LET line == program[v][pos[v] + 1]
     IN /\ process' \in Outcomes(vm[1], line)
        /\ IF process' = "running"
           THEN vm' = [vm EXCEPT ![1] = After(@, line)] /\ files' \in Written(vm[1], line)
           ELSE UNCHANGED <<vm, files>>
  /\ UNCHANGED <<settings, turn>>

(* Mutant: the test of the slice is off by one. *)
ProcessLineOnceMore(v) ==
  /\ process = "running"
  /\ turn = v
  /\ count <= slice[v]
  /\ HasLine(v)
  /\ GetLine(v)
  /\ UNCHANGED <<settings, vm, turn, files, process>>

(* getline succeeds and solve is called with the line. *)
ProcessLine(v) ==
  /\ process = "running"
  /\ turn = v
  /\ count < slice[v]
  /\ HasLine(v)
  /\ GetLine(v)
  /\ LET line == program[v][pos[v] + 1]
     IN /\ process' \in Outcomes(vm[v], line)
        /\ IF process' = "running"
           THEN vm' = [vm EXCEPT ![v] = After(@, line)] /\ files' \in Written(vm[v], line)
           ELSE UNCHANGED <<vm, files>>
  /\ UNCHANGED <<settings, turn>>

Next ==
  \/ OuterLoop
  \/ \E v \in Vm : SliceUsed(v) \/ NoLineLeft(v) \/ ProcessLine(v)

Spec == Init /\ [][Next]_vars /\ WF_vars(Next)

-----------------------------------------------------------------------------

(* Machine m after the first n lines of p, executed without any other. *)
Alone(m, p, n) ==
  LET after[k \in 0 .. n] == IF k = 0 THEN m ELSE After(after[k - 1], p[k])
  IN after[n]

(***************************************************************************)
(* Each machine is what its own program makes of what it started as, up to *)
(* the line it has reached: nothing of the other machine, of its slices or *)
(* of the snapshots taken on the way shows in it.                          *)
(***************************************************************************)
MachinesIsolated ==
  process \in {"running", "finished"} =>
    \A v \in Vm : vm[v] = Alone(first[v], program[v], pos[v])

(***************************************************************************)
(* While both programs have lines left the machines stay within a slice of *)
(* each other: machine 1 has begun as many slices as machine 2 or one more *)
(* (the two for loops in the body of the while loop).                      *)
(***************************************************************************)
Begun(v) == (pos[v] + slice[v] - 1) \div slice[v]

SlicesAlternate ==
  (\A v \in Vm : slice[v] > 0 /\ HasLine(v)) => Begun(1) - Begun(2) \in {0, 1}

(* The loop is left only when every line of both programs was executed. *)
FinishedMeansAll ==
  process = "finished" => \A v \in Vm : opened[v] /\ pos[v] = Len(program[v])

(***************************************************************************)
(* The program ends if both files opened and both slices are positive,     *)
(* programs that do not end in a newline and those that end with a slice   *)
(* included.  Otherwise an eofbit the loop waits for is never set.         *)
(***************************************************************************)
LoopEnds ==
  (\A v \in Vm : opened[v] /\ slice[v] > 0) ~> process # "running"

(***************************************************************************)
(* How many steps that can take: a line, or a getline that finds the end   *)
(* of the file, at most every fourth step.  Due tells how many steps there *)
(* are before the next of these: tests of the while loop, slices used up,  *)
(* and attempts to read a file that is at its end.                         *)
(***************************************************************************)
Unread(v) == Len(program[v]) - pos[v] + (IF eof[v] THEN 0 ELSE 1)
Reads(v, n) == n < slice[v] /\ Unread(v) > 0

DueAtTest == IF Unread(1) > 0 THEN 1 ELSE IF Unread(2) > 0 THEN 2 ELSE 0
DueIn2(n) == IF Reads(2, n) THEN 0 ELSE 1 + DueAtTest
DueIn1(n) == IF Reads(1, n) THEN 0 ELSE 1 + DueIn2(0)
Due == CASE turn = 0 -> DueAtTest [] turn = 1 -> DueIn1(count) [] turn = 2 -> DueIn2(count)

StepsLeft ==
  IF process = "running" THEN 4 * (Unread(1) + Unread(2)) + Due + 1 ELSE 0

LoopNearsEnd ==
  [][(\A v \in Vm : opened[v] /\ slice[v] > 0) => StepsLeft' \in 0 .. StepsLeft - 1]_vars

(***************************************************************************)
(* A machine starts from the last snapshot given after its own -v and      *)
(* before the next one; the first also from one given before every -v.     *)
(***************************************************************************)
Vs(args, n) == Cardinality({k \in 1 .. n : args[k] = "-v"})
Owner(args, n) == IF Vs(args, n) = 0 THEN 1 ELSE Vs(args, n)

(* The last of the first n options that gives machine v a snapshot. *)
Given(args, v, n) == {k \in 1 .. n : args[k] # "-v" /\ Owner(args, k) = v}
Latest(given) == CHOOSE k \in given : \A j \in given : j <= k
LastGiven(args, v, n) ==
  IF Given(args, v, n) = {} THEN NoSnapshot ELSE args[Latest(Given(args, v, n))]

SnapshotGoesToItsVm ==
  turn = 0 /\ pos = [v \in Vm |-> 0] =>
    \A v \in Vm : snapshot_Files(options)[v] = LastGiven(options, v, Len(options))

=============================================================================
