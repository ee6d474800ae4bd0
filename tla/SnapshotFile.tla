---------------------------- MODULE SnapshotFile ----------------------------
(***************************************************************************)
(* vmm::SnapshotService: the file Save writes, what a full disk or a crash *)
(* leaves of it, and what Load makes of that.                              *)
(*                                                                         *)
(* A file is the sequence of the fields in it: the name on a line, then    *)
(* numbers separated by white space.  A file that breaks off may end with  *)
(* a fragment of a field.  Neither Save nor Load tests the stream after it *)
(* was opened: both return true, whatever happened, unless the size Load   *)
(* reads is more than there is memory.                                     *)
(***************************************************************************)
EXTENDS Integers, Sequences

CONSTANTS
  Base,           \* of the digits a number is written with, 10 in the code
  NumberCount,    \* pc, hi, lo and the registers, 35 in the code
  IntHalf,        \* 2^31: an int32_t lies in -IntHalf .. IntHalf - 1
  SizeSpace,      \* 2^64, the values of a size_t
  ByteSpace,      \* 2^8, the values of a byte
  MaxMemory,      \* the most bytes std::vector::assign can get
  Lines,          \* texts without a line break
  EmptyLine,
  PageTables,
  Objects,        \* VmSnapshot objects Save and Load are called with
  NoBreak,        \* the rest of a name that is one line
  Unreadable,     \* text operator>> reads no number from
  None            \* no file, no call yet

Magnitude(v) == IF v < 0 THEN -v ELSE v

(***************************************************************************)
(* The name of a machine, any text: its first line, and what follows a     *)
(* line break as operator>> would find it, numbers and other text.         *)
(***************************************************************************)
Name == [line : Lines, rest : Seq(Int \cup {Unreadable}) \cup {NoBreak}]

(* pc and the size of the memory are read into a size_t, the others an int. *)
Unsigned(k) == k \in {2, NumberCount + 2}

(* A number operator>> reads into the variable of field k without failing. *)
Fits(k, v) ==
  IF Unsigned(k) THEN Magnitude(v) < SizeSpace ELSE v \in -IntHalf .. IntHalf - 1

VmSnapshot ==
  [vmName : Name, numbers : [1 .. NumberCount -> Int], pageTable : PageTables,
   memoryBytes : Seq(0 .. ByteSpace - 1)]

ASSUME SnapshotFileAssumption ==
  /\ Base \in Nat \ {0, 1}
  /\ NumberCount \in Nat
  /\ ByteSpace \in Nat \ {0}
  /\ IntHalf \in Nat /\ ByteSpace <= IntHalf
  /\ SizeSpace \in Nat
  /\ MaxMemory \in 0 .. SizeSpace - 1
  /\ EmptyLine \in Lines
  /\ Unreadable \notin Int

(* A pc is not negative, and the memory of a machine has been obtained. *)
ASSUME ObjectsAssumption ==
  /\ Objects \subseteq VmSnapshot
  /\ \A s \in Objects :
       /\ \A k \in 1 .. NumberCount :
            Fits(k + 1, s.numbers[k]) /\ (k = 1 => s.numbers[k] >= 0)
       /\ Len(s.memoryBytes) <= MaxMemory

VARIABLES
  disk,    \* the fields in the file
  last,    \* what Save was called with last (history)
  given,   \* the object Load was called with last (history)
  object,  \* that object when Load was left
  answer   \* how Load was left: "none", "true", "false" or "thrown"

vars == <<disk, last, given, object, answer>>

-----------------------------------------------------------------------------

Rest(name) == IF name.rest = NoBreak THEN <<>> ELSE name.rest

(* The name is written as it is: its rest stands where numbers should. *)
NameFields(name) == <<name.line>> \o Rest(name)

(* Mutant: hi and lo are written in the wrong order. *)
FieldsSwapped(s) ==
  NameFields(s.vmName)
    \o [k \in DOMAIN s.numbers |->
          s.numbers[IF k = 2 THEN 3 ELSE IF k = 3 THEN 2 ELSE k]]
    \o <<Len(s.memoryBytes)>> \o s.memoryBytes

(* Everything Save writes. *)
Fields(s) ==
  NameFields(s.vmName) \o s.numbers \o <<Len(s.memoryBytes)>> \o s.memoryBytes

(* What may be read of a number whose last digits, or all, are missing. *)
Leading(v) ==
  LET left[k \in 0 .. Magnitude(v)] ==
        IF k = 0 THEN Magnitude(v) ELSE left[k - 1] \div Base
      parts == {left[k] : k \in 1 .. Magnitude(v)} \ {0}
  IN IF v < 0 THEN {-n : n \in parts} \cup {Unreadable} ELSE parts

FragmentsOf(f, k) ==
  IF k = 1 THEN Lines
  ELSE IF f[k] = Unreadable THEN {Unreadable}
  ELSE Leading(f[k])

(* The files that break off before f is complete. *)
Torn(f) ==
  {SubSeq(f, 1, k) : k \in 0 .. Len(f) - 1}
    \cup UNION {{Append(SubSeq(f, 1, k - 1), v) : v \in FragmentsOf(f, k)} :
                  k \in DOMAIN f}

Readable(k) == disk[k] # Unreadable /\ Fits(k, disk[k])

(***************************************************************************)
(* What v becomes in the variable of field k: a negative number wraps in a *)
(* size_t, one out of range is replaced by the nearest of an int or by the *)
(* greatest of a size_t.                                                   *)
(***************************************************************************)
Converted(k, v) ==
  CASE Fits(k, v)  -> IF Unsigned(k) /\ v < 0 THEN v + SizeSpace ELSE v
    [] ~Fits(k, v) -> IF Unsigned(k) THEN SizeSpace - 1
                      ELSE IF v < 0 THEN -IntHalf ELSE IntHalf - 1

(* Mutant: after a number that cannot be read the stream is cleared. *)
GotAfterClear(k, value) ==
  IF k > Len(disk) THEN value
  ELSE IF disk[k] = Unreadable THEN 0
  ELSE Converted(k, disk[k])

(***************************************************************************)
(* in >> value for field k of the file: 0 if it is no number, and no       *)
(* change of value once a field could not be read, or the file has ended.  *)
(***************************************************************************)
Got(k, value) ==
  IF k > Len(disk) \/ \E j \in 2 .. k - 1 : ~Readable(j) THEN value
  ELSE IF disk[k] = Unreadable THEN 0
  ELSE Converted(k, disk[k])

(* std::getline empties the string it is given first. *)
NameGot ==
  [line |-> IF disk = <<>> THEN EmptyLine ELSE disk[1], rest |-> NoBreak]

(* Mutant: without a size in the file the object keeps the one it has. *)
SizeGotOrKept(s) == Got(NumberCount + 2, Len(s.memoryBytes))

SizeGot(s) == Got(NumberCount + 2, 0)

(* The loop of Load over the bytes; each is read as an int and cut. *)
MemoryGot(s) ==
  [b \in 1 .. SizeGot(s) |-> Got(NumberCount + 2 + b, 0) % ByteSpace]

(* What Load makes of the object s; the page table is not in the file. *)
Loaded(s, memory) ==
  [vmName |-> NameGot,
   numbers |-> [k \in 1 .. NumberCount |-> Got(k + 1, s.numbers[k])],
   pageTable |-> s.pageTable,
   memoryBytes |-> memory]

-----------------------------------------------------------------------------

Init ==
  /\ disk = None
  /\ last = None
  /\ given = None
  /\ object = None
  /\ answer = "none"

NothingLoaded == given' = None /\ object' = None /\ answer' = "none"

(* The file cannot be opened, and stays as it was. *)
SaveFails == NothingLoaded /\ UNCHANGED <<disk, last>>

(***************************************************************************)
(* Save opens the file, which empties it, and writes.  Some of it may not  *)
(* reach the disk, because that is full, or because the process ends in    *)
(* the middle of Save and leaves what was flushed until then.              *)
(***************************************************************************)
Save(s) ==
  /\ disk' \in {Fields(s)} \cup Torn(Fields(s))
  /\ last' = s
  /\ NothingLoaded

(* There is no file: Load returns false and leaves the object alone. *)
LoadFails(s) ==
  /\ disk = None
  /\ given' = s
  /\ object' = s
  /\ answer' = "false"
  /\ UNCHANGED <<disk, last>>

(* The size is more than there is memory: Load has read the numbers only. *)
LoadThrows(s) ==
  /\ disk # None
  /\ SizeGot(s) > MaxMemory
  /\ given' = s
  /\ object' = Loaded(s, s.memoryBytes)
  /\ answer' = "thrown"
  /\ UNCHANGED <<disk, last>>

Load(s) ==
  /\ disk # None
  /\ SizeGot(s) <= MaxMemory
  /\ given' = s
  /\ object' = Loaded(s, MemoryGot(s))
  /\ answer' = "true"
  /\ UNCHANGED <<disk, last>>

Next ==
  \/ SaveFails
  \/ \E s \in Objects : Save(s) \/ Load(s) \/ LoadThrows(s) \/ LoadFails(s)

Spec == Init /\ [][Next]_vars

-----------------------------------------------------------------------------

(* Load found a file and got as far as the memory. *)
WasRead == answer \in {"true", "thrown"}

(***************************************************************************)
(* Load of a complete file gives what was saved, whatever the object held  *)
(* and however much memory it had, but for the page table.  Of a name      *)
(* followed by nothing but line breaks it gives the first line.            *)
(***************************************************************************)
WholeFileRestores ==
  WasRead /\ disk = Fields(last) /\ Rest(last.vmName) = <<>> =>
    /\ answer = "true"
    /\ object = [last EXCEPT !.vmName = [line |-> last.vmName.line, rest |-> NoBreak],
                             !.pageTable = given.pageTable]

(***************************************************************************)
(* A name that moves no field to another's place: it has one line, or none *)
(* but empty ones after the first, or its rest begins with other text than *)
(* a number, which ends the reading.  A number there is taken for the pc,  *)
(* the pc for hi, and in the end a register for the size of the memory:    *)
(* nothing below holds of such names.                                      *)
(***************************************************************************)
Aligned(name) == Rest(name) = <<>> \/ Rest(name)[1] = Unreadable

(* Of what is left of v no more than v itself can be read, with its sign. *)
WithinOf(v, got) ==
  IF v < 0 THEN got \in v .. 0 ELSE got \in 0 .. v

(***************************************************************************)
(* Load of an incomplete file returns true.  What it leaves in the object, *)
(* if the name is aligned, is the numbers of the last Save up to some      *)
(* point and the object's own after it; one number in between may be       *)
(* neither, but is no larger than the one saved: a pc never lies behind    *)
(* the one saved, and no number lands in another's place.  Nothing is left *)
(* of an older file.                                                       *)
(***************************************************************************)
TornNumbersAreAPrefix ==
  WasRead /\ Aligned(last.vmName) =>
    \E k \in 0 .. NumberCount :
      /\ \A j \in 1 .. k : object.numbers[j] = last.numbers[j]
      /\ \A j \in k + 2 .. NumberCount : object.numbers[j] = given.numbers[j]
      /\ k < NumberCount =>
           \/ object.numbers[k + 1] = given.numbers[k + 1]
           \/ WithinOf(last.numbers[k + 1], object.numbers[k + 1])

(***************************************************************************)
(* If the name is aligned Load does not throw, and the memory of the       *)
(* loaded object is no larger than the one saved and has nothing of the    *)
(* object's own: its bytes are those saved up to some point and 0 after    *)
(* it, with at most a smaller one in between.                              *)
(***************************************************************************)
TornMemoryIsAPrefix ==
  WasRead /\ Aligned(last.vmName) =>
    /\ answer = "true"
    /\ Len(object.memoryBytes) <= Len(last.memoryBytes)
    /\ \E k \in 0 .. Len(object.memoryBytes) :
         /\ \A b \in 1 .. k : object.memoryBytes[b] = last.memoryBytes[b]
         /\ \A b \in k + 2 .. Len(object.memoryBytes) : object.memoryBytes[b] = 0
         /\ k < Len(object.memoryBytes) =>
              WithinOf(last.memoryBytes[k + 1], object.memoryBytes[k + 1])

=============================================================================
