# Verification of the virtual machine monitor

Formal models of the hypervisor in this repository, in TLA+: modules that model
its components, TLC configurations that check them on small instances, and
theorems the TLA+ proof system checks for every value of the constants.

Paths are relative to the repository (`src/vm/...`, `include/...`, `docs/...`,
and the coursework files at its root).

## Inventory

The repository holds the same project twice: a modular hypervisor (`include/`,
`src/`, `tests/`) and four single-file coursework milestones (`project.cc`,
`homework1.cc`, the migration client and server of homeworks 2 and 3).

| Component | State | Operations | Interacts with |
|---|---|---|---|
| `VirtualMachine` | program, registers, pc, memory, status, last fault, migration intent | `RunForSlice`, `Snapshot`, `Restore`, `ClearMigrationIntent` | owns a `VirtualMemory`; called by `HypervisorCore` and `MigrationService` |
| `VirtualMemory` | bytes, page table, TLB | `ReadWord`, `WriteWord`, `MapPage`, `RestorePageTable`, mutable `Bytes()` | called by lw, sw and `Restore` |
| `IScheduler` and its three policies | cursor; three queues | `PickNext` | called once per iteration of `Run` |
| `HypervisorCore` | vector of machines, metrics | `AddVm`, `Run` | scheduler, machines, migration service, metrics |
| `MigrationService`, `MigrationProtocol`, `StateSerializer` | none but the packet | `PreCopyMigrate`, `SendWithRetry`, `Serialize`, `Deserialize` | runs the machine, then the transport `IMigrationTransport` |
| `SnapshotService` | a file | `Save`, `Load` | no caller in the repository |
| `MetricsTracer` | counters by machine name, migration time | `RecordDispatch`, `RecordInstructions` | called by `Run` |
| instruction parser, `main` | none | `ParseProgram`, `BuildScheduler` | input of everything else |
| coursework | registers, pc, file streams, sockets | the loops of the four programs | client and server over TCP |

Hard behaviours: the hypervisor is single-threaded, so what is hard is not
preemption but sequences of calls. A slice ends in six ways and the status it
leaves steers every later scheduling decision; a migration runs the machine
again from inside the loop that is accounting for it; MIGRATE never advances the
pc, so progress of the others rests on the scheduler; queues outlive calls of
`Run`; a cached translation outlives the page table it came from; a packet may be
lost, duplicated or damaged, and the sender is told nothing reliable about it; a file
or a message may end anywhere.
`PROJECT.json` lists these hazards at their lines with the properties that watch them.

What makes each component correct:

- **VirtualMachine**: the status after a slice agrees with where the pc is; a
  terminal machine executes nothing; a restored machine goes on as the original.
- **VirtualMemory**: the TLB is invisible; a word whose pages are adjacent in the
  store, as the constructor maps them, is found at its virtual address, also across
  the end of a page.
- **Schedulers**: no live machine is lost, served twice, starved or made to wait
  beyond a bound; priorities are respected.
- **HypervisorCore**: an iteration of `Run` is one atomic slice of one machine,
  every retired instruction is counted once, `Run` returns when it can.
- **Migration**: the two hosts have a migrated machine at the same instruction,
  damage is rejected, and every call ends.
- **Snapshot file**: a complete file restores; an incomplete one mixes saved and old
  values in one way only.
- **Coursework**: the two machines do not mix, the loop ends exactly when both
  programs are done, a migrated machine runs on one side only and, if all of its
  message arrives, resumes where it stopped.

## The plan

Modules in the order they were planned, most important behaviour first.

| Module | Builds on | Role | State |
|---|---|---|---|
| `VmLifecycle` | | control state of a machine, `RunForSlice` one instruction at a time | done |
| `HypervisorCore` | `VmLifecycle` | `AddVm`, `Run`, `PreCopyMigrate` under any scheduler | done, proved |
| `SlicedMachines` | | abstract specification: one slice is one step | done; `HypervisorCore` and `VirtualMachine` implement it |
| `Schedulers` | | the three `PickNext` | done |
| `ScheduledHypervisor` | `HypervisorCore`, `Schedulers` | `Run` with each policy | done, the three policies proved |
| `PagedMemory` | | abstract specification: memory without a TLB | done |
| `VirtualMemory` | `PagedMemory` | page table, TLB, word access | done, proved |
| `VirtualMachine` | `PagedMemory`, `SlicedMachines`, `InstructionParser` | the parsed text, registers, every instruction, `Snapshot`, `Restore` | done, proved |
| `StateSerializer` | | packet, checksum | done, proved |
| `MigrationProtocol` | | `SendWithRetry` over an unreliable transport | done, safety proved |
| `LegacyMachine` | | `solve` of the coursework | done, proved |
| `LegacyHypervisor` | `LegacyMachine` | `project.cc`, `homework1.cc` | done, safety proved |
| `LegacyMigration` | `LegacyMachine` | migration client and server | done, safety proved |
| `MigratingHypervisor` | `HypervisorCore`, `MigrationProtocol` | `Run` on the source, the transfer over the network, the machines on the target | done, safety proved |
| `SnapshotFile` | | the file `Save` writes, what a crash or a full disk leaves of it, and what `Load` makes of that | done, proved |
| `InstructionParser` | | `ParseProgram`, from words to instructions; an instance of it is in `VirtualMachine` | done, proved there |

## The models and the code

**`VmLifecycle`**. `program`, `pc`, `status`, `pending` are the members of
`VirtualMachine`, as functions of the machine's index. An instruction is its
outcome: it retires, traps, asks to migrate or halts. There are no jumps, so a
machine leaves an instruction at most once and a program is a sequence of
outcomes; `VirtualMachine`'s run shows that nothing is lost by this. `call`,
`cur`, `budget`, `ran` are the locals of the one `RunForSlice` that may be in
progress: `RunForSlice` is its entry with the early return, `ExecuteRetire`,
`ExecuteTrap`, `ExecuteMigrate`, `ExecuteHalt` one pass of the loop each,
`FinishSlice` what follows the loop, `TakeResult` the caller's use of the result.

**`HypervisorCore`**. `phase` says where the caller of `Run` is. `Leave`,
`SkipPick`, `Dispatch` are the paths of the loop before `RunForSlice` (break,
continue, dispatch), `RecordSlice` the accounting after it, `PreCopyRound`,
`PreCopyReturn`, `TransferAndClear` the migration. `PickNext` may return any
index: what is checked and proved here holds for every scheduler. `config` and
`program` hold from the start what the calls of `AddVm` will pass.

**`Schedulers`, `ScheduledHypervisor`**. `RoundRobinPick`, `PriorityPick` and
`MlfqPick` relate the scheduler's members and the statuses to the index that is
returned. The scan of a vector is written as "the first index such that".
`policy` is the name `main` takes from the command line.

**`VirtualMemory`**. One action for each public operation; the maps of the code
are functions with `Unmapped` where there is no entry. `reply` holds what the
last access answered, so that a wrong answer is visible in the state. `bytes` takes
the size of the vector assigned to it (`AssignBytes`, from `Restore`), and the bounds
check of `Translate` is against the size it has at that moment; the page table keeps
its entries. `Sizes` are the sizes it may take.
`PagedMemory` is the same interface without a TLB.

**`InstructionParser`**. A line is the opcode its first word names, a blank or
comment line, or an unknown word, with the words after it; a word is what
`ParseRegister` and `operator>>` read it as. `FieldOf` is what the parser stores
in a field: 0 when the word is missing or does not parse, the nearest `int32_t`
for an immediate out of range, and an exception for `$` followed by no number.
`AddLine` is a pass of the loop of `ParseProgram`.

**`VirtualMachine`**. `text` is the program as written; the machine starts with
what the parser makes of it, unless parsing throws, which ends `main`. A machine
is a record, `ExecuteOne` and `RunForSlice` are
operators on it, and `Turn` is a pass of the loop in `RunForSlice`. `Spelling` is
the line a programmer writes for an instruction. The specification has a source and a target machine that run,
one transfer of the state by `Snapshot` and `Restore`, directly, through a packet
or through a file, and then runs both in step to compare them. Signed overflow is
undefined in C++: it wraps, and the division of the least integer by -1 may also
kill the process.

**`StateSerializer`**. Fields have one byte each, so that every snapshot up to the
bounds can be enumerated; the hash is FNV-1a on `HashBits` bits, and `Xor` its
exclusive or, from the lowest bit up. `Damage` changes one byte, the checksum or the
version.

**`MigrationProtocol`**. `sendPhase` and `attempt` are the control of
`SendWithRetry`. The transport is behind the interface `IMigrationTransport`: a set of
packets that are lost, delayed and delivered repeatedly, and a call that may return
either answer whatever became of its packet. `LocalTransport` of `main`, which answers
true and delivers nothing, is one of its behaviours; so nothing is claimed of what a
success says about the target. A damaged packet counts as lost, because `Deserialize`
refuses it; that it does is what `StateSerializer` is about.

**`MigratingHypervisor`**. The two modules above in one state. Where
`HypervisorCore` has the transfer as the one step `TransferAndClear`, here
`SendSnapshot` calls `SendWithRetry` with a snapshot of the machine, the steps of
the protocol follow, and `MigrationEnds` returns to `Run`, whatever the result.
`target` is what the receiver has restored; `Deliver` restores a packet over it,
and `RunOnTarget` gives a machine on the target a slice. A snapshot is the machine
and its pc, since the other data is a function of both (`machine` checks that). Both
hosts run a migrated machine, on its MIGRATE, which neither gets past.

**`SnapshotFile`**. A file is the sequence of its fields: a name, then numbers.
A name is its first line and the rest, as numbers and other text, since `Save` writes
it as it is and `Load` reads the rest as numbers (`NameFields`).
`Save` leaves all of it, or one of the files in `Torn`, which break off between two
fields or inside one. `Load` has the stream's semantics: `getline` empties its
string, a number that cannot be read gives 0 and fails the stream, one out of range
the nearest value (`Converted`; a negative one wraps in the `size_t` of pc and size),
and a failed or ended stream leaves every later variable as it was, here the fields of
the object `Load` was called with. A size that is more than there is memory ends
`Load` with an exception (`LoadThrows`).

**`LegacyMachine`, `LegacyHypervisor`, `LegacyMigration`**. A line of assembly is
a record, and the bits of its operands are recursive functions. `LegacyHypervisor` has the file streams with their eofbit, which decides
when the loop ends; the variable `homework1` tells the two programs apart. The file of
a `SNAPSHOT` line may not open and stay as it was (`Written`).
`LegacyMigration` has the client's loop, started afresh or from a snapshot
(`Starts`), `SNAPSHOT` lines, `MIGRATE` with its three calls that may fail, and the
server's single `accept` and single `recv`, each of which may fail and end it. A
connection succeeds as long as the server's socket is open: `connections` counts them,
and what is sent by a second one is never received. `recv` may return a part of the
message or nothing; what the server parses then is one of `Fragments`, any registers,
any pc and any file, because the buffer was not initialised and is not terminated, and
reading on behind it may end the server.

Definitions whose comment begins with "Mutant:" are variants of the definition
they precede, with an error a programmer could make. They belong to no
specification; `PROJECT.json` pairs each with the property that detects it.

## The runs

| Run | Instance | What it shows |
|---|---|---|
| `hypervisor` | 2 machines, all programs of up to 2 outcomes and some of 3, slices 0 to 2, names that may collide | whatever index is picked: statuses and metrics are right between slices, a machine that never migrates gets its slices whole, a slice is atomic, and so a terminal machine executes nothing more |
| `schedulers` | up to 3 machines that fault, halt or migrate forever, the three policies, slices 0 to 2 or three priorities with the floor | queues lose and duplicate nothing, dispatches differ by at most 1 under round robin and 3 under MLFQ, the wait for a turn is bounded, priorities are respected, nothing starves, `Run` returns |
| `precopy_executes` | as `hypervisor` | violated: see findings |
| `memory` | pages and words of 2 bytes, a store of 3 that an assignment makes one of 2, 3 or 5, addresses that wrap | the TLB is coherent and invisible; a word whose pages are adjacent is where its address says |
| `machine` | 2 registers of 2 bits, texts of 3 of 16 instructions and texts of 2 of 9 malformed lines | a program is parsed as written, a restored machine continues; outcomes suffice for the hypervisor's model |
| `migrated_memory` | as `machine` | violated: see findings |
| `serializer` | names and memories of up to 2 bytes, bytes of 3 values, a hash of 4 bits | round trip; every single change is rejected |
| `migration` | 2 machines with up to three MIGRATE in a row, 3 attempts, 3 packets in transit, any number of migrations | source and target have a migrated machine at the same instruction, every migration returns, and each step of the source brings its end nearer |
| `snapshot_file` | 4 numbers of up to 3 binary digits, memories of 0, 1 and 3 bytes, names with a line break before nothing, other text and numbers, files cut at any digit | a complete file restores; a torn one mixes saved and old values in one way only; both unless the name puts a number on a second line |
| `legacy_hypervisor` | two programs out of six, slices 0 to 2, files that fail to open or lack the last newline, snapshots | isolation, alternation, the loop ends exactly with the programs, `-s` goes to its machine |
| `legacy_migration` | all programs of up to 4 of 8 lines, every opcode on all pairs of 3-bit values, started afresh or from a snapshot; calls that fail, messages in part, a second connection | the registers of what arrived whole resume, and `hi` and `low` from the next mult or div on; harmless failure, never on both sides, both programs end, exact products and divisions |
| `legacy_empty_lines` | as `legacy_migration` | violated: see findings |

Bounds, and why they are enough:

- `MaxVms` 2, and 3 with the schedulers. With two machines a scheduler can starve,
  skip and favour one; MLFQ needs three to have all its queues in use at once.
  `MCInit` gives the machines of `schedulers` and `migration` distinct names, which
  their properties are about; `hypervisor` has colliding ones.
- Programs of up to 3 outcomes with slices 0, 1, 2: a program shorter than, equal
  to and longer than a slice, and every outcome first, in the middle and last.
- `MaxDispatch` 4 or 6 saturates the dispatch counters so that a machine that
  migrates forever has finitely many states. The comparisons of counters look at
  differences of at most 3 and are exact until a counter reaches the bound;
  saturation only brings counters closer, so it can hide a violation, never invent
  one, and each scheduler has gone through all its queue positions by then. `PreCopyBudget` 10 and
  `PreCopyRounds` 2 are the code's numbers.
- `PriorityFloor` 0 stands for -1000000: only the comparison with it matters.
- Memory: a store that ends in the middle of a page, a physical page beyond it
  and one whose address wraps are the boundaries of `Translate`. Of the sizes in
  `Sizes` one is smaller than the constructor's and ends where a page does, so that
  a page that was mapped is outside, and one is larger, so that a page that was
  outside is half inside.
- The 4-bit hash keeps the structure of FNV-1a (xor a byte, multiply by an odd
  prime). Single-byte damage is rejected because both are one-to-one, at any
  width; damage of several bytes may collide, as in the code.
- `MaxInFlight` 3 with 3 attempts lets the packets of two calls overtake each
  other. Three MIGRATE in a row are one more than two pre-copy rounds could step
  over, so a round that did would be seen.
- `Base` 2 instead of 10 and numbers of 3 digits: a file can end before, between
  and after the digits of a number. `NumberCount` 4 stands for 35: one register.
  `IntHalf` 8, `SizeSpace` 32 and `MaxMemory` 3 leave room for numbers that fit a
  size_t and no int, that fit neither, and for sizes there is no memory for.
- `MCFragments` has an empty machine, the beginning of a message without its file, and
  two that are not of the message at all, with a negative pc and one behind the end of
  the file; the theorems are about any set of them.
- Registers of 2 and 3 bits have the least integer, -1, 0 and overflow.

The runs of `VirtualMachine` and of the coursework allow a state without
successor: a process that ended, or was killed, has none.

## Fairness

- `ScheduledSpec`: weak fairness of `Progress`, the next step of the thread that
  is inside `Run`. Nothing else runs in the process, so the thread always takes
  its next step; nobody is obliged to call `AddVm` or `Run`.
- `MigrationSpec`: weak fairness of `SourceStep`, the thread in `Run`, which is
  the sender too. Its steps include the return of the transport's calls, which the
  interface requires and the code has no time limit for; nothing is assumed of what
  they return, of the packets or of the target. `MCSpec` is the same specification
  with fewer initial states. `ProtocolSpec` and `SnapshotFile` state no fairness,
  and no liveness is checked of them.
- `LegacyHypervisor`: weak fairness of its only process. `LegacyMigration`: weak
  fairness of the client's and of the server's steps; whether the server is ever
  started is left open, and a connection may fail each time.

## What is proved

Every theorem holds for every value of the constants that satisfies the
assumptions in the module that declares them (`HypervisorAssumption`,
`ProgramsAssumption`, `PolicyAssumption`, `MemoryAssumption`,
`ProtocolAssumption`, `MigrationAssumption`, `SnapshotFileAssumption`,
`SerializerAssumption`,
`VirtualMachineAssumption`, `LegacyAssumption`, `LegacyHypervisorAssumption`,
`LegacyMigrationAssumption`): that sizes are natural numbers, programs are
sequences of outcomes or lines, a word is no longer than a page, a command line of
the coursework names two machines, `Unmapped` is no page, the hash is multiplied by
an odd number, and the like.

Induction over numbers is a lemma where it is needed: a set of natural numbers that
is not empty has a least element (`Least`), so a fact about 0 that each number hands
on to the next holds of all of them (`UpTo`). The facts are given as sets, since a
lemma cannot take an operator. With these the recursive functions of the models (the
loop of a slice, the loop of the parser, a program run line by line, powers and bits)
are shown to exist and to satisfy their equations.

- **`HypervisorCoreProofs`**. `SettledBetweenSlices` and `MetricsExact` speak of
  the top of the loop only, so they say nothing a step inside a slice could
  preserve. The inductive invariant `IInv` adds `ControlInv` (which call is open
  in which phase), `MachineInv` (machines nobody works with are settled),
  `SliceInv` (where an open slice began, that it retired only what the code says,
  and why its loop was left), `PreCopyInv` (a machine in pre-copy is on its
  MIGRATE and retires nothing) and `MetricsInv` (the counters lag by the open
  slice). `PreCopyInv` is the reason the metrics are exact although the rounds of
  `PreCopyMigrate` drop their counts. From it follow `TypeCorrect`, `Settled`,
  `Metrics`, `TerminalStays`, and `Atomic`: `HypervisorCore` implements
  `SlicedMachines` under the mapping that takes a machine in the middle of a slice
  back to where it began. `WholeSlices`: `SlicesAreWhole`, whose invariant `WholeInv`
  weighs the dispatches of a machine against what it retired and, while a slice of it
  is open, that slice in full, for then nothing is known of how it ends; `NewNames`
  says that a name no machine has was never dispatched. `IterationsEnd`:
  `IterationEnds`, since `Left` decreases in each step (`StepNearsEnd`).
- **`CompositionProofs`**, for `ScheduledHypervisor`. `Implements`: under each policy the hypervisor
  is a `HypervisorCore`, so all of the above holds. `HighestFirst`:
  `PriorityRespected`, which is not inductive because `AddVm` may add a more
  important machine than one that ran; `NoneHalfway` says that this happens
  outside `Run`, where every machine that ran is over. `RoundRobinIsFair`: under round robin
  `DispatchesBalanced` holds for any number of machines. Its invariant `TurnsTaken`
  orders the machines as the cursor will meet them: whoever has its turn sooner is at
  most one dispatch behind and never ahead. `FirstInTurn` says of `PickNext`'s modulo
  that it returns the first in that order, `TurnPasses` that this one is then last.
  `NoneLostOrTwice`: `QueuesHoldAlive`, and with it `Balanced`: `DispatchesBalanced`
  under round robin and MLFQ, for any number of machines. A queue entry on its own says
  nothing about dispatches, so the invariant `MlfqInv` has two parts: every machine
  that is not over is in exactly one of the three queues, once (`InOneQueue`), and for
  each two of them the queues they are in, and their order in the low one, bound how
  far their dispatches are apart (`PairGap`). Machines added after the queues were
  built are in none of them until all run empty (`Unplaced`), and were never
  dispatched. `BoundedWait`: `WaitIsBounded` follows from `SlicesAreWhole`, which is
  about the hypervisor, and `DispatchesBalanced`, which is about the scheduler.
- **`VirtualMemoryProofs`**. `TlbCoherent` with the types is inductive;
  `Transparent` shows that `VirtualMemory` implements `PagedMemory`, for pages,
  words and address spaces of every size. `WordSeen`: `WordSeenAtItsAddress` follows
  from `WordInv`, which says where the last word moved lies in the store, and from
  `WordInStore`, that a word which crosses into a page adjacent in the store is where
  the page table puts each of its bytes. It needs a word to be no longer than a page.
- **`CompositionProofs`**, for `MigratingHypervisor`. First the protocol on its own: a result
  stands only while no call is open, and each failure has its count of attempts; with
  the types this is inductive (`DeliveryInv`) and gives `Failure`, over `ProtocolSpec`.
  Then the composition. `MigratingIsCore` and `MigratingIsProtocol`: the
  composition implements both of its parts, so the theorems above hold of it. The
  second needs the invariant: what is sent is a snapshot of a machine in pre-copy.
  `HostsAgree` speaks of the target only and is not inductive; `AgreeInv` adds that a
  packet in transit is fresh (`WireInv`), that `Run` waits while `SendWithRetry` is at
  work (`TransferInv`), and, in `OnMigrate`, why neither host can drift: a machine
  with a packet or a copy anywhere is on its MIGRATE, which retires nothing. From it
  follows `Agreement`. `MigrationsEnd`: `MigrationNearsEnd`, from `IterationEnds` up to the transfer and from the attempts
  left within it.
- **`StateSerializerProofs`**. A packet is the one sent or differs from it in one place
  (`PacketInv`), which `PacketInductive` shows of `Spec`. `Returns`: `RoundTrip`, since
  `Layout` says where in the payload Serialize puts each field and `Extracted` that
  Deserialize reads it there. `Rejects`: `DamageRejected`, because a changed byte
  changes the hash behind it (`XorIsInjective`, bit by bit) and every later byte keeps
  two different hashes different: `ProductIsInjective` says that multiplication by an
  odd number is one-to-one modulo a power of two. It would not be for an even one, so
  the assumption on `Prime` is needed.
- **`SnapshotFileProofs`**. `Layout` says where in the file each field is, and
  `WholeFile` that `Load` finds it there, for any number of registers and any memory.
  For files that broke off `DiskInv` says that the disk holds what the last `Save`
  wrote or the beginning of it, `TornIsCut` that such a beginning is a number of whole
  fields and perhaps a piece of the next, and `GotCut` what a stream makes of that.
  `LeadingWithin` says that a piece of a number, as `Load` reads it, is no larger than
  the number: it cannot pass for a memory size beyond the one saved. `TornNumbers` and
  `TornMemory` follow for every name that is `Aligned`: of one line, followed by empty
  lines, or by text that is no number, after which `Load` reads nothing more
  (`GotBroken`). For the others they are false: see what was noticed below.
- **`VirtualMachineProofs`**. `RestoredContinues` compares two machines one of which is
  Ready while the other may be over, so it is not preserved by itself. `PairInv` adds
  that their data agree (`Alike`: all that a snapshot carries, the page table only if
  the program uses memory) and that a machine which is over would stop again where it
  stands (`Repeats`), which is how the restored one gets there. `ExecuteTwins`,
  `LoopTwins` and `SliceTwins` show that nothing outside `Alike` steers a run: no
  instruction reads the last fault or the migration intent, and a division that traps
  has changed nothing. With `PairInductive` this gives `Continues`. `Parsed`:
  `ParsedBack` reads every well-formed line back to the instruction it was written for,
  `ReadAsWritten` goes through a text line by line, and `SpacingIsInvisible` through a
  copy with empty lines. `Suffices`: the machine implements `SlicedMachines` under the
  mapping that replaces each instruction by its outcome. The outcomes are computed by
  a replay from the first instruction, so the invariant `Replays` says that a machine
  between slices has the data of a replay up to its pc, and `Stages` what the turns of
  one slice retire and why they end.
- **`LegacyHypervisorProofs`**. `Isolated`: while the program runs each machine is
  where its own lines have taken it (`IsolationInv`). `FinishedIsDone`: an eofbit is set
  only behind the last line of a file that opened (`EofInv`). `Alternate`: while both
  programs have lines left the lines executed are those of some number of whole rounds
  and at most one slice begun on each side (`RoundInv`). `SnapshotsGoHome`: by induction
  over the options, the names collected are those last given to the machine whose `-v`
  came last, and to those before it (`Held`), for command lines of any length.
  `LoopGetsDone`: `LoopNearsEnd`, because a step reads (`ReadingReads`) or brings the
  next one that does nearer (`WaitingEnds`), and at most three in a row read nothing
  (`DueIsSmall`).
- **`LegacyMigrationProofs`**. `FailuresAreHarmless`: the client is what its program has
  made of it, whatever calls failed (`ClientInv`). `Resumes`: what was sent is the
  client's state (`MessageInv`), and if all of it is received by the first connection
  the server is from there on the trail of the client (`TrailInv`): its registers,
  because a line reads nothing but the registers (`RegistersAlone`) and no empty line
  was left uncounted, and `hi` and `low` once a mult or a div has set them from the
  registers (`WordsAlone`). `OneSide`: `NeverOnBothSides`. `WholeProduct` and
  `EuclideanDivision` hold for registers of every width, from the lemmas about powers
  of two, sums of bits and halves of a product (`MultIsWhole`, `DivIsEuclid`).
  `BothGetDone`: `BothNearEnd`, step by step of client and server. All
  rest on `Typed`: what `solve` computes fits the registers.

Only model-checked: the liveness properties (`RunReturns`,
`NeighboursCannotStarve`, `MigrationReturns`, `LoopEnds`, `BothEnd`), because the
proof system has no support for fairness and ENABLED. Of the last three, and of a
single iteration of `Run`, the half that is a matter of safety is stated on its own
and proved: a natural number that every step makes smaller (`MigrationNearsEnd`,
`LoopNearsEnd`, `BothNearEnd`, `IterationEnds`). The runs check the first of these;
the others are stated for their proofs, next to the liveness property a run checks.
What is left to TLC is that a next step is always possible until the end. For
starvation `WaitIsBounded` is such a half: it bounds how often others are served
before a machine is. Every other property the passing runs check is also proved.

Proved and in no run: `TypeOK` of `VirtualMemory`, `FailureIsExhaustive`, and
`TerminalIsFinal`, which `SlicesAreAtomic` implies between slices.

## Findings

- `PreCopyMigrate` runs the machine in two rounds before the transfer, which
  `docs/migration-protocol.md:11` calls execution rounds. The machine is still on
  its MIGRATE, so the rounds retire nothing (`precopy_executes`). The metrics are
  exact only because of this.
- A packet has no page table. The migrated machine page-faults at its first lw or
  sw (`migrated_memory`); a snapshot file has none either.
- The coursework client counts executed lines, the server skips lines of the file;
  empty lines before MIGRATE make the server execute instructions a second time
  (`legacy_empty_lines`).

Noticed while modelling, without a run:

- The coursework client does not send `hi` and `low` (`homework-2 and 3-client.cc:206`):
  after a mult or a div before the MIGRATE a dump on the server shows 0, until the
  server executes one itself. `MigrationResumes` says so; the README promises that the
  server "receives VM state and resumes execution".
- The coursework server accepts one connection and receives once, into a buffer it
  parses whatever came (`homework-2 and 3- server.cc:354`): of a message in two parts, or
  by a connection that waits behind the accepted one, it runs something else, and the
  client has left. `Arrived` is the condition under which the message is what is run.
- A machine name with a number after a line break moves every field of a snapshot file:
  `Load` takes that number for the pc and a register for the size of the memory
  (`Aligned` is the condition under which it does not).
- `srl` of the coursework shifts a signed int and keeps the sign.
- `LocalTransport` answers true and delivers nothing: with it `Migration failed` is
  never printed, and no machine ever arrives anywhere.
- A machine that is restored with a migration intent of its own migrates after its
  first slice: `Restore` leaves the intent.
- A machine of which all priorities are at or below -1000000 is never picked.
- After a successful migration the source machine is still on its MIGRATE and
  migrates again. So is the restored one on its host: neither gets past a MIGRATE,
  which is also all that keeps the two copies from running apart.
- `li $1,42`, with no space after the comma, silently loads 0, and an immediate
  beyond `int32_t` the nearest one in range; a register that is no number throws out
  of `main`.
- `Save` and `Load` return true for a file that broke off.
- `main` gives `MigrationService` and `HypervisorCore` a `MetricsTracer` each, so the
  hypervisor's metrics never have a migration's duration.

## Not modelled

- `MlfqScheduler::NotifyRan` and `main`'s `ReadLines`, which have no caller, and the
  wall-clock time of migrations.
- Register numbers above 31, which the parser lets through and `ExecuteOne` uses to
  index past the register file: undefined behaviour whose outcomes are not bounded.
- Configuration files of the coursework beyond what is read from them, printing,
  tests, scripts, build files.

The type invariants of `VirtualMachine`, `LegacyHypervisor`, `LegacyMigration`,
`ScheduledHypervisor` and `MigratingHypervisor` document the types of the variables;
the last one is a theorem (`MigrationTypeCorrect`), the others belong to no run.
