-------------------------- MODULE CompositionProofs --------------------------
(***************************************************************************)
(* Proofs about the modules that compose the hypervisor with another part. *)
(*                                                                         *)
(* ScheduledHypervisor, with the schedulers: what is proved of             *)
(* HypervisorCore for any scheduler holds under each policy, the priority  *)
(* policy keeps the promise it is named for, round robin is the fairness   *)
(* baseline, and the queues of MLFQ lose and duplicate nothing.            *)
(*                                                                         *)
(* MigratingHypervisor, with the migration protocol: MigrationProtocol on  *)
(* its own, for any snapshots, any number of attempts and any number of    *)
(* packets in transit, and its composition with the hypervisor, for every  *)
(* number of machines, every program and every scheduler.                  *)
(***************************************************************************)
EXTENDS ScheduledHypervisor, MigratingHypervisor, HypervisorCoreProofs, SequenceTheorems

(***************************************************************************)
(*                   The hypervisor under a scheduler                      *)
(***************************************************************************)

(***************************************************************************)
(* The invariant behind PriorityRespected.  A machine that comes later, by *)
(* AddVm, may be more important than one that has already run; but AddVm   *)
(* happens outside Run, where every machine that ran is over.              *)
(***************************************************************************)
NoneHalfway ==
  phase = "idle" =>
    \A j \in Alive : UniqueName(j) => dispatched[config[j].name] = 0

PriorityInv == NewNames /\ (policy = "priority" => NoneHalfway /\ PriorityRespected)

-----------------------------------------------------------------------------

(* A step under a policy is a step of the hypervisor. *)
LEMMA StepIsCoreStep == [ScheduledNext]_allVars => [Next]_vars
BY DEF ScheduledNext, Progress, ScheduledPick, Next, allVars

(* With any of the policies the hypervisor is what HypervisorCore says. *)
THEOREM Implements == ScheduledSpec => Spec
<1>1. ScheduledInit => Init
  BY DEF ScheduledInit
<1>2. [ScheduledNext]_allVars => [Next]_vars
  BY StepIsCoreStep
<1> QED
  BY <1>1, <1>2, PTL DEF ScheduledSpec, Spec

LEMMA PriorityInit == ScheduledInit => PriorityInv
BY DEF ScheduledInit, Init, PriorityInv, NewNames, NoneHalfway,
   PriorityRespected, Added, Alive

LEMMA AddVmPriority ==
  IInv /\ PriorityInv /\ AddVm /\ policy' = policy => PriorityInv'
<1> SUFFICES ASSUME IInv, PriorityInv, AddVm, policy' = policy PROVE PriorityInv'
  OBVIOUS
<1>1. size \in Vms /\ size \notin Added /\ Added' = Added \cup {size}
  BY HypervisorAssumption DEF IInv, TypeOK, AddVm, Added
<1>2. phase = "idle" /\ UNCHANGED <<config, status, phase, dispatched>>
  BY DEF AddVm, vmVars
<1>3. NewNames'
  BY <1>1, <1>2 DEF PriorityInv, NewNames
<1>4. ASSUME policy = "priority", NEW j \in Alive', UniqueName(j)'
      PROVE  dispatched'[config'[j].name] = 0
  <2>1. CASE j \in Added
    <3>1. j \in Alive /\ UniqueName(j)
      BY <1>1, <1>2, <1>4, <2>1 DEF Alive, Terminal, UniqueName
    <3> QED
      BY <1>2, <1>4, <3>1 DEF PriorityInv, NoneHalfway
  <2>2. CASE j = size
    <3>1. \A k \in Added : config[k].name # config[j].name
      BY <1>1, <1>2, <1>4, <2>2 DEF UniqueName
    <3>2. config[j].name \in Names
      BY <1>1, <2>2, ConfigType DEF IInv
    <3> QED
      BY <1>2, <3>1, <3>2 DEF PriorityInv, NewNames
  <2> QED
    BY <1>1, <2>1, <2>2 DEF Alive
<1> QED
  BY <1>3, <1>4 DEF PriorityInv, NoneHalfway, PriorityRespected

(* The machine PriorityPick returns is the most important one it can see. *)
LEMMA PickedIsHighest ==
  ASSUME NEW idx, NEW alive, NEW priorities, NEW i \in alive,
         PriorityPick(alive, priorities, idx), idx \in alive,
         \A k \in alive : priorities[k] \in Int, PriorityFloor \in Int,
         priorities[i] > PriorityFloor
  PROVE  ~(priorities[i] > priorities[idx])
BY DEF PriorityPick

LEMMA DispatchPriority ==
  ASSUME IInv, PriorityInv, NEW idx \in 0 .. MaxVms, Dispatch(idx),
         policy' = policy, policy = "priority" => Chosen(idx)
  PROVE  PriorityInv'
<1>1. /\ phase = "loop" /\ phase' = "dispatch" /\ idx \in Alive /\ idx \in Vms
      /\ UNCHANGED <<config, size>>
      /\ Added' = Added /\ Alive' \subseteq Alive
  BY AliveShrinks, AddedAreVms
  DEF IInv, Dispatch, AddVm, Next, PickNext, Alive
<1>2. config[idx].name \in Names /\ dispatched \in [Names -> Nat]
  BY <1>1, ConfigType DEF IInv, TypeOK
<1>3. \A n \in Names \ {config[idx].name} : dispatched'[n] = dispatched[n]
  BY <1>2 DEF Dispatch
<1>4. NewNames'
  BY <1>1, <1>3 DEF PriorityInv, NewNames, Alive
<1>5. ASSUME policy = "priority", NEW i \in Alive', NEW j \in Alive', UniqueName(j)',
             config[i].priority > config[j].priority, config[i].priority > PriorityFloor
      PROVE  dispatched'[config'[j].name] = 0
  <2>1. i \in Alive /\ j \in Alive /\ UniqueName(j)
    BY <1>1, <1>5 DEF UniqueName
  <2>2. dispatched[config[j].name] = 0
    BY <1>5, <2>1 DEF PriorityInv, PriorityRespected
  <2>3. j # idx
    <3> DEFINE p == [k \in Added |-> config[k].priority]
    <3>1. PriorityPick(Alive, p, idx)
      BY <1>5, PolicyAssumption DEF Chosen
    <3>2. \A k \in Alive : p[k] = config[k].priority /\ p[k] \in Int
      BY AddedAreVms, HypervisorAssumption DEF IInv, TypeOK, Alive
    <3> HIDE DEF p
    <3>3. p[i] > PriorityFloor
      BY <1>5, <2>1, <3>2
    <3>4. ~(p[i] > p[idx])
      BY <1>1, <2>1, <3>1, <3>2, <3>3, PolicyAssumption, PickedIsHighest
    <3> QED
      BY <1>1, <1>5, <2>1, <3>2, <3>4
  <2>4. config[j].name # config[idx].name /\ config[j].name \in Names
    BY <1>1, <2>1, <2>3, AddedAreVms, ConfigType DEF UniqueName, Alive, IInv
  <2> QED
    BY <1>1, <1>3, <2>2, <2>4
<1> QED
  BY <1>1, <1>4, <1>5 DEF PriorityInv, NoneHalfway, PriorityRespected

LEMMA QuietPriority ==
  ASSUME IInv, PriorityInv, [Next]_vars, ~AddVm, dispatched' = dispatched,
         policy' = policy
  PROVE  PriorityInv'
<1>1. Added' = Added /\ config' = config /\ Alive' \subseteq Alive
  BY AliveShrinks
<1>2. phase' = "idle" => phase = "idle" \/ Alive = {}
  BY DEF Next, Run, RunStep, Leave, VmStep, RecordSlice, PreCopyRound,
     PreCopyReturn, TransferAndClear, PickNext, SkipPick, Dispatch, vars, hvVars
<1>3. \A j \in Alive' : UniqueName(j)' => UniqueName(j)
  BY <1>1 DEF UniqueName
<1> QED
  BY <1>1, <1>2, <1>3 DEF PriorityInv, NewNames, NoneHalfway, PriorityRespected

LEMMA PriorityStep == IInv /\ PriorityInv /\ [ScheduledNext]_allVars => PriorityInv'
<1> SUFFICES ASSUME IInv, PriorityInv, [ScheduledNext]_allVars PROVE PriorityInv'
  OBVIOUS
<1>1. [Next]_vars /\ policy' = policy
  BY StepIsCoreStep DEF ScheduledNext, Progress, allVars
<1>2. CASE AddVm
  BY <1>1, <1>2, AddVmPriority
<1>3. ASSUME NEW idx \in 0 .. MaxVms, Chosen(idx), PickNext(idx) PROVE PriorityInv'
  <2>1. CASE Dispatch(idx)
    BY <1>1, <1>3, <2>1, DispatchPriority
  <2>2. CASE SkipPick(idx)
    BY <1>1, <2>2, QuietPriority DEF SkipPick, AddVm, vars, hvVars
  <2> QED
    BY <1>3, <2>1, <2>2 DEF PickNext
<1>4. CASE Run \/ RunStep \/ UNCHANGED allVars
  <2>1. dispatched' = dispatched /\ size' = size
    BY <1>4
    DEF Run, RunStep, Leave, VmStep, RecordSlice, PreCopyRound, PreCopyReturn,
        TransferAndClear, allVars, vars, hvVars
  <2>2. ~AddVm
    BY <2>1 DEF AddVm, IInv, TypeOK
  <2> QED
    BY <1>1, <2>1, <2>2, QuietPriority
<1> QED
  BY <1>2, <1>3, <1>4 DEF ScheduledNext, Progress, ScheduledPick

(***************************************************************************)
(* Under the priority policy no machine is dispatched before a more        *)
(* important one is over, for any number of machines and any priorities.   *)
(***************************************************************************)
THEOREM HighestFirst == ScheduledSpec => []PriorityRespected
<1>1. ScheduledInit => PriorityInv
  BY PriorityInit
<1>2. IInv /\ PriorityInv /\ [ScheduledNext]_allVars => PriorityInv'
  BY PriorityStep
<1>3. PriorityInv => PriorityRespected
  BY DEF PriorityInv, PriorityRespected
<1>4. ScheduledSpec => []IInv
  BY Implements, Inductive, PTL
<1> QED
  BY <1>1, <1>2, <1>3, <1>4, PTL DEF ScheduledSpec

-----------------------------------------------------------------------------

(***************************************************************************)
(* Round robin.  Seen from the cursor c, machine i has its turn before     *)
(* machine j.                                                              *)
(***************************************************************************)
Before(c, i, j) ==
  IF i >= c THEN j < c \/ i < j ELSE j < c /\ i < j

(***************************************************************************)
(* The invariant behind DispatchesBalanced: who has its turn sooner is at  *)
(* most one dispatch behind, and never ahead.  Like PriorityRespected it   *)
(* survives AddVm only because no live machine has run at that time.       *)
(***************************************************************************)
TurnsTaken ==
  \A i, j \in Alive :
    UniqueName(i) /\ UniqueName(j) /\ Before(cursor, i, j)
      => Count(i) <= Count(j) /\ Count(j) <= Count(i) + 1

CursorInv == cursor \in Nat /\ (cursor = 0 \/ cursor < size)

RoundRobinInv ==
  policy = "round_robin" =>
    CursorInv /\ Saturated /\ NewNames /\ NoneHalfway /\ TurnsTaken

(* PickNext's two moduli: the k-th machine from the cursor, and the next. *)
LEMMA Rotated ==
  ASSUME NEW n \in Nat \ {0}, NEW c \in 0 .. n - 1, NEW k \in 0 .. n - 1
  PROVE  (c + k) % n = IF c + k < n THEN c + k ELSE c + k - n
<1>1. CASE c + k < n
  BY <1>1, SMTT(30)
<1>2. CASE ~(c + k < n)
  BY <1>2, SMTT(30)
<1> QED
  BY <1>1, <1>2

LEMMA Successor ==
  ASSUME NEW n \in Nat \ {0}, NEW i \in 0 .. n - 1
  PROVE  (i + 1) % n = IF i + 1 < n THEN i + 1 ELSE 0
<1>1. CASE i + 1 < n
  BY <1>1, SMTT(30)
<1>2. CASE i + 1 = n
  <2>1. n % n = 0
    BY SMTT(30)
  <2> QED
    BY <1>2, <2>1
<1> QED
  BY <1>1, <1>2

(* The k-th machine from c is before every one not met on the way to it. *)
LEMMA FirstInTurn ==
  ASSUME NEW n \in Nat \ {0}, NEW c \in 0 .. n - 1, NEW k \in 0 .. n - 1,
         NEW i \in 0 .. n - 1, i # (c + k) % n,
         \A m \in 0 .. k - 1 : i # (c + m) % n
  PROVE  Before(c, (c + k) % n, i)
<1>1. (c + k) % n = IF c + k < n THEN c + k ELSE c + k - n
  BY Rotated
<1>2. CASE i >= c
  <2>1. i - c \in 0 .. n - 1
    BY <1>2
  <2>2. (c + (i - c)) % n = i
    <3>1. (c + (i - c)) % n = IF c + (i - c) < n THEN c + (i - c) ELSE c + (i - c) - n
      BY <2>1, Rotated
    <3> QED
      BY <3>1
  <2>3. i - c \notin 0 .. k - 1
    BY <2>2
  <2> QED
    BY <1>1, <1>2, <2>1, <2>3 DEF Before
<1>3. CASE i < c
  <2>1. i + n - c \in 0 .. n - 1
    BY <1>3
  <2>2. (c + (i + n - c)) % n = i
    <3>1. (c + (i + n - c)) % n =
            IF c + (i + n - c) < n THEN c + (i + n - c) ELSE c + (i + n - c) - n
      BY <2>1, Rotated
    <3> QED
      BY <3>1
  <2>3. i + n - c \notin 0 .. k - 1
    BY <2>2
  <2> QED
    BY <1>1, <1>3, <2>1, <2>3 DEF Before
<1> QED
  BY <1>2, <1>3

(* Of the machines that are not over PickNext returns the first in turn. *)
LEMMA PickedIsFirst ==
  ASSUME NEW n \in Nat \ {0}, NEW alive \in SUBSET (0 .. n - 1), NEW idx \in alive,
         cursor \in 0 .. n - 1, RoundRobinPick(n, alive, idx),
         NEW i \in alive, i # idx
  PROVE  Before(cursor, idx, i)
<1>1. PICK k \in 0 .. n - 1 :
        /\ idx = (cursor + k) % n
        /\ \A m \in 0 .. k - 1 : (cursor + m) % n \notin alive
  BY DEF RoundRobinPick
<1>2. i # (cursor + k) % n /\ \A m \in 0 .. k - 1 : i # (cursor + m) % n
  BY <1>1
<1>3. Before(cursor, (cursor + k) % n, i)
  BY <1>2, FirstInTurn
<1> QED
  BY <1>1, <1>3

(* The machine that was picked is the last in turn, the others stay. *)
LEMMA TurnPasses ==
  ASSUME NEW n \in Nat \ {0}, NEW c \in 0 .. n - 1,
         NEW idx \in 0 .. n - 1, NEW i \in 0 .. n - 1, NEW j \in 0 .. n - 1,
         i # idx => Before(c, idx, i), j # idx => Before(c, idx, j),
         Before((idx + 1) % n, i, j)
  PROVE  /\ i # idx
         /\ j # idx => Before(c, i, j)
<1>1. (idx + 1) % n = IF idx + 1 < n THEN idx + 1 ELSE 0
  BY Successor
<1> QED
  BY <1>1 DEF Before

LEMMA AddVmTurns ==
  ASSUME IInv, RoundRobinInv, AddVm, UNCHANGED <<policy, cursor>>, policy = "round_robin"
  PROVE  RoundRobinInv'
<1>1. size \in Vms /\ size \notin Added /\ Added' = Added \cup {size}
  BY HypervisorAssumption DEF IInv, TypeOK, AddVm, Added
<1>2. phase = "idle" /\ UNCHANGED <<config, status, phase, dispatched>> /\ size' = size + 1
  BY DEF AddVm, vmVars
<1>3. NewNames'
  BY <1>1, <1>2 DEF RoundRobinInv, NewNames
<1>4. ASSUME NEW j \in Alive', UniqueName(j)' PROVE Count(j)' = 0
  <2>1. CASE j \in Added
    <3>1. j \in Alive /\ UniqueName(j)
      BY <1>1, <1>2, <1>4, <2>1 DEF Alive, Terminal, UniqueName
    <3> QED
      BY <1>2, <3>1 DEF RoundRobinInv, NoneHalfway, Count
  <2>2. CASE j = size
    <3>1. \A k \in Added : config[k].name # config[j].name
      BY <1>1, <1>2, <1>4, <2>2 DEF UniqueName
    <3>2. config[j].name \in Names
      BY <1>1, <2>2, ConfigType DEF IInv
    <3> QED
      BY <1>2, <3>1, <3>2 DEF RoundRobinInv, NewNames, Count
  <2> QED
    BY <1>1, <2>1, <2>2 DEF Alive
<1>5. NoneHalfway' /\ TurnsTaken'
  BY <1>4 DEF NoneHalfway, TurnsTaken, Count
<1>6. CursorInv' /\ Saturated'
  BY <1>2 DEF RoundRobinInv, CursorInv, Saturated, IInv, TypeOK
<1> QED
  BY <1>3, <1>5, <1>6 DEF RoundRobinInv

LEMMA DispatchTurns ==
  ASSUME IInv, RoundRobinInv, NEW idx \in 0 .. MaxVms, Dispatch(idx), policy' = policy,
         policy = "round_robin", RoundRobinPick(size, Alive, idx)
  PROVE  RoundRobinInv'
<1>1. /\ phase' = "dispatch" /\ idx \in Alive /\ UNCHANGED <<config, size>>
      /\ Added' = Added /\ Alive' \subseteq Alive
      /\ \A i \in Alive : UniqueName(i)' <=> UniqueName(i)
  BY DispatchCounts
<1>2. \A i \in Alive \ {idx} : UniqueName(i) => Count(i)' = Count(i)
  BY DispatchCounts
<1>3. Count(idx)' = Bump(Count(idx))
  BY DispatchCounts
<1>4. size \in Nat \ {0} /\ Alive \subseteq 0 .. size - 1 /\ cursor \in 0 .. size - 1
  BY <1>1 DEF IInv, TypeOK, Alive, Added, RoundRobinInv, CursorInv
<1>5. \A i \in Alive \ {idx} : Before(cursor, idx, i)
  BY <1>1, <1>4, PickedIsFirst
<1>6. cursor' = (idx + 1) % size
  BY <1>1, <1>4 DEF RoundRobinPick
<1>7. CursorInv'
  <2>1. idx \in 0 .. size - 1
    BY <1>1, <1>4
  <2>2. (idx + 1) % size = IF idx + 1 < size THEN idx + 1 ELSE 0
    BY <1>4, <2>1, Successor
  <2> QED
    BY <1>1, <1>4, <1>6, <2>1, <2>2 DEF CursorInv
<1>8. Saturated' /\ NewNames'
  BY DispatchNames DEF RoundRobinInv
<1>9. NoneHalfway'
  BY <1>1 DEF NoneHalfway
<1>10. ASSUME NEW i \in Alive', NEW j \in Alive', UniqueName(i)', UniqueName(j)',
              Before(cursor, i, j)'
       PROVE  Count(i)' <= Count(j)' /\ Count(j)' <= Count(i)' + 1
  <2>1. i \in Alive /\ j \in Alive /\ UniqueName(i) /\ UniqueName(j)
    BY <1>1, <1>10
  <2>2. Before((idx + 1) % size, i, j)
    BY <1>6, <1>10 DEF Before
  <2>3. i # idx /\ (j # idx => Before(cursor, i, j))
    BY <1>1, <1>4, <1>5, <2>1, <2>2, TurnPasses
  <2>4. Bounded(i) /\ Bounded(j) /\ Bounded(idx)
    BY <1>1, <2>1, CountsBounded DEF RoundRobinInv
  <2>5. \A m \in {i, j} \ {idx} : Count(m)' = Count(m)
    BY <1>2, <2>1
  <2>6. CASE j # idx
    BY <2>1, <2>3, <2>5, <2>6 DEF RoundRobinInv, TurnsTaken
  <2>7. CASE j = idx
    <3>1. Count(idx) <= Count(i) /\ Count(i) <= Count(idx) + 1
      BY <1>1, <1>5, <2>1, <2>3, <2>7 DEF RoundRobinInv, TurnsTaken
    <3> QED
      BY <1>3, <2>3, <2>4, <2>5, <2>7, <3>1 DEF Bump, Bounded
  <2> QED
    BY <2>6, <2>7
<1> QED
  BY <1>7, <1>8, <1>9, <1>10 DEF RoundRobinInv, TurnsTaken

LEMMA QuietTurns ==
  ASSUME IInv, RoundRobinInv, [Next]_vars, ~AddVm, UNCHANGED <<dispatched, policy, cursor>>
  PROVE  RoundRobinInv'
<1>1. Added' = Added /\ config' = config /\ Alive' \subseteq Alive /\ size' = size
  <2>1. size' = size
    BY DEF Next, Run, RunStep, Leave, VmStep, RecordSlice, PreCopyRound,
       PreCopyReturn, TransferAndClear, PickNext, SkipPick, Dispatch, vars, hvVars
  <2> QED
    BY <2>1, AliveShrinks
<1>2. phase' = "idle" => phase = "idle" \/ Alive = {}
  BY DEF Next, Run, RunStep, Leave, VmStep, RecordSlice, PreCopyRound,
     PreCopyReturn, TransferAndClear, PickNext, SkipPick, Dispatch, vars, hvVars
<1>3. \A j \in Alive' : UniqueName(j)' => UniqueName(j)
  BY <1>1 DEF UniqueName
<1> QED
  BY <1>1, <1>2, <1>3
  DEF RoundRobinInv, CursorInv, Saturated, NewNames, NoneHalfway, TurnsTaken, Count, Before

LEMMA TurnsStep == IInv /\ RoundRobinInv /\ [ScheduledNext]_allVars => RoundRobinInv'
<1> SUFFICES ASSUME IInv, RoundRobinInv, [ScheduledNext]_allVars, policy = "round_robin"
             PROVE  RoundRobinInv'
  BY DEF RoundRobinInv, ScheduledNext, Progress, allVars
<1>1. [Next]_vars /\ policy' = policy
  BY StepIsCoreStep DEF ScheduledNext, Progress, allVars
<1>2. CASE AddVm /\ UNCHANGED <<schedVars, policy>>
  BY <1>2, AddVmTurns DEF schedVars
<1>3. ASSUME NEW idx \in 0 .. MaxVms, Chosen(idx), PickNext(idx) PROVE RoundRobinInv'
  <2>1. RoundRobinPick(size, Alive, idx)
    BY <1>3 DEF Chosen
  <2>2. Alive # {} => idx \in Alive
    BY <2>1 DEF RoundRobinPick
  <2>3. Dispatch(idx)
    BY <1>3, <2>2 DEF PickNext, SkipPick
  <2> QED
    BY <1>1, <2>1, <2>3, DispatchTurns
<1>4. CASE ((Run \/ RunStep) /\ UNCHANGED <<schedVars, policy>>) \/ UNCHANGED allVars
  <2>1. dispatched' = dispatched /\ size' = size /\ cursor' = cursor
    BY <1>4
    DEF Run, RunStep, Leave, VmStep, RecordSlice, PreCopyRound, PreCopyReturn,
        TransferAndClear, allVars, vars, hvVars, schedVars
  <2>2. ~AddVm
    BY <2>1 DEF AddVm, IInv, TypeOK
  <2> QED
    BY <1>1, <2>1, <2>2, QuietTurns
<1> QED
  BY <1>2, <1>3, <1>4 DEF ScheduledNext, Progress, ScheduledPick

(***************************************************************************)
(* Under round robin the dispatches of two machines that are not over      *)
(* differ by at most one, for any number of machines, any slices and any   *)
(* calls of AddVm between those of Run.                                    *)
(***************************************************************************)
THEOREM RoundRobinIsFair ==
  ScheduledSpec => [](policy = "round_robin" => DispatchesBalanced)
<1>1. ScheduledInit => RoundRobinInv
  BY HypervisorAssumption
  DEF ScheduledInit, Init, SchedInit, RoundRobinInv, CursorInv, Saturated, NewNames,
      NoneHalfway, TurnsTaken, Added, Alive
<1>2. IInv /\ RoundRobinInv /\ [ScheduledNext]_allVars => RoundRobinInv'
  BY TurnsStep
<1>3. IInv /\ RoundRobinInv => (policy = "round_robin" => DispatchesBalanced)
  <2> SUFFICES ASSUME IInv, RoundRobinInv, policy = "round_robin",
                      NEW i \in Alive, NEW j \in Alive, UniqueName(i), UniqueName(j)
               PROVE  Count(i) <= Count(j) + 1
    BY DEF DispatchesBalanced, Skew, Count
  <2>1. Count(i) \in Nat /\ Count(j) \in Nat
    BY AddedAreVms, ConfigType DEF Count, Alive, IInv, TypeOK
  <2>2. i \in Nat /\ j \in Nat /\ cursor \in Nat
    BY DEF Alive, Added, RoundRobinInv, CursorInv, IInv, TypeOK
  <2>3. i = j \/ Before(cursor, i, j) \/ Before(cursor, j, i)
    BY <2>2 DEF Before
  <2> QED
    BY <2>1, <2>3 DEF RoundRobinInv, TurnsTaken
<1>4. ScheduledSpec => []IInv
  BY Implements, Inductive, PTL
<1> QED
  BY <1>1, <1>2, <1>3, <1>4, PTL DEF ScheduledSpec

-----------------------------------------------------------------------------

(***************************************************************************)
(* MLFQ.  Whatever the queues hold of machines that are over, a machine    *)
(* that is not over is in one of them, once, or, at the first PickNext and *)
(* after an AddVm that followed an earlier Run, none is in any.            *)
(***************************************************************************)
(* Does queue q hold machine i, does it hold it once, is i ahead of j in it? *)
Holds(q, i) == \E k \in DOMAIN q : q[k] = i

HoldsOnce(q, i) == \A k, l \in DOMAIN q : q[k] = i /\ q[l] = i => k = l

Ahead(q, i, j) == \E k, l \in DOMAIN q : k < l /\ q[k] = i /\ q[l] = j

(* Machine i has at most lead dispatches more than j, and at most lag less. *)
Gap(i, j, lead, lag) == Count(i) <= Count(j) + lead /\ Count(j) <= Count(i) + lag

InOneQueue(h, m, l) ==
  \A i \in Alive :
    /\ HoldsOnce(h, i) /\ HoldsOnce(m, i) /\ HoldsOnce(l, i)
    /\ ~(Holds(h, i) /\ Holds(m, i))
    /\ ~(Holds(h, i) /\ Holds(l, i))
    /\ ~(Holds(m, i) /\ Holds(l, i))
    /\ Holds(h, i) \/ Holds(m, i) \/ Holds(l, i)

(***************************************************************************)
(* What the queues tell of the dispatches of machines i and j.  Machines   *)
(* start level in the high queue and are level again in the mid queue.     *)
(* Then the low queue gives them their turns, in its order, and three      *)
(* dispatches for each: one into high, one into mid, one back into low.    *)
(***************************************************************************)
PairGap(h, m, l, i, j) ==
  /\ Holds(h, i) /\ Holds(h, j) => Count(i) = Count(j)
  /\ Holds(m, i) /\ Holds(m, j) => Count(i) = Count(j)
  /\ Holds(h, i) /\ Holds(m, j) => Count(j) = Bump(Count(i))
  /\ Holds(h, i) /\ Holds(l, j) => Gap(i, j, 1, 2)
  /\ Holds(m, i) /\ Holds(l, j) => Gap(i, j, 2, 1)
  /\ Ahead(l, i, j) => Gap(i, j, 0, 3)

QueueGaps(h, m, l) ==
  \A i, j \in Alive : UniqueName(i) /\ UniqueName(j) => PairGap(h, m, l, i, j)

Placed(h, m, l) == InOneQueue(h, m, l) /\ QueueGaps(h, m, l)

(* Before they are placed they have not run, and 0, which PickNext returns *)
(* when it rebuilds the queues, is over.                                   *)
Unplaced ==
  /\ \A i \in Alive :
       /\ ~Holds(high, i) /\ ~Holds(mid, i) /\ ~Holds(low, i)
       /\ UniqueName(i) => Count(i) = 0
  /\ initialized => 0 \notin Alive

QueuesOfAdded ==
  /\ high \in Seq(Added) /\ mid \in Seq(Added) /\ low \in Seq(Added)
  /\ ~initialized => high = <<>> /\ mid = <<>> /\ low = <<>>
  /\ initialized => size > 0

(* The invariant behind QueuesHoldAlive and the skew of MLFQ. *)
MlfqInv ==
  policy = "mlfq" =>
    /\ NewNames /\ Saturated /\ QueuesOfAdded
    /\ Unplaced \/ (phase # "idle" /\ Placed(high, mid, low))

-----------------------------------------------------------------------------

(* What is left of a queue, and what an entry more makes of it. *)
LEMMA Popped ==
  ASSUME NEW S, NEW q \in Seq(S), NEW k \in DOMAIN q
  PROVE  /\ PopFirst(q, k) \in Seq(S)
         /\ DOMAIN PopFirst(q, k) = 1 .. Len(q) - k
         /\ \A m \in 1 .. Len(q) - k : PopFirst(q, k)[m] = q[m + k]
<1>1. k \in 1 .. Len(q) /\ Len(q) \in Nat
  OBVIOUS
<1>2. \A m \in k + 1 .. Len(q) : q[m] \in S
  BY <1>1
<1>3. /\ PopFirst(q, k) \in Seq(S)
      /\ Len(PopFirst(q, k)) = IF k + 1 <= Len(q) THEN Len(q) - (k + 1) + 1 ELSE 0
      /\ \A m \in 1 .. Len(q) - (k + 1) + 1 : PopFirst(q, k)[m] = q[k + 1 + m - 1]
  BY <1>1, <1>2, SubSeqProperties DEF PopFirst
<1> QED
  BY <1>1, <1>3

(* pickFromQueue takes the first that is not over out of its queue. *)
LEMMA PopKeeps ==
  ASSUME NEW S, NEW q \in Seq(S), NEW alive, NEW k \in DOMAIN q, FirstAlive(q, alive, k),
         \A i \in alive : HoldsOnce(q, i)
  PROVE  /\ \A i \in alive : HoldsOnce(PopFirst(q, k), i)
         /\ \A i \in alive : Holds(PopFirst(q, k), i) <=> Holds(q, i) /\ i # q[k]
         /\ \A i, j \in alive : Ahead(PopFirst(q, k), i, j) => Ahead(q, i, j)
         /\ \A i \in alive : Holds(q, i) /\ i # q[k] => Ahead(q, q[k], i)
<1> DEFINE p == PopFirst(q, k)
<1>1. /\ k \in 1 .. Len(q) /\ Len(q) \in Nat /\ DOMAIN q = 1 .. Len(q)
      /\ DOMAIN p = 1 .. Len(q) - k
      /\ \A m \in 1 .. Len(q) - k : p[m] = q[m + k]
  BY Popped
<1> HIDE DEF p
<1>2. \A i \in alive : HoldsOnce(p, i)
  BY <1>1 DEF HoldsOnce
<1>3. ASSUME NEW i \in alive, NEW n \in DOMAIN q, q[n] = i, i # q[k]
      PROVE  n > k /\ n - k \in DOMAIN p /\ p[n - k] = i
  <2>1. ~(n \in 1 .. k - 1)
    BY <1>3 DEF FirstAlive
  <2>2. n > k
    BY <1>1, <1>3, <2>1
  <2> QED
    BY <1>1, <1>3, <2>2
<1>4. ASSUME NEW i \in alive, NEW n \in DOMAIN p, p[n] = i
      PROVE  n + k \in DOMAIN q /\ q[n + k] = i /\ i # q[k]
  <2>1. n + k \in DOMAIN q /\ q[n + k] = i /\ n + k # k
    BY <1>1, <1>4
  <2> QED
    BY <1>1, <2>1 DEF HoldsOnce
<1>5. \A i \in alive : Holds(p, i) <=> Holds(q, i) /\ i # q[k]
  BY <1>3, <1>4 DEF Holds
<1>6. ASSUME NEW i \in alive, NEW j \in alive, Ahead(p, i, j)
      PROVE  Ahead(q, i, j)
  <2>1. PICK a \in DOMAIN p, b \in DOMAIN p : a < b /\ p[a] = i /\ p[b] = j
    BY <1>6 DEF Ahead
  <2>2. a + k \in DOMAIN q /\ b + k \in DOMAIN q /\ a + k < b + k
    BY <1>1, <1>4, <2>1
  <2> QED
    BY <1>4, <2>1, <2>2 DEF Ahead
<1>7. \A i \in alive : Holds(q, i) /\ i # q[k] => Ahead(q, q[k], i)
  BY <1>1, <1>3 DEF Holds, Ahead
<1> QED
  BY <1>2, <1>5, <1>6, <1>7 DEF p

(* The machine that was picked goes to the end of the next queue. *)
LEMMA AppendKeeps ==
  ASSUME NEW S, NEW q \in Seq(S), NEW x \in S, ~Holds(q, x)
  PROVE  /\ Append(q, x) \in Seq(S)
         /\ \A i : HoldsOnce(q, i) => HoldsOnce(Append(q, x), i)
         /\ \A i : Holds(Append(q, x), i) <=> Holds(q, i) \/ i = x
         /\ \A i, j : Ahead(Append(q, x), i, j) <=> Ahead(q, i, j) \/ (Holds(q, i) /\ j = x)
<1> DEFINE p == Append(q, x)
<1>1. /\ p \in Seq(S) /\ Len(q) \in Nat /\ DOMAIN q = 1 .. Len(q)
      /\ DOMAIN p = 1 .. Len(q) + 1
      /\ p[Len(q) + 1] = x
      /\ \A n \in 1 .. Len(q) : p[n] = q[n]
  OBVIOUS
<1> HIDE DEF p
<1>2. \A i : HoldsOnce(q, i) => HoldsOnce(p, i)
  BY <1>1 DEF HoldsOnce, Holds
<1>3. \A i : Holds(p, i) <=> Holds(q, i) \/ i = x
  BY <1>1 DEF Holds
<1>4. \A i, j : Ahead(p, i, j) <=> Ahead(q, i, j) \/ (Holds(q, i) /\ j = x)
  BY <1>1 DEF Holds, Ahead
<1> QED
  BY <1>1, <1>2, <1>3, <1>4 DEF p

-----------------------------------------------------------------------------
(* The high queue PickNext works with, after the rebuild of its first call. *)
High == IF initialized THEN high ELSE Rebuilt(size)

QueuesReady == High \in Seq(Added) /\ mid \in Seq(Added) /\ low \in Seq(Added)

(* From the high queue to the mid queue. *)
LEMMA FromHigh ==
  ASSUME IInv, Saturated, QueuesReady, Placed(High, mid, low),
         NEW idx \in 0 .. MaxVms, Dispatch(idx),
         NEW k \in DOMAIN High, FirstAlive(High, Alive, k), idx = High[k],
         high' = PopFirst(High, k), mid' = Append(mid, idx), low' = low
  PROVE  Placed(high, mid, low)'
<1>1. /\ idx \in Alive /\ Added' = Added /\ Alive' \subseteq Alive
      /\ \A i \in Alive : Count(i) \in Nat /\ (UniqueName(i)' <=> UniqueName(i))
      /\ \A i \in Alive \ {idx} : UniqueName(i) => Count(i)' = Count(i)
      /\ Count(idx)' = Bump(Count(idx))
  BY DispatchCounts
<1>2. Holds(High, idx)
  BY DEF Holds
<1>3. /\ \A i \in Alive : HoldsOnce(High, i) /\ HoldsOnce(mid, i) /\ HoldsOnce(low, i)
      /\ idx \in Added /\ ~Holds(mid, idx) /\ ~Holds(low, idx)
  BY <1>1, <1>2 DEF Placed, InOneQueue, Alive
<1>4. /\ \A i \in Alive : HoldsOnce(high', i)
      /\ \A i \in Alive : Holds(high', i) <=> Holds(High, i) /\ i # idx
  BY <1>3, PopKeeps DEF QueuesReady
<1>5. /\ \A i : HoldsOnce(mid, i) => HoldsOnce(mid', i)
      /\ \A i : Holds(mid', i) <=> Holds(mid, i) \/ i = idx
  BY <1>3, AppendKeeps DEF QueuesReady
<1>6. InOneQueue(high, mid, low)'
  BY <1>1, <1>2, <1>3, <1>4, <1>5 DEF Placed, InOneQueue, Holds, HoldsOnce
<1>7. QueueGaps(high, mid, low)'
  <2> SUFFICES ASSUME NEW i \in Alive', NEW j \in Alive', UniqueName(i)', UniqueName(j)'
               PROVE  PairGap(high, mid, low, i, j)'
    BY DEF QueueGaps
  <2>1. i \in Alive /\ j \in Alive /\ UniqueName(i) /\ UniqueName(j)
    BY <1>1
  <2>2. PairGap(High, mid, low, i, j) /\ PairGap(High, mid, low, j, i)
    BY <2>1 DEF Placed, QueueGaps
  <2>3. Bounded(i) /\ Bounded(j)
    BY <2>1, CountsBounded
  <2>4. CASE i # idx /\ j # idx
    <3>1. Count(i)' = Count(i) /\ Count(j)' = Count(j)
      BY <1>1, <2>1, <2>4
    <3> QED
      BY <1>4, <1>5, <2>1, <2>2, <2>4, <3>1
         DEF PairGap, Gap, Bump
  <2>5. CASE i = idx /\ j # idx
    <3>1. Count(i)' = Bump(Count(i)) /\ Count(j)' = Count(j)
      BY <1>1, <2>1, <2>5
    <3>2. ~Holds(low, i) /\ ~Ahead(low, i, j)
      BY <1>3, <2>5 DEF Ahead, Holds
    <3>3. Holds(High, i) /\ ~Holds(high', i) /\ (Holds(mid', j) <=> Holds(mid, j))
      BY <1>2, <1>4, <1>5, <2>1, <2>5
    <3> QED
      BY <2>2, <2>3, <3>1, <3>2, <3>3 DEF PairGap, Gap, Bump, Bounded
  <2>6. CASE i # idx /\ j = idx
    <3>1. Count(j)' = Bump(Count(j)) /\ Count(i)' = Count(i)
      BY <1>1, <2>1, <2>6
    <3>2. ~Holds(low, j) /\ ~Ahead(low, i, j)
      BY <1>3, <2>6 DEF Ahead, Holds
    <3>3. /\ Holds(High, j) /\ ~Holds(high', j)
          /\ Holds(high', i) <=> Holds(High, i)
          /\ Holds(mid', i) <=> Holds(mid, i)
      BY <1>2, <1>4, <1>5, <2>1, <2>6
    <3> QED
      BY <2>2, <2>3, <3>1, <3>2, <3>3 DEF PairGap, Gap, Bump, Bounded
  <2>7. CASE i = idx /\ j = idx
    BY <1>2, <1>3, <1>4, <1>5, <2>1, <2>7 DEF PairGap, Ahead, Holds
  <2> QED
    BY <2>4, <2>5, <2>6, <2>7
<1> QED
  BY <1>6, <1>7 DEF Placed

(* From the mid queue to the low queue; the high queue is used up. *)
LEMMA FromMid ==
  ASSUME IInv, Saturated, QueuesReady, Placed(High, mid, low),
         NEW idx \in 0 .. MaxVms, Dispatch(idx), NoneAlive(High, Alive),
         NEW k \in DOMAIN mid, FirstAlive(mid, Alive, k), idx = mid[k],
         high' = <<>>, mid' = PopFirst(mid, k), low' = Append(low, idx)
  PROVE  Placed(high, mid, low)'
<1>1. /\ idx \in Alive /\ Added' = Added /\ Alive' \subseteq Alive
      /\ \A i \in Alive : Count(i) \in Nat /\ (UniqueName(i)' <=> UniqueName(i))
      /\ \A i \in Alive \ {idx} : UniqueName(i) => Count(i)' = Count(i)
      /\ Count(idx)' = Bump(Count(idx))
  BY DispatchCounts
<1>2. Holds(mid, idx)
  BY DEF Holds
<1>3. /\ \A i \in Alive : HoldsOnce(mid, i) /\ HoldsOnce(low, i)
      /\ idx \in Added /\ ~Holds(low, idx)
  BY <1>1, <1>2 DEF Placed, InOneQueue, Alive
<1>4. /\ \A i \in Alive : HoldsOnce(mid', i)
      /\ \A i \in Alive : Holds(mid', i) <=> Holds(mid, i) /\ i # idx
  BY <1>3, PopKeeps DEF QueuesReady
<1>5. /\ \A i : HoldsOnce(low, i) => HoldsOnce(low', i)
      /\ \A i : Holds(low', i) <=> Holds(low, i) \/ i = idx
      /\ \A i, j : Ahead(low', i, j) <=> Ahead(low, i, j) \/ (Holds(low, i) /\ j = idx)
  BY <1>3, AppendKeeps DEF QueuesReady
<1>6. \A i \in Alive : ~Holds(High, i) /\ ~Holds(high', i) /\ HoldsOnce(high', i)
  BY DEF NoneAlive, Holds, HoldsOnce
<1>7. InOneQueue(high, mid, low)'
  BY <1>1, <1>3, <1>4, <1>5, <1>6 DEF Placed, InOneQueue
<1>8. QueueGaps(high, mid, low)'
  <2> SUFFICES ASSUME NEW i \in Alive', NEW j \in Alive', UniqueName(i)', UniqueName(j)'
               PROVE  PairGap(high, mid, low, i, j)'
    BY DEF QueueGaps
  <2>1. i \in Alive /\ j \in Alive /\ UniqueName(i) /\ UniqueName(j)
    BY <1>1
  <2>2. PairGap(High, mid, low, i, j) /\ PairGap(High, mid, low, j, i)
    BY <2>1 DEF Placed, QueueGaps
  <2>3. Bounded(i) /\ Bounded(j)
    BY <2>1, CountsBounded
  <2>4. CASE i # idx /\ j # idx
    <3>1. Count(i)' = Count(i) /\ Count(j)' = Count(j)
      BY <1>1, <2>1, <2>4
    <3> QED
      BY <1>4, <1>5, <1>6, <2>1, <2>2, <2>4, <3>1 DEF PairGap, Gap
  <2>5. CASE i = idx /\ j # idx
    <3>1. Count(i)' = Bump(Count(i)) /\ Count(j)' = Count(j)
      BY <1>1, <2>1, <2>5
    <3>2. ~Ahead(low', i, j)
      BY <1>3, <1>5, <2>5 DEF Ahead, Holds
    <3> QED
      BY <1>2, <1>4, <1>5, <1>6, <2>1, <2>2, <2>3, <2>5, <3>1, <3>2
      DEF PairGap, Gap, Bump, Bounded
  <2>6. CASE i # idx /\ j = idx
    <3>1. Count(j)' = Bump(Count(j)) /\ Count(i)' = Count(i)
      BY <1>1, <2>1, <2>6
    <3>2. ~Ahead(low, i, j)
      BY <1>3, <2>6 DEF Ahead, Holds
    <3> QED
      BY <1>2, <1>4, <1>5, <1>6, <2>1, <2>2, <2>3, <2>6, <3>1, <3>2
      DEF PairGap, Gap, Bump, Bounded
  <2>7. CASE i = idx /\ j = idx
    <3>1. ~Ahead(low', i, j)
      BY <1>3, <1>5, <2>7 DEF Ahead, Holds
    <3> QED
      BY <1>4, <1>6, <2>1, <2>7, <3>1 DEF PairGap
  <2> QED
    BY <2>4, <2>5, <2>6, <2>7
<1> QED
  BY <1>7, <1>8 DEF Placed

(* From the low queue back to the high queue; the others are used up. *)
LEMMA FromLow ==
  ASSUME IInv, Saturated, QueuesReady, Placed(High, mid, low),
         NEW idx \in 0 .. MaxVms, Dispatch(idx), NoneAlive(High, Alive), NoneAlive(mid, Alive),
         NEW k \in DOMAIN low, FirstAlive(low, Alive, k), idx = low[k],
         high' = <<idx>>, mid' = <<>>, low' = PopFirst(low, k)
  PROVE  Placed(high, mid, low)'
<1>1. /\ idx \in Alive /\ Added' = Added /\ Alive' \subseteq Alive
      /\ \A i \in Alive : Count(i) \in Nat /\ (UniqueName(i)' <=> UniqueName(i))
      /\ \A i \in Alive \ {idx} : UniqueName(i) => Count(i)' = Count(i)
      /\ Count(idx)' = Bump(Count(idx))
  BY DispatchCounts
<1>2. \A i \in Alive : HoldsOnce(low, i) /\ Holds(low, i)
  BY DEF Placed, InOneQueue, NoneAlive, Holds
<1>3. /\ \A i \in Alive : HoldsOnce(low', i)
      /\ \A i \in Alive : Holds(low', i) <=> i # idx
      /\ \A i, j \in Alive : Ahead(low', i, j) => Ahead(low, i, j)
      /\ \A i \in Alive : i # idx => Ahead(low, idx, i)
  BY <1>2, PopKeeps DEF QueuesReady
<1>4. \A i : /\ HoldsOnce(high', i) /\ HoldsOnce(mid', i)
             /\ ~Holds(mid', i) /\ (Holds(high', i) <=> i = idx)
  BY DEF Holds, HoldsOnce
<1>5. InOneQueue(high, mid, low)'
  BY <1>1, <1>3, <1>4 DEF InOneQueue
<1>6. QueueGaps(high, mid, low)'
  <2> SUFFICES ASSUME NEW i \in Alive', NEW j \in Alive', UniqueName(i)', UniqueName(j)'
               PROVE  PairGap(high, mid, low, i, j)'
    BY DEF QueueGaps
  <2>1. i \in Alive /\ j \in Alive /\ UniqueName(i) /\ UniqueName(j)
    BY <1>1
  <2>2. PairGap(High, mid, low, i, j)
    BY <2>1 DEF Placed, QueueGaps
  <2>3. Bounded(i) /\ Bounded(j)
    BY <2>1, CountsBounded
  <2>4. CASE i # idx /\ j # idx
    <3>1. Count(i)' = Count(i) /\ Count(j)' = Count(j)
      BY <1>1, <2>1, <2>4
    <3> QED
      BY <1>3, <1>4, <2>1, <2>2, <2>4, <3>1 DEF PairGap, Gap
  <2>5. CASE i = idx /\ j # idx
    <3>1. Count(i)' = Bump(Count(i)) /\ Count(j)' = Count(j)
      BY <1>1, <2>1, <2>5
    <3>2. ~Ahead(low', i, j)
      BY <1>3, <2>1, <2>5 DEF Ahead, Holds
    <3> QED
      BY <1>3, <1>4, <2>1, <2>2, <2>3, <2>5, <3>1, <3>2 DEF PairGap, Gap, Bump, Bounded
  <2>6. CASE j = idx
    <3>1. ~Ahead(low', i, j)
      BY <1>3, <2>1, <2>6 DEF Ahead, Holds
    <3> QED
      BY <1>3, <1>4, <2>1, <2>6, <3>1 DEF PairGap
  <2> QED
    BY <2>4, <2>5, <2>6
<1> QED
  BY <1>5, <1>6 DEF Placed

-----------------------------------------------------------------------------
(* RebuildQueues puts every machine in the high queue. *)
LEMMA RebuiltPlaced ==
  ASSUME IInv, NEW m, NEW l, \A i \in Alive : ~Holds(m, i) /\ ~Holds(l, i),
         \A i \in Alive : UniqueName(i) => Count(i) = 0
  PROVE  Placed(Rebuilt(size), m, l) /\ Rebuilt(size) \in Seq(Added)
<1> DEFINE q == Rebuilt(size)
<1>1. size \in Nat /\ Added = 0 .. size - 1 /\ Alive \subseteq Added
  BY DEF IInv, TypeOK, Added, Alive
<1>2. q \in Seq(Added) /\ DOMAIN q = 1 .. size /\ \A k \in 1 .. size : q[k] = k - 1
  BY <1>1 DEF Rebuilt
<1> HIDE DEF q
<1>3. \A i \in Alive : HoldsOnce(q, i) /\ Holds(q, i)
  <2> SUFFICES ASSUME NEW i \in Alive PROVE HoldsOnce(q, i) /\ Holds(q, i)
    OBVIOUS
  <2>1. i \in Nat /\ i + 1 \in 1 .. size /\ q[i + 1] = i
    BY <1>1, <1>2
  <2>2. Holds(q, i)
    BY <1>2, <2>1 DEF Holds
  <2>3. \A k \in 1 .. size : q[k] = i => k = i + 1
    BY <1>1, <1>2, <2>1
  <2>4. HoldsOnce(q, i)
    BY <1>2, <2>3 DEF HoldsOnce
  <2> QED
    BY <2>2, <2>4
<1>4. InOneQueue(q, m, l)
  BY <1>3 DEF InOneQueue, Holds, HoldsOnce
<1>5. QueueGaps(q, m, l)
  BY DEF QueueGaps, PairGap, Holds, Ahead
<1> QED
  BY <1>2, <1>4, <1>5 DEF Placed, q

(* One call of PickNext, with the dispatch or the continue that follows. *)
LEMMA PickMlfq ==
  ASSUME IInv, MlfqInv, policy = "mlfq", policy' = policy,
         NEW idx \in 0 .. MaxVms, MlfqPick(size, Alive, idx), PickNext(idx)
  PROVE  MlfqInv'
<1>1. /\ NewNames /\ Saturated /\ QueuesOfAdded
      /\ Unplaced \/ Placed(high, mid, low)
  BY DEF MlfqInv
<1>2. Alive # {} /\ size \in Nat \ {0} /\ Alive \subseteq Added /\ Added = 0 .. size - 1
  BY DEF PickNext, SkipPick, Dispatch, Alive, Added, IInv, TypeOK
<1>3. initialized' = TRUE /\ size' = size /\ Added' = Added
  BY DEF PickNext, SkipPick, Dispatch, vars, hvVars, MlfqPick, Added
<1>4. CASE NoneAlive(High, Alive) /\ NoneAlive(mid, Alive) /\ NoneAlive(low, Alive)
  <2>1. \A i \in Alive : ~Holds(High, i) /\ ~Holds(mid, i) /\ ~Holds(low, i)
    BY <1>4 DEF NoneAlive, Holds
  <2>2. initialized /\ Unplaced
    <3>1. Unplaced
      BY <1>1, <1>2, <2>1 DEF Placed, InOneQueue, High, QueuesOfAdded, Holds
    <3>2. CASE ~initialized
      <4>1. Placed(High, mid, low)
        BY <2>1, <3>1, <3>2, RebuiltPlaced DEF High, Unplaced
      <4> QED
        BY <1>2, <2>1, <4>1 DEF Placed, InOneQueue
    <3> QED
      BY <3>1, <3>2
  <2>3. idx = 0 /\ high' = Rebuilt(size) /\ mid' = <<>> /\ low' = <<>>
    BY <1>4 DEF MlfqPick, High, FirstAlive, NoneAlive
  <2>4. SkipPick(idx)
    BY <2>2, <2>3 DEF PickNext, Dispatch, Unplaced
  <2>5. /\ UNCHANGED <<config, size, dispatched, phase>> /\ phase # "idle"
        /\ Alive' = Alive
    BY <2>4 DEF SkipPick, vars, hvVars, vmVars, Alive, Added, Terminal
  <2>6. Placed(Rebuilt(size), <<>>, <<>>) /\ Rebuilt(size) \in Seq(Added)
    BY <2>2, RebuiltPlaced DEF Unplaced, Holds
  <2>7. Placed(high, mid, low)'
    BY <1>3, <2>3, <2>5, <2>6
    DEF Placed, InOneQueue, QueueGaps, PairGap, Gap, Count, UniqueName
  <2>8. NewNames' /\ Saturated'
    BY <1>1, <1>3, <2>5 DEF NewNames, Saturated
  <2>9. QueuesOfAdded'
    BY <1>2, <1>3, <2>3, <2>6 DEF QueuesOfAdded
  <2> QED
    BY <2>5, <2>7, <2>8, <2>9 DEF MlfqInv
<1>5. CASE ~(NoneAlive(High, Alive) /\ NoneAlive(mid, Alive) /\ NoneAlive(low, Alive))
  <2>1. QueuesReady /\ Placed(High, mid, low)
    <3>1. CASE initialized
      BY <1>1, <1>5, <3>1 DEF High, QueuesReady, QueuesOfAdded, Unplaced, NoneAlive, Holds
    <3>2. CASE ~initialized
      <4>1. mid = <<>> /\ low = <<>> /\ high = <<>>
        BY <1>1, <3>2 DEF QueuesOfAdded
      <4>2. Unplaced
        BY <1>1, <1>2, <4>1 DEF Placed, InOneQueue, Holds
      <4> QED
        BY <3>2, <4>1, <4>2, RebuiltPlaced DEF High, QueuesReady, Unplaced
    <3> QED
      BY <3>1, <3>2
  <2>2. idx \in Alive
    BY <1>5 DEF MlfqPick, High, FirstAlive
  <2>3. Dispatch(idx)
    BY <2>2 DEF PickNext, SkipPick
  <2>4. idx \in Added /\ phase' # "idle" /\ NewNames' /\ Saturated'
    BY <1>1, <1>2, <2>2, <2>3, DispatchNames DEF Dispatch
  <2>5. ASSUME NEW k \in DOMAIN High, FirstAlive(High, Alive, k), idx = High[k],
               high' = PopFirst(High, k), mid' = Append(mid, idx), low' = low
        PROVE  Placed(high, mid, low)' /\ high' \in Seq(Added) /\ mid' \in Seq(Added)
                 /\ low' \in Seq(Added)
    BY <1>1, <2>1, <2>3, <2>4, <2>5, FromHigh, Popped DEF QueuesReady
  <2>6. ASSUME NoneAlive(High, Alive),
               NEW k \in DOMAIN mid, FirstAlive(mid, Alive, k), idx = mid[k],
               high' = <<>>, mid' = PopFirst(mid, k), low' = Append(low, idx)
        PROVE  Placed(high, mid, low)' /\ high' \in Seq(Added) /\ mid' \in Seq(Added)
                 /\ low' \in Seq(Added)
    BY <1>1, <2>1, <2>3, <2>4, <2>6, FromMid, Popped DEF QueuesReady
  <2>7. ASSUME NoneAlive(High, Alive), NoneAlive(mid, Alive),
               NEW k \in DOMAIN low, FirstAlive(low, Alive, k), idx = low[k],
               high' = <<idx>>, mid' = <<>>, low' = PopFirst(low, k)
        PROVE  Placed(high, mid, low)' /\ high' \in Seq(Added) /\ mid' \in Seq(Added)
                 /\ low' \in Seq(Added)
    <3>1. Placed(high, mid, low)'
      BY <1>1, <2>1, <2>3, <2>7, FromLow
    <3>2. low' \in Seq(Added)
      BY <2>1, <2>7, Popped DEF QueuesReady
    <3>3. <<idx>> \in Seq(Added) /\ <<>> \in Seq(Added)
      BY <2>4
    <3> QED
      BY <2>7, <3>1, <3>2, <3>3
  <2>8. Placed(high, mid, low)' /\ high' \in Seq(Added) /\ mid' \in Seq(Added)
          /\ low' \in Seq(Added)
    <3>1. CASE \E k \in DOMAIN High :
                 /\ FirstAlive(High, Alive, k) /\ idx = High[k]
                 /\ high' = PopFirst(High, k) /\ mid' = Append(mid, idx) /\ low' = low
      BY <2>5, <3>1
    <3>2. CASE /\ NoneAlive(High, Alive)
               /\ \E k \in DOMAIN mid :
                    /\ FirstAlive(mid, Alive, k) /\ idx = mid[k]
                    /\ high' = <<>> /\ mid' = PopFirst(mid, k) /\ low' = Append(low, idx)
      BY <2>6, <3>2
    <3>3. CASE /\ NoneAlive(High, Alive) /\ NoneAlive(mid, Alive)
               /\ \E k \in DOMAIN low :
                    /\ FirstAlive(low, Alive, k) /\ idx = low[k]
                    /\ high' = <<idx>> /\ mid' = <<>> /\ low' = PopFirst(low, k)
      BY <2>7, <3>3
    <3> QED
      BY <1>5, <3>1, <3>2, <3>3 DEF MlfqPick, High
  <2> QED
    BY <1>2, <1>3, <2>4, <2>8 DEF MlfqInv, QueuesOfAdded
<1> QED
  BY <1>4, <1>5

(* A machine that is added is in no queue, and was never dispatched. *)
LEMMA AddVmMlfq ==
  ASSUME IInv, MlfqInv, AddVm, UNCHANGED <<schedVars, policy>>, policy = "mlfq"
  PROVE  MlfqInv'
<1>1. /\ NewNames /\ Saturated /\ QueuesOfAdded
      /\ Unplaced
      /\ UNCHANGED <<config, status, phase, dispatched, high, mid, low, initialized>>
      /\ phase = "idle" /\ size' = size + 1
  BY DEF MlfqInv, AddVm, vmVars, schedVars
<1>2. size \in Vms /\ size \notin Added /\ Added' = Added \cup {size}
  BY HypervisorAssumption DEF IInv, TypeOK, AddVm, Added
<1>3. NewNames' /\ Saturated'
  BY <1>1, <1>2 DEF NewNames, Saturated
<1>4. QueuesOfAdded'
  <2>1. \A q \in Seq(Added) : q \in Seq(Added')
    BY <1>2
  <2>2. size' > 0
    BY <1>1 DEF IInv, TypeOK
  <2> QED
    BY <1>1, <2>1, <2>2 DEF QueuesOfAdded
<1>5. ASSUME NEW i \in Alive'
      PROVE  /\ ~Holds(high, i) /\ ~Holds(mid, i) /\ ~Holds(low, i)
             /\ UniqueName(i)' => Count(i)' = 0
             /\ initialized => i # 0
  <2>1. CASE i \in Added
    <3>1. i \in Alive /\ (UniqueName(i)' => UniqueName(i))
      BY <1>1, <1>2, <1>5, <2>1 DEF Alive, Terminal, UniqueName
    <3> QED
      BY <1>1, <3>1 DEF Unplaced, Count
  <2>2. CASE i = size
    <3>1. ~Holds(high, i) /\ ~Holds(mid, i) /\ ~Holds(low, i)
      BY <1>1, <1>2, <2>2 DEF QueuesOfAdded, Holds
    <3>2. config[i].name \in Names
      BY <1>2, <2>2, ConfigType DEF IInv
    <3>3. UniqueName(i)' => Count(i)' = 0
      BY <1>1, <1>2, <2>2, <3>2 DEF UniqueName, NewNames, Count
    <3>4. initialized => i # 0
      BY <1>1, <2>2 DEF QueuesOfAdded
    <3> QED
      BY <3>1, <3>3, <3>4
  <2> QED
    BY <1>2, <2>1, <2>2 DEF Alive
<1>6. Unplaced'
  BY <1>1, <1>5 DEF Unplaced, Count, Holds
<1> QED
  BY <1>3, <1>4, <1>6 DEF MlfqInv

(* Every other step of Run leaves the queues and the counters alone. *)
LEMMA QuietMlfq ==
  ASSUME IInv, MlfqInv, [Next]_vars, ~AddVm, UNCHANGED <<dispatched, schedVars, policy>>,
         policy = "mlfq"
  PROVE  MlfqInv'
<1>1. Added' = Added /\ config' = config /\ Alive' \subseteq Alive /\ size' = size
  <2>1. size' = size
    BY DEF Next, Run, RunStep, Leave, VmStep, RecordSlice, PreCopyRound,
       PreCopyReturn, TransferAndClear, PickNext, SkipPick, Dispatch, vars, hvVars
  <2> QED
    BY <2>1, AliveShrinks
<1>2. phase' = "idle" => phase = "idle" \/ Alive = {}
  BY DEF Next, Run, RunStep, Leave, VmStep, RecordSlice, PreCopyRound,
     PreCopyReturn, TransferAndClear, PickNext, SkipPick, Dispatch, vars, hvVars
<1>3. UNCHANGED <<high, mid, low, initialized, dispatched>>
  BY DEF schedVars
<1>4. NewNames' /\ Saturated' /\ QueuesOfAdded'
  BY <1>1, <1>3 DEF MlfqInv, NewNames, Saturated, QueuesOfAdded
<1>5. Unplaced => Unplaced'
  BY <1>1, <1>3 DEF Unplaced, UniqueName, Count, Holds
<1>6. Placed(high, mid, low) => Placed(high, mid, low)'
  BY <1>1, <1>3
  DEF Placed, InOneQueue, QueueGaps, PairGap, Gap, Count, UniqueName, Holds, HoldsOnce, Ahead, Bump
<1>7. Alive = {} => Unplaced'
  BY <1>1 DEF Unplaced
<1> QED
  BY <1>2, <1>4, <1>5, <1>6, <1>7 DEF MlfqInv

LEMMA MlfqStep == IInv /\ MlfqInv /\ [ScheduledNext]_allVars => MlfqInv'
<1> SUFFICES ASSUME IInv, MlfqInv, [ScheduledNext]_allVars, policy = "mlfq"
             PROVE  MlfqInv'
  BY DEF MlfqInv, ScheduledNext, Progress, allVars
<1>1. [Next]_vars /\ policy' = policy
  BY StepIsCoreStep DEF ScheduledNext, Progress, allVars
<1>2. CASE AddVm /\ UNCHANGED <<schedVars, policy>>
  BY <1>2, AddVmMlfq
<1>3. ASSUME NEW idx \in 0 .. MaxVms, Chosen(idx), PickNext(idx) PROVE MlfqInv'
  <2>1. MlfqPick(size, Alive, idx)
    BY <1>3 DEF Chosen
  <2> QED
    BY <1>1, <1>3, <2>1, PickMlfq
<1>4. CASE ((Run \/ RunStep) /\ UNCHANGED <<schedVars, policy>>) \/ UNCHANGED allVars
  <2>1. UNCHANGED <<dispatched, size, schedVars, policy>>
    BY <1>4
    DEF Run, RunStep, Leave, VmStep, RecordSlice, PreCopyRound, PreCopyReturn,
        TransferAndClear, allVars, vars, hvVars
  <2>2. ~AddVm
    BY <2>1 DEF AddVm, IInv, TypeOK
  <2> QED
    BY <1>1, <2>1, <2>2, QuietMlfq
<1> QED
  BY <1>2, <1>3, <1>4 DEF ScheduledNext, Progress, ScheduledPick

LEMMA MlfqInit == ScheduledInit => MlfqInv
BY HypervisorAssumption
DEF ScheduledInit, Init, SchedInit, MlfqInv, NewNames, Saturated, QueuesOfAdded, Unplaced,
    Added, Alive

LEMMA MlfqInductive == ScheduledSpec => []MlfqInv
<1>1. IInv /\ MlfqInv /\ [ScheduledNext]_allVars => MlfqInv'
  BY MlfqStep
<1>2. ScheduledSpec => []IInv
  BY Implements, Inductive, PTL
<1> QED
  BY MlfqInit, <1>1, <1>2, PTL DEF ScheduledSpec

(* The three queues one after the other. *)
LEMMA QueuedPositions ==
  ASSUME QueuesOfAdded
  PROVE  /\ Len(high) \in Nat /\ Len(mid) \in Nat /\ Len(low) \in Nat
         /\ DOMAIN Queued = 1 .. Len(high) + Len(mid) + Len(low)
         /\ \A k \in DOMAIN Queued : Queued[k] =
              IF k <= Len(high) THEN high[k]
              ELSE IF k <= Len(high) + Len(mid) THEN mid[k - Len(high)]
              ELSE low[k - Len(high) - Len(mid)]
<1>1. high \in Seq(Added) /\ mid \in Seq(Added) /\ low \in Seq(Added)
  BY DEF QueuesOfAdded
<1>2. /\ high \o mid \in Seq(Added) /\ Len(high \o mid) = Len(high) + Len(mid)
      /\ \A k \in 1 .. Len(high) + Len(mid) :
           (high \o mid)[k] = IF k <= Len(high) THEN high[k] ELSE mid[k - Len(high)]
  BY <1>1, ConcatProperties
<1>3. /\ Queued \in Seq(Added) /\ Len(Queued) = Len(high \o mid) + Len(low)
      /\ \A k \in 1 .. Len(high \o mid) + Len(low) :
           Queued[k] = IF k <= Len(high \o mid) THEN (high \o mid)[k] ELSE low[k - Len(high \o mid)]
  BY <1>1, <1>2, ConcatProperties DEF Queued
<1> QED
  BY <1>1, <1>2, <1>3

(***************************************************************************)
(* MlfqScheduler::PickNext neither loses a machine nor serves one twice as *)
(* often: the queues hold each machine that is not over once, or none of   *)
(* them at all, for any number of machines and of calls of AddVm and Run.  *)
(***************************************************************************)
THEOREM NoneLostOrTwice == ScheduledSpec => []QueuesHoldAlive
<1>1. MlfqInv => QueuesHoldAlive
  <2> SUFFICES ASSUME MlfqInv, policy = "mlfq"
               PROVE  /\ \A i \in Alive : \A k, l \in Entries(i) : k = l
                      /\ \/ \A i \in Alive : Entries(i) # {}
                         \/ \A i \in Alive : Entries(i) = {}
    BY DEF QueuesHoldAlive
  <2>1. QueuesOfAdded /\ (Unplaced \/ Placed(high, mid, low))
    BY DEF MlfqInv
  <2>2. \A i : Entries(i) # {} <=> Holds(high, i) \/ Holds(mid, i) \/ Holds(low, i)
    <3> SUFFICES ASSUME NEW i
                 PROVE  Entries(i) # {} <=> Holds(high, i) \/ Holds(mid, i) \/ Holds(low, i)
      OBVIOUS
    <3>1. ASSUME NEW k \in Entries(i) PROVE Holds(high, i) \/ Holds(mid, i) \/ Holds(low, i)
      BY <2>1, <3>1, QueuedPositions DEF Entries, Holds, QueuesOfAdded
    <3>2. ASSUME NEW k \in DOMAIN high, high[k] = i PROVE k \in Entries(i)
      BY <2>1, <3>2, QueuedPositions DEF Entries, QueuesOfAdded
    <3>3. ASSUME NEW k \in DOMAIN mid, mid[k] = i PROVE Len(high) + k \in Entries(i)
      BY <2>1, <3>3, QueuedPositions DEF Entries, QueuesOfAdded
    <3>4. ASSUME NEW k \in DOMAIN low, low[k] = i
          PROVE  Len(high) + Len(mid) + k \in Entries(i)
      BY <2>1, <3>4, QueuedPositions DEF Entries, QueuesOfAdded
    <3> QED
      BY <3>1, <3>2, <3>3, <3>4 DEF Holds
  <2>3. CASE Unplaced
    BY <2>2, <2>3 DEF Unplaced
  <2>4. CASE Placed(high, mid, low)
    <3>1. \A i \in Alive : Entries(i) # {}
      BY <2>2, <2>4 DEF Placed, InOneQueue
    <3>2. ASSUME NEW i \in Alive, NEW k \in Entries(i), NEW l \in Entries(i) PROVE k = l
      <4>1. /\ HoldsOnce(high, i) /\ HoldsOnce(mid, i) /\ HoldsOnce(low, i)
            /\ ~(Holds(high, i) /\ Holds(mid, i))
            /\ ~(Holds(high, i) /\ Holds(low, i))
            /\ ~(Holds(mid, i) /\ Holds(low, i))
        BY <2>4 DEF Placed, InOneQueue
      <4> DEFINE a(x) == x \in DOMAIN high /\ high[x] = i
                 b(x) == x - Len(high) \in DOMAIN mid /\ mid[x - Len(high)] = i
                 c(x) == /\ x - Len(high) - Len(mid) \in DOMAIN low
                         /\ low[x - Len(high) - Len(mid)] = i
      <4>2. \A x \in Entries(i) : x \in Nat /\ (a(x) \/ b(x) \/ c(x))
        BY <2>1, QueuedPositions DEF Entries, QueuesOfAdded
      <4>3. \A x \in Entries(i) : /\ a(x) => Holds(high, i)
                                  /\ b(x) => Holds(mid, i)
                                  /\ c(x) => Holds(low, i)
        BY DEF Holds
      <4>4. /\ a(k) /\ a(l) => k = l
            /\ b(k) /\ b(l) => k - Len(high) = l - Len(high)
            /\ c(k) /\ c(l) => k - Len(high) - Len(mid) = l - Len(high) - Len(mid)
        BY <4>1 DEF HoldsOnce
      <4> HIDE DEF a, b, c
      <4>5. Len(high) \in Nat /\ Len(mid) \in Nat
        BY <2>1, QueuedPositions
      <4> QED
        BY <4>1, <4>2, <4>3, <4>4, <4>5
    <3> QED
      BY <3>1, <3>2
  <2> QED
    BY <2>1, <2>3, <2>4
<1> QED
  BY <1>1, MlfqInductive, PTL

(***************************************************************************)
(* The dispatches of two machines that are not over differ by at most one  *)
(* under round robin and by at most three under MLFQ, for any number of    *)
(* machines, any programs and any slices.                                  *)
(***************************************************************************)
THEOREM Balanced == ScheduledSpec => []DispatchesBalanced
<1>1. IInv /\ MlfqInv => (policy = "mlfq" => DispatchesBalanced)
  <2> SUFFICES ASSUME IInv, MlfqInv, policy = "mlfq",
                      NEW i \in Alive, NEW j \in Alive, UniqueName(i), UniqueName(j)
               PROVE  Count(i) <= Count(j) + 3
    BY DEF DispatchesBalanced, Skew, Count
  <2>1. Bounded(i) /\ Bounded(j)
    BY CountsBounded DEF MlfqInv
  <2>2. CASE Unplaced
    BY <2>1, <2>2 DEF Unplaced, Bounded
  <2>3. CASE Placed(high, mid, low)
    <3>1. PairGap(high, mid, low, i, j) /\ PairGap(high, mid, low, j, i)
      BY <2>3 DEF Placed, QueueGaps
    <3>2. /\ Holds(high, i) \/ Holds(mid, i) \/ Holds(low, i)
          /\ Holds(high, j) \/ Holds(mid, j) \/ Holds(low, j)
      BY <2>3 DEF Placed, InOneQueue
    <3>3. Holds(low, i) /\ Holds(low, j) => i = j \/ Ahead(low, i, j) \/ Ahead(low, j, i)
      BY DEF Holds, Ahead, MlfqInv, QueuesOfAdded
    <3> QED
      BY <2>1, <3>1, <3>2, <3>3 DEF PairGap, Gap, Bump, Bounded
  <2> QED
    BY <2>2, <2>3 DEF MlfqInv
<1>2. ScheduledSpec => [](policy = "round_robin" => DispatchesBalanced)
  BY RoundRobinIsFair
<1>3. (policy = "round_robin" => DispatchesBalanced) /\ (policy = "mlfq" => DispatchesBalanced)
        /\ policy \in Policies => DispatchesBalanced
  BY PolicyAssumption DEF DispatchesBalanced
<1>4. ScheduledSpec => []IInv
  BY Implements, Inductive, PTL
<1>5. ScheduledSpec => [](policy \in Policies)
  <2>1. ScheduledInit => policy \in Policies
    BY DEF ScheduledInit
  <2>2. policy \in Policies /\ [ScheduledNext]_allVars => (policy \in Policies)'
    BY DEF ScheduledNext, Progress, allVars
  <2> QED
    BY <2>1, <2>2, PTL DEF ScheduledSpec
<1> QED
  BY <1>1, <1>2, <1>3, <1>4, <1>5, MlfqInductive, PTL

(* Fewer dispatches of the same slice promise no more. *)
LEMMA FewerDispatches ==
  ASSUME NEW a \in Int, NEW b \in Int, a <= b, NEW slice \in Nat
  PROVE  a * slice <= b * slice
<1>1. (b - a) * slice >= 0
  OBVIOUS
<1>2. (b - a) * slice = b * slice - a * slice
  OBVIOUS
<1> QED
  BY <1>1, <1>2

(***************************************************************************)
(* While a machine that never migrates waits, the others have at most Skew *)
(* dispatches that it was not compensated for with a slice of its own:     *)
(* from SlicesAreWhole, which is about the hypervisor, and                 *)
(* DispatchesBalanced, which is about the scheduler.                       *)
(***************************************************************************)
THEOREM BoundedWait == ScheduledSpec => []WaitIsBounded
<1>1. IInv /\ SlicesAreWhole /\ DispatchesBalanced => WaitIsBounded
  <2> SUFFICES ASSUME IInv, SlicesAreWhole, DispatchesBalanced, policy # "priority",
                      phase \in {"idle", "loop"}, NEW i \in Alive, NEW j \in Alive,
                      UniqueName(i), UniqueName(j), NeverMigrates(i)
               PROVE  (Count(j) - Skew) * config[i].execSlice <= pc[i]
    BY DEF WaitIsBounded, Count
  <2>1. i \in Added /\ ~InSlice(i)
    BY DEF Alive, InSlice
  <2>2. retired[config[i].name] = pc[i]
    BY <2>1 DEF IInv, MetricsInv
  <2>3. Count(i) * config[i].execSlice <= pc[i]
    BY <2>2 DEF SlicesAreWhole, Count
  <2>4. Count(j) <= Count(i) + Skew
    BY DEF DispatchesBalanced, Count
  <2>5. /\ Count(i) \in Nat /\ Count(j) \in Nat
        /\ config[i].execSlice \in Nat /\ pc[i] \in Nat
    BY AddedAreVms, ConfigType DEF Count, Alive, IInv, TypeOK, VmTypeOK
  <2>6. Skew \in Nat
    BY DEF Skew
  <2>7. Count(j) - Skew \in Int /\ Count(j) - Skew <= Count(i)
    BY <2>4, <2>5, <2>6
  <2> DEFINE paid == (Count(j) - Skew) * config[i].execSlice
             own  == Count(i) * config[i].execSlice
  <2>8. paid <= own
    BY <2>5, <2>7, FewerDispatches
  <2>9. paid \in Int /\ own \in Int
    BY <2>5, <2>7
  <2> HIDE DEF paid, own
  <2>10. own <= pc[i]
    BY <2>3 DEF own
  <2>11. paid <= pc[i]
    BY <2>5, <2>8, <2>9, <2>10
  <2> QED
    BY <2>11 DEF paid
<1>2. ScheduledSpec => []IInv
  BY Implements, Inductive, PTL
<1>3. ScheduledSpec => []SlicesAreWhole
  BY Implements, WholeSlices, PTL
<1> QED
  BY <1>1, <1>2, <1>3, Balanced, PTL

-----------------------------------------------------------------------------

(***************************************************************************)
(*                  The hypervisor and its migrations                      *)
(***************************************************************************)

(***************************************************************************)
(* The inductive invariant.  A result stands only while SendWithRetry is   *)
(* not called, and no attempt is made before the handshake is over.        *)
(***************************************************************************)
ResultStands ==
  /\ result # "none" => sendPhase = "idle"
  /\ sendPhase = "handshake" => attempt = 0
  /\ FailureIsExhaustive

DeliveryInv == ProtocolTypeOK /\ ResultStands

LEMMA DeliveryInit == ProtocolInit => DeliveryInv
  BY ProtocolAssumption
  DEF ProtocolInit, DeliveryInv, ProtocolTypeOK, SendPhase, ResultStands, FailureIsExhaustive

(* The calls and returns of SendWithRetry and of the transport. *)
LEMMA SenderPreserves ==
  ASSUME DeliveryInv, (\E s \in Snapshots : SendWithRetry(s)) \/ SenderStep
  PROVE  DeliveryInv'
<1>1. CASE \E s \in Snapshots : SendWithRetry(s)
  <2>1. PICK s \in Snapshots : SendWithRetry(s)
    BY <1>1
  <2>2. sendPhase' = "handshake" /\ sending' = s /\ attempt' = 0 /\ result' = "none" /\ wire' = wire
    BY <2>1 DEF SendWithRetry
  <2>3. attempt' \in 0 .. MaxAttempts
    BY <2>2, ProtocolAssumption
  <2>4. ProtocolTypeOK'
    BY <2>2, <2>3 DEF DeliveryInv, ProtocolTypeOK, SendPhase
  <2>5. ResultStands'
    BY <2>2 DEF ResultStands, FailureIsExhaustive
  <2> QED
    BY <2>4, <2>5 DEF DeliveryInv
<1>2. CASE HandshakeReturns
  <2>1. ProtocolTypeOK'
    BY <1>2 DEF HandshakeReturns, Return, DeliveryInv, ProtocolTypeOK, SendPhase
  <2>2. ResultStands'
    BY <1>2
    DEF HandshakeReturns, Return, DeliveryInv, ResultStands, FailureIsExhaustive
  <2> QED
    BY <2>1, <2>2 DEF DeliveryInv
<1>3. CASE CallSendPacket
  <2>1. /\ sendPhase = "loop" /\ sendPhase' = "sending" /\ attempt' = attempt + 1
        /\ attempt < MaxAttempts /\ UNCHANGED <<sending, result>>
        /\ wire' \subseteq wire \cup {sending}
    BY <1>3 DEF CallSendPacket
  <2>2. sending \in Snapshots /\ attempt \in 0 .. MaxAttempts /\ wire \subseteq Snapshots
        /\ result = "none"
    BY <2>1 DEF DeliveryInv, ProtocolTypeOK, ResultStands
  <2>3. attempt' \in 0 .. MaxAttempts
    BY <2>1, <2>2, ProtocolAssumption
  <2>4. wire' \subseteq Snapshots
    BY <2>1, <2>2
  <2>5. ProtocolTypeOK'
    BY <2>1, <2>2, <2>3, <2>4 DEF ProtocolTypeOK, SendPhase
  <2>6. ResultStands'
    BY <2>1, <2>2 DEF ResultStands, FailureIsExhaustive
  <2> QED
    BY <2>5, <2>6 DEF DeliveryInv
<1>4. CASE SendPacketReturns
  <2>1. ProtocolTypeOK'
    BY <1>4 DEF SendPacketReturns, Return, DeliveryInv, ProtocolTypeOK, SendPhase
  <2>2. ResultStands'
    BY <1>4
    DEF SendPacketReturns, Return, DeliveryInv, ResultStands, FailureIsExhaustive
  <2> QED
    BY <2>1, <2>2 DEF DeliveryInv
<1>5. CASE GiveUp
  <2>1. ProtocolTypeOK'
    BY <1>5 DEF GiveUp, Return, DeliveryInv, ProtocolTypeOK, SendPhase
  <2>2. ResultStands'
    BY <1>5
    DEF GiveUp, Return, DeliveryInv, ResultStands, FailureIsExhaustive
  <2> QED
    BY <2>1, <2>2 DEF DeliveryInv
<1> QED
  BY <1>1, <1>2, <1>3, <1>4, <1>5 DEF SenderStep

(* The arrival and the loss of a packet. *)
LEMMA TransitPreserves ==
  ASSUME DeliveryInv, NEW s \in wire, Receive(s) \/ Lose(s)
  PROVE  DeliveryInv'
<1>1. wire' \subseteq wire /\ UNCHANGED senderVars
  BY DEF Receive, Lose
<1> QED
  BY <1>1
  DEF senderVars, DeliveryInv, ProtocolTypeOK, ResultStands, FailureIsExhaustive

(* The protocol's invariant takes any step of the protocol. *)
LEMMA DeliveryStep == DeliveryInv /\ [ProtocolNext]_protocolVars => DeliveryInv'
<1> SUFFICES ASSUME DeliveryInv, [ProtocolNext]_protocolVars PROVE DeliveryInv'
  OBVIOUS
<1>1. CASE (\E s \in Snapshots : SendWithRetry(s)) \/ SenderStep
  BY <1>1, SenderPreserves
<1>2. CASE \E s \in wire : Receive(s) \/ Lose(s)
  BY <1>2, TransitPreserves
<1>3. CASE UNCHANGED protocolVars
  BY <1>3
  DEF protocolVars, senderVars, DeliveryInv, ProtocolTypeOK, ResultStands, FailureIsExhaustive
<1> QED
  BY <1>1, <1>2, <1>3 DEF ProtocolNext

(* The invariant above holds in every state of every behaviour. *)
THEOREM DeliveryInductive == ProtocolSpec => []DeliveryInv
  BY DeliveryInit, DeliveryStep, PTL DEF ProtocolSpec

(* Every variable of SendWithRetry and the wire keeps its type. *)
THEOREM DeliveryTypeCorrect == ProtocolSpec => []ProtocolTypeOK
  BY DeliveryInductive, PTL DEF DeliveryInv

(* It returns false only after a failed handshake or after every attempt. *)
THEOREM Failure == ProtocolSpec => []FailureIsExhaustive
<1>1. DeliveryInv => FailureIsExhaustive
  BY DEF DeliveryInv, ResultStands
<1> QED
  BY DeliveryInductive, <1>1, PTL

-----------------------------------------------------------------------------

(***************************************************************************)
(* What the agreement of the hosts rests on: a machine at its MIGRATE      *)
(* moves on neither host, and a slice of it retires nothing.               *)
(***************************************************************************)
OnMigrate(i) == AtInstruction(i, "Migrate") /\ (InSlice(i) => ran = 0)

(* A snapshot that is still what Snapshot would take of its machine. *)
Fresh(s) == s.pc = pc[s.vm] /\ OnMigrate(s.vm)

(* Run waits in the transfer while SendWithRetry is at work. *)
TransferInv ==
  /\ called \in BOOLEAN
  /\ called => phase = "precopy" /\ call = "none" /\ round = PreCopyRounds
  /\ sendPhase # "idle" => called /\ sending = Snapshot(cur)

WireInv == \A s \in wire : Fresh(s)

TargetInv ==
  /\ target \in [Vms -> TargetMachine \cup {Absent}]
  /\ \A i \in Vms : target[i] # Absent => target[i].pc = pc[i] /\ OnMigrate(i)

AgreeInv == IInv /\ DeliveryInv /\ TransferInv /\ WireInv /\ TargetInv

-----------------------------------------------------------------------------

(* A step of the composition is a step of the hypervisor or none at all. *)
LEMMA IsCoreStep == [MigrationNext]_migrationVars => [Next]_vars
BY DEF MigrationNext, CallerStep, SourceStep, HostStep, SendSnapshot, TransportStep,
   MigrationEnds, TargetStep, Deliver, Drop, RunOnTarget, migrationVars, Next, RunStep

(* The transfer sends a snapshot of a machine that is on its MIGRATE. *)
LEMMA SnapshotIsFresh ==
  ASSUME IInv, phase = "precopy"
  PROVE  Snapshot(cur) \in Snapshots /\ Fresh(Snapshot(cur)) /\ cur \in Vms
<1>1. cur \in Vms /\ program[cur] \in Programs /\ pc[cur] \in 0 .. Len(program[cur])
  BY ProgramType DEF IInv, TypeOK, VmTypeOK, MachineInv
<1>2. Snapshot(cur) \in [vm : Vms, pc : 0 .. Len(program[cur])]
  BY <1>1 DEF Snapshot
<1>3. Snapshot(cur) \in Snapshots
  BY <1>1, <1>2, MigrationAssumption
<1>4. OnMigrate(cur)
  BY DEF IInv, PreCopyInv, OnMigrate, InSlice
<1> QED
  BY <1>1, <1>3, <1>4 DEF Fresh, Snapshot

(* A step of the composition is a step of the protocol or none at all. *)
LEMMA IsProtocolStep ==
  ASSUME IInv, [MigrationNext]_migrationVars
  PROVE  [ProtocolNext]_protocolVars
<1>1. CASE SendSnapshot
  BY <1>1, SnapshotIsFresh DEF SendSnapshot, ProtocolNext
<1>2. CASE ~SendSnapshot
  BY <1>2
  DEF MigrationNext, CallerStep, SourceStep, HostStep, TransportStep, MigrationEnds,
      TargetStep, Deliver, Drop, RunOnTarget, migrationVars, ProtocolNext
<1> QED
  BY <1>1, <1>2

-----------------------------------------------------------------------------

(* No step of the hypervisor gets a machine past its MIGRATE. *)
LEMMA MigrateStays ==
  ASSUME IInv, [Next]_vars, NEW i \in Vms, OnMigrate(i)
  PROVE  pc'[i] = pc[i] /\ OnMigrate(i)'
<1>1. program' = program
  BY DEF Next, AddVm, Run, RunStep, Leave, VmStep, ExecuteSlice, ExecuteRetire, ExecuteTrap,
     ExecuteMigrate, ExecuteHalt, FinishSlice, RecordSlice, TakeResult, PreCopyRound,
     RunForSlice, PreCopyReturn, TransferAndClear, PickNext, SkipPick, Dispatch, vars, vmVars
<1>2. pc'[i] = pc[i]
  <2>1. CASE VmStep /\ ExecuteRetire
    <3>1. cur # i
      BY <2>1 DEF ExecuteRetire, AtInstruction, OnMigrate
    <3> QED
      BY <2>1, <3>1 DEF ExecuteRetire, IInv, TypeOK, VmTypeOK
  <2>2. CASE ~(VmStep /\ ExecuteRetire)
    BY <2>2
    DEF Next, AddVm, Run, RunStep, Leave, VmStep, ExecuteSlice, ExecuteTrap,
        ExecuteMigrate, ExecuteHalt, FinishSlice, RecordSlice, TakeResult, PreCopyRound,
        RunForSlice, PreCopyReturn, TransferAndClear, PickNext, SkipPick, Dispatch, vars, vmVars
  <2> QED
    BY <2>1, <2>2
<1>3. InSlice(i)' => ran' = 0
  <2>1. CASE VmStep
    <3>1. UNCHANGED <<phase, cur>>
      BY <2>1 DEF VmStep, ExecuteSlice, ExecuteRetire, ExecuteTrap, ExecuteMigrate,
         ExecuteHalt, FinishSlice, hvVars
    <3>2. CASE InSlice(i)
      <4>1. ~ExecuteRetire
        BY <3>2 DEF ExecuteRetire, AtInstruction, OnMigrate, InSlice
      <4> QED
        BY <2>1, <3>2, <4>1 DEF OnMigrate, VmStep, ExecuteSlice, ExecuteTrap,
           ExecuteMigrate, ExecuteHalt, FinishSlice
    <3> QED
      BY <3>1, <3>2 DEF InSlice
  <2>2. CASE \E idx \in 0 .. MaxVms : Dispatch(idx)
    BY <2>2 DEF Dispatch, RunForSlice
  <2>3. CASE phase' # "dispatch"
    BY <2>3 DEF InSlice
  <2>4. CASE UNCHANGED <<phase, cur, ran>>
    BY <2>4 DEF InSlice, OnMigrate
  <2> QED
    BY <2>1, <2>2, <2>3, <2>4
    DEF Next, AddVm, Run, RunStep, Leave, RecordSlice, PreCopyRound, PreCopyReturn,
        TransferAndClear, PickNext, SkipPick, vars, vmVars, hvVars
<1> QED
  BY <1>1, <1>2, <1>3 DEF OnMigrate, AtInstruction, InProgram

(* While the transfer lasts no other step of Run is taken. *)
LEMMA TransferWaits ==
  ASSUME TransferInv, called
  PROVE  ~HostStep /\ ~CallerStep
<1>1. phase = "precopy" /\ call = "none" /\ ~(round < PreCopyRounds)
  BY HypervisorAssumption DEF TransferInv
<1>2. ~VmStep
  BY <1>1 DEF VmStep, ExecuteSlice, ExecuteRetire, ExecuteTrap, ExecuteMigrate, ExecuteHalt,
     FinishSlice, LoopContinues
<1> QED
  BY <1>1, <1>2 DEF HostStep, CallerStep, AddVm, Run, Leave, RecordSlice, PreCopyRound,
     PreCopyReturn, TakeResult, PickNext, SkipPick, Dispatch

LEMMA TransferStep ==
  ASSUME AgreeInv, [MigrationNext]_migrationVars
  PROVE  TransferInv'
<1>1. CASE HostStep \/ CallerStep
  <2>1. ~called /\ called \in BOOLEAN /\ sendPhase = "idle"
    BY <1>1, TransferWaits DEF AgreeInv, TransferInv
  <2>2. called' = FALSE /\ sendPhase' = sendPhase
    BY <1>1, <2>1 DEF HostStep, CallerStep, protocolVars, senderVars
  <2> QED
    BY <2>1, <2>2 DEF TransferInv
<1>2. CASE SendSnapshot
  BY <1>2 DEF SendSnapshot, SendWithRetry, TransferInv, Snapshot, vars, vmVars, hvVars
<1>3. CASE TransportStep
  <2>1. UNCHANGED <<sending, vars, called>> /\ sendPhase # "idle"
    BY <1>3 DEF TransportStep, SenderStep, HandshakeReturns, CallSendPacket,
       SendPacketReturns, GiveUp
  <2> QED
    BY <2>1 DEF AgreeInv, TransferInv, Snapshot, vars, vmVars, hvVars
<1>4. CASE MigrationEnds
  BY <1>4 DEF MigrationEnds, TransferInv, protocolVars, senderVars
<1>5. CASE TargetStep \/ UNCHANGED migrationVars
  <2>1. UNCHANGED <<senderVars, vars, called>>
    BY <1>5 DEF TargetStep, Deliver, Receive, Drop, Lose, RunOnTarget, migrationVars, protocolVars
  <2> QED
    BY <2>1 DEF AgreeInv, TransferInv, Snapshot, senderVars, vars, vmVars, hvVars
<1> QED
  BY <1>1, <1>2, <1>3, <1>4, <1>5 DEF MigrationNext, SourceStep

(* A snapshot in transit stays fresh, and so does one that is sent. *)
LEMMA WireStep ==
  ASSUME AgreeInv, [MigrationNext]_migrationVars
  PROVE  WireInv'
<1>1. ASSUME NEW s \in Snapshots, Fresh(s) PROVE Fresh(s)'
  <2>1. s.vm \in Vms
    BY <1>1, MigrationAssumption
  <2> QED
    BY <1>1, <2>1, IsCoreStep, MigrateStays DEF AgreeInv, Fresh
<1>2. wire \subseteq Snapshots
  BY DEF AgreeInv, DeliveryInv, ProtocolTypeOK
<1>3. CASE wire' \subseteq wire
  BY <1>1, <1>2, <1>3 DEF AgreeInv, WireInv
<1>4. CASE TransportStep /\ CallSendPacket
  <2>1. sending \in Snapshots /\ sending = Snapshot(cur) /\ phase = "precopy"
    BY <1>4 DEF CallSendPacket, AgreeInv, DeliveryInv, ProtocolTypeOK, TransferInv
  <2>2. Fresh(sending)
    BY <2>1, SnapshotIsFresh DEF AgreeInv
  <2>3. wire' \subseteq wire \cup {sending}
    BY <1>4 DEF CallSendPacket
  <2>4. \A s \in wire' : s \in Snapshots /\ Fresh(s)
    BY <1>2, <2>1, <2>2, <2>3 DEF AgreeInv, WireInv
  <2> QED
    BY <1>1, <2>4 DEF WireInv
<1> QED
  BY <1>3, <1>4
  DEF MigrationNext, CallerStep, SourceStep, HostStep, SendSnapshot, SendWithRetry, TransportStep,
      SenderStep, HandshakeReturns, SendPacketReturns, GiveUp, MigrationEnds, TargetStep, Deliver,
      Receive, Drop, Lose, RunOnTarget, migrationVars, protocolVars

(* The target's machines stay at their MIGRATE, restored, run or left alone. *)
LEMMA TargetInvStep ==
  ASSUME AgreeInv, [MigrationNext]_migrationVars
  PROVE  TargetInv'
<1>1. \A i \in Vms : OnMigrate(i) => pc'[i] = pc[i] /\ OnMigrate(i)'
  BY IsCoreStep, MigrateStays DEF AgreeInv
<1>2. ASSUME NEW s \in wire, Deliver(s) PROVE TargetInv'
  <2>1. Fresh(s) /\ s.vm \in Vms /\ s.pc \in Nat
    BY MigrationAssumption DEF AgreeInv, DeliveryInv, ProtocolTypeOK, WireInv
  <2>2. Restored(s) \in TargetMachine /\ Restored(s).pc = s.pc
    BY <2>1 DEF Restored, TargetMachine, VmStatus
  <2>3. target' = [target EXCEPT ![s.vm] = Restored(s)]
    BY <1>2 DEF Deliver
  <2>4. /\ target' \in [Vms -> TargetMachine \cup {Absent}]
        /\ target'[s.vm] = Restored(s)
        /\ \A i \in Vms \ {s.vm} : target'[i] = target[i]
    BY <2>1, <2>2, <2>3 DEF AgreeInv, TargetInv
  <2>5. ASSUME NEW i \in Vms, target'[i] # Absent
        PROVE  target'[i].pc = pc'[i] /\ OnMigrate(i)'
    <3>1. CASE i = s.vm
      BY <1>1, <2>1, <2>2, <2>4, <3>1 DEF Fresh
    <3>2. CASE i # s.vm
      BY <1>1, <2>4, <2>5, <3>2 DEF AgreeInv, TargetInv
    <3> QED
      BY <3>1, <3>2
  <2> QED
    BY <2>4, <2>5 DEF TargetInv
<1>3. ASSUME NEW i \in Vms, RunOnTarget(i) PROVE TargetInv'
  <2>1. target[i] # Absent /\ target[i].pc = pc[i] /\ OnMigrate(i) /\ pc[i] \in Nat
    BY <1>3 DEF RunOnTarget, AgreeInv, TargetInv, IInv, TypeOK, VmTypeOK
  <2>2. PICK k \in 0 .. Len(program[i]) :
          /\ OnTarget!SliceRetires(i, k)
          /\ target' = [target EXCEPT ![i] = [pc |-> @.pc + k, status |-> StatusAfter(i, k)]]
    BY <1>3 DEF RunOnTarget
  <2>3. k = 0
    <3>1. \A j \in 1 .. k : program[i][pc[i] + j] = "Retire"
      BY <2>1, <2>2 DEF OnTarget!SliceRetires
    <3>2. program[i][pc[i] + 1] = "Migrate"
      BY <2>1 DEF OnMigrate, AtInstruction
    <3>3. k \in Nat
      BY <2>2, ProgramType DEF AgreeInv, IInv
    <3>4. k # 0 => 1 \in 1 .. k
      BY <3>3
    <3> QED
      BY <3>1, <3>2, <3>4
  <2>4. StatusAfter(i, k) \in VmStatus
    BY DEF StatusAfter, VmStatus
  <2>5. target'[i] = [pc |-> pc[i], status |-> StatusAfter(i, k)]
    BY <2>1, <2>2, <2>3 DEF AgreeInv, TargetInv
  <2>6. target'[i] \in TargetMachine /\ target'[i].pc = pc[i]
    BY <2>1, <2>4, <2>5 DEF TargetMachine
  <2>7. target' \in [Vms -> TargetMachine \cup {Absent}]
        /\ \A j \in Vms \ {i} : target'[j] = target[j]
    BY <2>2, <2>6 DEF AgreeInv, TargetInv
  <2> QED
    BY <1>1, <2>1, <2>6, <2>7 DEF AgreeInv, TargetInv
<1>4. CASE target' = target
  BY <1>1, <1>4 DEF AgreeInv, TargetInv
<1> QED
  BY <1>2, <1>3, <1>4
  DEF MigrationNext, CallerStep, SourceStep, HostStep, SendSnapshot, TransportStep,
      MigrationEnds, TargetStep, Drop, migrationVars

LEMMA AgreeInit == MigrationInit => AgreeInv
<1> SUFFICES ASSUME MigrationInit PROVE AgreeInv
  OBVIOUS
<1>1. IInv /\ DeliveryInv
  BY InitInv, DeliveryInit DEF MigrationInit
<1> QED
  BY <1>1 DEF MigrationInit, ProtocolInit, AgreeInv, TransferInv, WireInv, TargetInv

LEMMA AgreeStep == AgreeInv /\ [MigrationNext]_migrationVars => AgreeInv'
<1> SUFFICES ASSUME AgreeInv, [MigrationNext]_migrationVars PROVE AgreeInv'
  OBVIOUS
<1>1. IInv'
  BY IsCoreStep, NextInv DEF AgreeInv
<1>2. DeliveryInv'
  BY IsProtocolStep, DeliveryStep DEF AgreeInv
<1> QED
  BY <1>1, <1>2, TransferStep, WireStep, TargetInvStep DEF AgreeInv

(* The invariant above holds in every state of every behaviour. *)
THEOREM AgreeInductive == MigrationSpec => []AgreeInv
<1>1. MigrationInit => AgreeInv
  BY AgreeInit
<1>2. AgreeInv /\ [MigrationNext]_migrationVars => AgreeInv'
  BY AgreeStep
<1> QED
  BY <1>1, <1>2, PTL DEF MigrationSpec

(***************************************************************************)
(* With the transfer inside it, PreCopyMigrate is still what HypervisorCore*)
(* takes it for: everything proved there holds of a host that migrates.    *)
(***************************************************************************)
THEOREM MigratingIsCore == MigrationSpec => Spec
<1>1. MigrationInit => Init
  BY DEF MigrationInit
<1>2. [MigrationNext]_migrationVars => [Next]_vars
  BY IsCoreStep
<1> QED
  BY <1>1, <1>2, PTL DEF MigrationSpec, Spec

(***************************************************************************)
(* The hypervisor calls SendWithRetry as the protocol expects, one call at *)
(* a time and with a snapshot it took: what is proved of the protocol      *)
(* holds of the migrations of the hypervisor.                              *)
(***************************************************************************)
THEOREM MigratingIsProtocol == MigrationSpec => ProtocolSpec
<1>1. MigrationInit => ProtocolInit
  BY DEF MigrationInit
<1>2. AgreeInv /\ [MigrationNext]_migrationVars => [ProtocolNext]_protocolVars
  BY IsProtocolStep DEF AgreeInv
<1> QED
  BY <1>1, <1>2, AgreeInductive, PTL DEF MigrationSpec, ProtocolSpec

(* Both hosts, the packets and the target keep their types. *)
THEOREM MigrationTypeCorrect == MigrationSpec => []MigrationTypeOK
<1>1. AgreeInv => MigrationTypeOK
  BY DEF AgreeInv, IInv, DeliveryInv, TransferInv, TargetInv, MigrationTypeOK
<1> QED
  BY <1>1, AgreeInductive, PTL

(* Source and target have a migrated machine at the same instruction. *)
THEOREM Agreement == MigrationSpec => []HostsAgree
<1>1. AgreeInv => HostsAgree
  BY DEF AgreeInv, TargetInv, HostsAgree
<1> QED
  BY <1>1, AgreeInductive, PTL

-----------------------------------------------------------------------------

(* A migration has a natural number of steps left. *)
LEMMA MigrationLeftIsNatural == AgreeInv => MigrationLeft \in Nat
<1> SUFFICES ASSUME AgreeInv PROVE MigrationLeft \in Nat
  OBVIOUS
<1>1. /\ MaxAttempts \in Nat /\ attempt \in 0 .. MaxAttempts /\ sendPhase \in SendPhase
      /\ Left \in Nat
  BY ProtocolAssumption, LeftIsNatural DEF AgreeInv, DeliveryInv, ProtocolTypeOK
<1>2. TransferLeft \in Nat
  BY <1>1 DEF TransferLeft, SendPhase
<1> QED
  BY <1>1, <1>2 DEF MigrationLeft

(* A step of SendWithRetry brings its return nearer. *)
LEMMA TransportNearsEnd ==
  ASSUME AgreeInv, TransportStep
  PROVE  TransferLeft' < TransferLeft /\ called /\ called' = called /\ phase' = phase
<1>1. /\ MaxAttempts \in Nat /\ attempt \in 0 .. MaxAttempts
  BY ProtocolAssumption DEF AgreeInv, DeliveryInv, ProtocolTypeOK
<1>2. sendPhase # "idle" /\ called /\ called' = called /\ phase' = phase
  BY DEF AgreeInv, TransferInv, TransportStep, SenderStep, HandshakeReturns, CallSendPacket,
     SendPacketReturns, GiveUp, vars, hvVars
<1>3. CASE HandshakeReturns
  <2>1. TransferLeft = 2 * MaxAttempts + 3
    BY <1>3 DEF HandshakeReturns, TransferLeft
  <2>2. \/ sendPhase' = "loop" /\ attempt' = attempt
        \/ sendPhase' = "idle"
    BY <1>3 DEF HandshakeReturns, Return
  <2>3. \/ TransferLeft' = 2 * (MaxAttempts - attempt) + 2
        \/ TransferLeft' = 1
    BY <2>2 DEF TransferLeft
  <2>4. TransferLeft' < TransferLeft
    BY <1>1, <2>1, <2>3
  <2> QED
    BY <1>2, <2>4
<1>4. CASE CallSendPacket
  <2>1. TransferLeft = 2 * (MaxAttempts - attempt) + 2
    BY <1>4 DEF CallSendPacket, TransferLeft
  <2>2. TransferLeft' = 2 * (MaxAttempts - (attempt + 1)) + 3
    BY <1>4 DEF CallSendPacket, TransferLeft
  <2>3. TransferLeft' < TransferLeft
    BY <1>1, <2>1, <2>2
  <2> QED
    BY <1>2, <2>3
<1>5. CASE SendPacketReturns
  <2>1. TransferLeft = 2 * (MaxAttempts - attempt) + 3
    BY <1>5 DEF SendPacketReturns, TransferLeft
  <2>2. (sendPhase' = "loop" \/ sendPhase' = "idle") /\ attempt' = attempt
    BY <1>5 DEF SendPacketReturns, Return
  <2>3. \/ TransferLeft' = 2 * (MaxAttempts - attempt) + 2
        \/ TransferLeft' = 1
    BY <2>2 DEF TransferLeft
  <2>4. TransferLeft' < TransferLeft
    BY <1>1, <2>1, <2>3
  <2> QED
    BY <1>2, <2>4
<1>6. CASE GiveUp
  <2>1. TransferLeft = 2 * (MaxAttempts - attempt) + 2
    BY <1>6 DEF GiveUp, TransferLeft
  <2>2. TransferLeft' = 1
    BY <1>6 DEF GiveUp, Return, TransferLeft
  <2>3. TransferLeft' < TransferLeft
    BY <1>1, <2>1, <2>2
  <2> QED
    BY <1>2, <2>3
<1> QED
  BY <1>3, <1>4, <1>5, <1>6 DEF TransportStep, SenderStep

(* Every step of the source brings the end of a migration nearer. *)
LEMMA SourceNearsEnd ==
  ASSUME AgreeInv, AgreeInv', phase = "precopy", SourceStep
  PROVE  MigrationLeft' < MigrationLeft
<1>1. /\ MaxAttempts \in Nat /\ Left \in Nat /\ MigrationLeft \in Nat /\ IInv /\ IInv'
  BY ProtocolAssumption, LeftIsNatural, MigrationLeftIsNatural DEF AgreeInv
<1>2. CASE HostStep
  <2>1. /\ VmStep \/ PreCopyRound \/ PreCopyReturn
        /\ called' = called
    BY <1>2 DEF HostStep, Leave, RecordSlice, PickNext, SkipPick, Dispatch
  <2>2. ~called /\ phase' = "precopy"
    <3>1. CASE VmStep
      <4>1. call # "none"
        BY <3>1
        DEF VmStep, ExecuteSlice, ExecuteRetire, ExecuteTrap, ExecuteMigrate,
            ExecuteHalt, FinishSlice, LoopContinues
      <4> QED
        BY <3>1, <4>1 DEF AgreeInv, TransferInv, VmStep, hvVars
    <3>2. CASE PreCopyRound
      <4>1. round < PreCopyRounds /\ round # PreCopyRounds /\ phase' = "precopy"
        BY <1>1, <3>2, HypervisorAssumption DEF PreCopyRound, IInv, TypeOK
      <4> QED
        BY <4>1 DEF AgreeInv, TransferInv
    <3>3. CASE PreCopyReturn
      BY <3>3 DEF AgreeInv, TransferInv, PreCopyReturn, TakeResult, hvVars
    <3> QED
      BY <2>1, <3>1, <3>2, <3>3
  <2>3. Left' \in 0 .. Left - 1
    <3>1. Next
      BY <2>1 DEF Next, RunStep
    <3> QED
      BY <1>1, <3>1, StepNearsEnd
  <2>4. /\ MigrationLeft = 2 * MaxAttempts + 3 + Left
        /\ MigrationLeft' = 2 * MaxAttempts + 3 + Left'
    BY <2>1, <2>2 DEF MigrationLeft
  <2> DEFINE rest == 2 * MaxAttempts + 3
             l == Left
             m == Left'
  <2>5. rest \in Int /\ MigrationLeft = rest + l /\ MigrationLeft' = rest + m
    BY <1>1, <2>4
  <2>6. m \in Int /\ l \in Int /\ m < l
    BY <1>1, <2>3
  <2> HIDE DEF rest, l, m
  <2>7. rest + m < rest + l
    BY <2>5, <2>6
  <2> QED
    BY <2>5, <2>7, Zenon
<1>3. CASE SendSnapshot
  <2>1. /\ ~called /\ called' /\ phase' = "precopy" /\ sendPhase' = "handshake"
    BY <1>3 DEF SendSnapshot, SendWithRetry, vars, hvVars
  <2>2. /\ MigrationLeft = 2 * MaxAttempts + 3 + Left
        /\ MigrationLeft' = 2 * MaxAttempts + 3
    BY <2>1 DEF MigrationLeft, TransferLeft
  <2>3. Left > 0
    <3>1. Left = 4 * (PreCopyRounds - round) + 1 + 0 /\ round = PreCopyRounds
      BY <1>3 DEF SendSnapshot, Left, CallLeft
    <3> QED
      BY <3>1, HypervisorAssumption
  <2> QED
    BY <1>1, <2>2, <2>3
<1>4. CASE TransportStep
  <2>1. TransferLeft' < TransferLeft /\ called /\ called' = called /\ phase' = phase
    BY <1>4, TransportNearsEnd
  <2>2. MigrationLeft = TransferLeft /\ MigrationLeft' = TransferLeft'
    BY <2>1 DEF MigrationLeft
  <2> QED
    BY <2>1, <2>2
<1>5. CASE MigrationEnds
  <2>1. called /\ sendPhase = "idle" /\ phase' = "loop"
    BY <1>5 DEF MigrationEnds, TransferAndClear
  <2>2. MigrationLeft = 1 /\ MigrationLeft' = 0
    BY <2>1 DEF MigrationLeft, TransferLeft
  <2> QED
    BY <2>2
<1> QED
  BY <1>2, <1>3, <1>4, <1>5 DEF SourceStep

(***************************************************************************)
(* Every step of the source brings the end of a migration nearer, for any  *)
(* number of attempts, and nothing the network or the target does puts it  *)
(* off.                                                                    *)
(***************************************************************************)
THEOREM MigrationsEnd == MigrationSpec => MigrationNearsEnd
<1>1. ASSUME AgreeInv, AgreeInv', [MigrationNext]_migrationVars, phase = "precopy"
      PROVE  MigrationLeft' \in 0 .. IF SourceStep THEN MigrationLeft - 1 ELSE MigrationLeft
  <2>1. MigrationLeft \in Nat /\ MigrationLeft' \in Nat
    <3>1. (AgreeInv => MigrationLeft \in Nat)'
      BY MigrationLeftIsNatural, PTL
    <3> QED
      BY <1>1, <3>1, MigrationLeftIsNatural
  <2>2. CASE SourceStep
    <3>1. MigrationLeft' < MigrationLeft
      BY <1>1, <2>2, SourceNearsEnd
    <3> QED
      BY <2>1, <2>2, <3>1
  <2>3. CASE ~SourceStep
    <3>1. UNCHANGED <<phase, budget, ran, call, round, called, sendPhase, attempt>>
      BY <1>1, <2>3
      DEF MigrationNext, CallerStep, AddVm, Run, TargetStep, Deliver, Drop, Receive, Lose,
          RunOnTarget, migrationVars, vars, vmVars, hvVars, protocolVars, senderVars
    <3>2. MigrationLeft' = MigrationLeft
      BY <3>1 DEF MigrationLeft, TransferLeft, Left, CallLeft
    <3> QED
      BY <2>1, <2>3, <3>2
  <2> QED
    BY <2>2, <2>3
<1>2. AgreeInv /\ AgreeInv' /\ [MigrationNext]_migrationVars
        => [(phase = "precopy") =>
              MigrationLeft' \in 0 .. IF SourceStep THEN MigrationLeft - 1 ELSE MigrationLeft]_migrationVars
  BY <1>1
<1> QED
  BY <1>2, AgreeInductive, PTL DEF MigrationSpec, MigrationNearsEnd

=============================================================================
