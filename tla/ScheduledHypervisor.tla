------------------------ MODULE ScheduledHypervisor ------------------------
(***************************************************************************)
(* HypervisorCore run with one of the schedulers BuildScheduler makes: the *)
(* index Run works with is the one the policy's PickNext returns for the   *)
(* statuses and priorities collected at the top of the loop.               *)
(***************************************************************************)
EXTENDS HypervisorCore, Schedulers

CONSTANT Policies   \* the scheduler names that may be given on the command line

ASSUME PolicyAssumption ==
  /\ Policies \subseteq {"round_robin", "priority", "mlfq"}
  /\ PriorityFloor \in Int

VARIABLE policy   \* the name that was given

allVars == <<vars, schedVars, policy>>

ScheduledTypeOK == TypeOK /\ SchedTypeOK(Vms) /\ policy \in Policies

ScheduledInit == Init /\ SchedInit /\ policy \in Policies

(* PickNext of the scheduler that was built. *)
Chosen(idx) ==
  \/ policy = "round_robin" /\ RoundRobinPick(size, Alive, idx)
  \/ /\ policy = "priority"
     /\ PriorityPick(Alive, [i \in Added |-> config[i].priority], idx)
  \/ policy = "mlfq" /\ MlfqPick(size, Alive, idx)

ScheduledPick == \E idx \in 0 .. MaxVms : Chosen(idx) /\ PickNext(idx)

(* What the thread in Run does next. *)
Progress ==
  \/ RunStep /\ UNCHANGED <<schedVars, policy>>
  \/ ScheduledPick /\ UNCHANGED policy

ScheduledNext ==
  \/ AddVm /\ UNCHANGED <<schedVars, policy>>
  \/ Run /\ UNCHANGED <<schedVars, policy>>
  \/ Progress

(***************************************************************************)
(* The thread in Run keeps executing; nothing obliges its caller to call   *)
(* AddVm or Run.                                                           *)
(***************************************************************************)
ScheduledSpec == ScheduledInit /\ [][ScheduledNext]_allVars /\ WF_allVars(Progress)

-----------------------------------------------------------------------------

(***************************************************************************)
(* A machine that lets Run make progress: a slice of at least one          *)
(* instruction, no MIGRATE (RunForSlice never gets past one) and, under    *)
(* the priority policy, a priority PriorityScheduler can see.              *)
(***************************************************************************)
WellBehaved(i) ==
  /\ config[i].execSlice > 0
  /\ NeverMigrates(i)
  /\ policy = "priority" => config[i].priority > PriorityFloor

(***************************************************************************)
(* Run comes back once every machine it was given can be finished.         *)
(***************************************************************************)
RunReturns ==
  (phase = "loop" /\ \A i \in Added : WellBehaved(i)) ~> phase = "idle"

(***************************************************************************)
(* Under round robin and MLFQ a machine that can be finished is finished,  *)
(* even next to machines that migrate forever or have an empty slice: no   *)
(* neighbour can keep the scheduler from returning to it.                  *)
(***************************************************************************)
NeighboursCannotStarve ==
  policy # "priority" =>
    \A i \in Vms :
      (phase # "idle" /\ i \in Added /\ WellBehaved(i)) ~> Terminal(i)

(***************************************************************************)
(* The fairness each policy gives: over the life of two machines neither   *)
(* is over, their dispatch counts differ by at most one under round robin  *)
(* (docs/performance-results.md:9 calls it the fairness baseline) and by   *)
(* at most three under MLFQ, where a machine taken from the low queue goes *)
(* through high and mid before the next one gets its turn.                 *)
(***************************************************************************)
Skew == IF policy = "mlfq" THEN 3 ELSE 1

DispatchesBalanced ==
  policy # "priority" =>
    \A i, j \in Alive :
      UniqueName(i) /\ UniqueName(j) =>
        dispatched[config[i].name] <= dispatched[config[j].name] + Skew

(***************************************************************************)
(* How long a machine may have to wait under round robin and MLFQ: while   *)
(* one that never migrates is not over, no other has had more than Skew    *)
(* dispatches besides those the first one paid for with a whole slice of   *)
(* its program each.  What the others do in their slices makes no          *)
(* difference.                                                             *)
(***************************************************************************)
WaitIsBounded ==
  policy # "priority" /\ phase \in {"idle", "loop"} =>
    \A i, j \in Alive :
      UniqueName(i) /\ UniqueName(j) /\ NeverMigrates(i) =>
        (dispatched[config[j].name] - Skew) * config[i].execSlice <= pc[i]

(***************************************************************************)
(* Under the priority policy a machine has not run at all while one of     *)
(* higher priority is not over (docs/performance-results.md:10).           *)
(***************************************************************************)
PriorityRespected ==
  policy = "priority" =>
    \A i, j \in Alive :
      UniqueName(j) /\ config[i].priority > config[j].priority
        /\ config[i].priority > PriorityFloor
        => dispatched[config[j].name] = 0

(***************************************************************************)
(* The MLFQ queues hold no machine that is not over twice, and hold either *)
(* all of them or, before the first call and after an AddVm that followed  *)
(* an earlier Run, none: PickNext neither loses a machine nor serves one   *)
(* twice as often.                                                         *)
(***************************************************************************)
Queued == high \o mid \o low

Entries(i) == {k \in DOMAIN Queued : Queued[k] = i}

QueuesHoldAlive ==
  policy = "mlfq" =>
    /\ \A i \in Alive : \A k, l \in Entries(i) : k = l
    /\ \/ \A i \in Alive : Entries(i) # {}
       \/ \A i \in Alive : Entries(i) = {}

=============================================================================
