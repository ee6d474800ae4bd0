----------------------------- MODULE Schedulers ----------------------------
(***************************************************************************)
(* The three IScheduler policies: RoundRobinScheduler, PriorityScheduler   *)
(* and MlfqScheduler.  Each PickNext is an action that relates the         *)
(* scheduler's state to the index it returns.                              *)
(*                                                                         *)
(* The parameters are those of PickNext: n is statuses.size(), alive the   *)
(* indices whose status is neither Halted nor Faulted (the three policies  *)
(* test exactly this of a status), priorities the vector of priorities.    *)
(***************************************************************************)
EXTENDS Integers, Sequences

CONSTANT PriorityFloor   \* initial bestPriority, -1000000 in the code

VARIABLES
  cursor,         \* RoundRobinScheduler::cursor_
  initialized,    \* MlfqScheduler::initialized_
  high, mid, low  \* the queues of MlfqScheduler

schedVars == <<cursor, initialized, high, mid, low>>
mlfqVars == <<initialized, high, mid, low>>

SchedTypeOK(index) ==
  /\ cursor \in Nat
  /\ initialized \in BOOLEAN
  /\ high \in Seq(index)
  /\ mid \in Seq(index)
  /\ low \in Seq(index)

SchedInit ==
  /\ cursor = 0
  /\ initialized = FALSE
  /\ high = <<>>
  /\ mid = <<>>
  /\ low = <<>>

-----------------------------------------------------------------------------

(* Mutant: the cursor stays on the machine that was picked. *)
RoundRobinPickStuck(n, alive, idx) ==
  /\ \/ alive = {} /\ idx = 0 /\ UNCHANGED cursor
     \/ \E k \in 0 .. n - 1 :
          /\ idx = (cursor + k) % n
          /\ idx \in alive
          /\ \A j \in 0 .. k - 1 : (cursor + j) % n \notin alive
          /\ cursor' = idx
  /\ UNCHANGED mlfqVars

(* The first machine that is not over, from the cursor on, cyclically. *)
RoundRobinPick(n, alive, idx) ==
  /\ \/ /\ alive = {}
        /\ idx = 0
        /\ UNCHANGED cursor
     \/ \E k \in 0 .. n - 1 :
          /\ idx = (cursor + k) % n
          /\ idx \in alive
          /\ \A j \in 0 .. k - 1 : (cursor + j) % n \notin alive
          /\ cursor' = (idx + 1) % n
  /\ UNCHANGED mlfqVars

(* Mutant: the comparison with bestPriority is the wrong way round. *)
PriorityPickLowest(alive, priorities, idx) ==
  /\ \/ alive = {} /\ idx = 0
     \/ idx \in alive /\ \A i \in alive : priorities[idx] <= priorities[i]
  /\ UNCHANGED schedVars

(* Mutant: the statuses are not looked at. *)
PriorityPickBlind(alive, priorities, idx) ==
  /\ idx \in DOMAIN priorities
  /\ \A i \in DOMAIN priorities :
       \/ priorities[i] < priorities[idx]
       \/ priorities[i] = priorities[idx] /\ idx <= i
  /\ UNCHANGED schedVars

(* The first of the machines with the highest priority above the floor. *)
PriorityPick(alive, priorities, idx) ==
  LET eligible == {i \in alive : priorities[i] > PriorityFloor}
  IN /\ \/ eligible = {} /\ idx = 0
        \/ /\ idx \in eligible
           /\ \A i \in eligible :
                \/ priorities[i] < priorities[idx]
                \/ priorities[i] = priorities[idx] /\ idx <= i
     /\ UNCHANGED schedVars

-----------------------------------------------------------------------------

(* RebuildQueues(n): every index in the high queue, in order. *)
Rebuilt(n) == [k \in 1 .. n |-> k - 1]

(* pickFromQueue: k is the position of the entry it returns, if any. *)
FirstAlive(q, alive, k) ==
  /\ q[k] \in alive
  /\ \A j \in 1 .. k - 1 : q[j] \notin alive

NoneAlive(q, alive) == \A k \in DOMAIN q : q[k] \notin alive

(* Mutant: pickFromQueue does not pop the entry it returns. *)
PopBefore(q, k) == SubSeq(q, k, Len(q))

(* The queue after its first k entries were popped. *)
PopFirst(q, k) == SubSeq(q, k + 1, Len(q))

(* Mutant: a machine that was picked stays at the front of the high queue. *)
MlfqPickWithoutDemotion(n, alive, idx) ==
  LET hi == IF initialized THEN high ELSE Rebuilt(n)
  IN /\ \/ \E k \in DOMAIN hi :
             FirstAlive(hi, alive, k) /\ idx = hi[k] /\ high' = SubSeq(hi, k, Len(hi))
        \/ NoneAlive(hi, alive) /\ idx = 0 /\ high' = Rebuilt(n)
     /\ initialized' = TRUE
     /\ UNCHANGED <<cursor, mid, low>>

(***************************************************************************)
(* The cascade of PickNext: from high into mid, from mid into low, from    *)
(* low back into high, dropping the entries of machines that are over; if  *)
(* all three queues run empty, they are rebuilt and 0 is returned.  hi is  *)
(* the high queue after the rebuild of the first call.                     *)
(***************************************************************************)
MlfqPick(n, alive, idx) ==
  LET hi == IF initialized THEN high ELSE Rebuilt(n)
  IN /\ \/ \E k \in DOMAIN hi :
             /\ FirstAlive(hi, alive, k)
             /\ idx = hi[k]
             /\ high' = PopFirst(hi, k)
             /\ mid' = Append(mid, idx)
             /\ low' = low
        \/ /\ NoneAlive(hi, alive)
           /\ \E k \in DOMAIN mid :
                /\ FirstAlive(mid, alive, k)
                /\ idx = mid[k]
                /\ high' = <<>>
                /\ mid' = PopFirst(mid, k)
                /\ low' = Append(low, idx)
        \/ /\ NoneAlive(hi, alive)
           /\ NoneAlive(mid, alive)
           /\ \E k \in DOMAIN low :
                /\ FirstAlive(low, alive, k)
                /\ idx = low[k]
                /\ high' = <<idx>>
                /\ mid' = <<>>
                /\ low' = PopFirst(low, k)
        \/ /\ NoneAlive(hi, alive)
           /\ NoneAlive(mid, alive)
           /\ NoneAlive(low, alive)
           /\ idx = 0
           /\ high' = Rebuilt(n)
           /\ mid' = <<>>
           /\ low' = <<>>
     /\ initialized' = TRUE
     /\ UNCHANGED cursor

=============================================================================
