--------------------------- MODULE SlicedMachines --------------------------
(***************************************************************************)
(* What the hypervisor promises of the machines it multiplexes, without    *)
(* its loop, its calls and its scheduler: a machine is where it is in its  *)
(* program and whether it is over, and one atomic step gives one machine   *)
(* that is not over a whole slice.  HypervisorCore implements it.          *)
(***************************************************************************)
EXTENDS Integers, Sequences

CONSTANT Machines

VARIABLES
  code,   \* program of each machine, a sequence of outcomes
  quota,  \* instructions in a slice of each machine
  done,   \* instructions each machine has retired
  over    \* has the machine halted or faulted?

absVars == <<code, quota, done, over>>

AbsInit ==
  /\ done = [m \in Machines |-> 0]
  /\ over = [m \in Machines |-> FALSE]

(***************************************************************************)
(* The next k instructions of m retire and then the slice ends: it is used *)
(* up, or the program is, or the next instruction does not retire.         *)
(***************************************************************************)
SliceRetires(m, k) ==
  /\ k <= quota[m]
  /\ done[m] + k <= Len(code[m])
  /\ \A j \in 1 .. k : code[m][done[m] + j] = "Retire"
  /\ \/ k = quota[m]
     \/ done[m] + k = Len(code[m])
     \/ code[m][done[m] + k + 1] # "Retire"

(***************************************************************************)
(* A slice of k instructions finishes m if it reached the end of the       *)
(* program, or had an instruction left for the HALT or the faulting        *)
(* instruction it stopped at.  A MIGRATE does not finish a machine.        *)
(***************************************************************************)
SliceFinishes(m, k) ==
  \/ done[m] + k = Len(code[m])
  \/ k < quota[m] /\ code[m][done[m] + k + 1] \in {"Halt", "Trap"}

GiveSlice(m, k) ==
  /\ ~over[m]
  /\ SliceRetires(m, k)
  /\ done' = [done EXCEPT ![m] = @ + k]
  /\ over' = [over EXCEPT ![m] = SliceFinishes(m, k)]
  /\ UNCHANGED <<code, quota>>

AbsNext == \E m \in Machines : \E k \in 0 .. Len(code[m]) : GiveSlice(m, k)

AbsSpec == AbsInit /\ [][AbsNext]_absVars

=============================================================================
