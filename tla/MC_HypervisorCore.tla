------------------------- MODULE MC_HypervisorCore -------------------------
(***************************************************************************)
(* HypervisorCore with two machines, every program of at most two          *)
(* outcomes and some of three, names that may collide, and slices from 0.  *)
(***************************************************************************)
EXTENDS HypervisorCore, SequencesExt

MCPrograms ==
  BoundedSeq(Outcome, 2) \cup
    {<<"Retire", "Retire", o>> : o \in Outcome}

MCVmConfigs == [name : Names, execSlice : {0, 1, 2}, priority : {1}]

=============================================================================
