----------------------- MODULE MC_ScheduledHypervisor ----------------------
(***************************************************************************)
(* ScheduledHypervisor with up to three machines of distinct names whose   *)
(* programs stop, trap or migrate forever after zero to two instructions.  *)
(* Slices matter to the fairness of round robin and MLFQ, priorities, the  *)
(* lowest one included, to the priority policy: MCConfigs gives each       *)
(* policy the configurations that matter to it.                            *)
(***************************************************************************)
EXTENDS ScheduledHypervisor

MCPrograms == {<<"Trap">>, <<"Retire", "Halt">>, <<"Retire", "Migrate">>}

MCVmConfigs ==
  [name : Names, execSlice : 0 .. 2, priority : {PriorityFloor, 1, 2}]

MCName == <<"vmA", "vmB", "vmC">>

MCConfigs ==
  LET slices == IF policy = "priority" THEN {1} ELSE 0 .. 2
      priorities == IF policy = "priority" THEN {PriorityFloor, 1, 2} ELSE {1}
  IN {[i \in Vms |-> [name |-> MCName[i + 1], execSlice |-> s[i], priority |-> p[i]]] :
        s \in [Vms -> slices], p \in [Vms -> priorities]}

MCInit == policy \in Policies /\ config \in MCConfigs /\ ScheduledInit

MCSpec == MCInit /\ [][ScheduledNext]_allVars /\ WF_allVars(Progress)

=============================================================================
