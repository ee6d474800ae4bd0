---------------------- MODULE MC_MigratingHypervisor -----------------------
(***************************************************************************)
(* MigratingHypervisor with two machines of distinct names that migrate at *)
(* their first, at their second or at no instruction.  Three MIGRATE in a  *)
(* row are one more than the pre-copy rounds could step over.              *)
(***************************************************************************)
EXTENDS MigratingHypervisor

MCPrograms ==
  {<<"Migrate", "Migrate", "Migrate", "Retire">>, <<"Retire", "Migrate", "Halt">>,
   <<"Retire", "Trap">>}

MCVmConfigs == [name : Names, execSlice : {2}, priority : {1}]

MCSnapshots == [vm : Vms, pc : 0 .. 4]

MCName == <<"vmA", "vmB">>

MCInit ==
  /\ config = [i \in Vms |-> [name |-> MCName[i + 1], execSlice |-> 2, priority |-> 1]]
  /\ MigrationInit

MCSpec ==
  MCInit /\ [][MigrationNext]_migrationVars /\ WF_migrationVars(SourceStep)

=============================================================================
