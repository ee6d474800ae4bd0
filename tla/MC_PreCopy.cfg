SPECIFICATION Spec
CONSTANTS
  MaxVms = 2
  Vms = {0, 1}
  Names = {"vmA", "vmB"}
  Programs <- MCPrograms
  VmConfigs <- MCVmConfigs
  PreCopyRounds = 2
  PreCopyBudget = 10
  MaxDispatch = 4
INVARIANTS
  PreCopyRoundExecutes
