SPECIFICATION MCSpec
CONSTANTS
  MaxVms = 2
  Vms = {0, 1}
  Names = {"vmA", "vmB"}
  Programs <- MCPrograms
  VmConfigs <- MCVmConfigs
  PreCopyRounds = 2
  PreCopyBudget = 10
  MaxDispatch = 1
  Snapshots <- MCSnapshots
  NoSnapshot = NoSnapshot
  MaxAttempts = 3
  MaxInFlight = 3
  Absent = Absent
  TargetSlice = 2
INVARIANTS
  HostsAgree
PROPERTIES
  MigrationReturns
  MigrationNearsEnd
