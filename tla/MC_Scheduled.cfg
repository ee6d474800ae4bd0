SPECIFICATION MCSpec
CONSTANTS
  MaxVms = 3
  Vms = {0, 1, 2}
  Names = {"vmA", "vmB", "vmC"}
  Programs <- MCPrograms
  VmConfigs <- MCVmConfigs
  PreCopyRounds = 2
  PreCopyBudget = 10
  MaxDispatch = 6
  PriorityFloor = 0
  Policies = {"round_robin", "priority", "mlfq"}
INVARIANTS
  QueuesHoldAlive
  DispatchesBalanced
  WaitIsBounded
  PriorityRespected
PROPERTIES
  RunReturns
  NeighboursCannotStarve
