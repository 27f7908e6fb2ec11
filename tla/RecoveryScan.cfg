CONSTANTS
  Chats = {c1}
  MaxTasks = 2
  MaxRounds = 1
  MaxUses = 1
  MaxSpend = 0
  MaxCost = 0
  Scanners = {s1}
  MaxScans = 2
  MaxRestarts = 2
SPECIFICATION RecoveryFairSpec
CHECK_DEADLOCK FALSE
INVARIANTS PlansGenuine PlannedOnce
PROPERTIES EndIsFinal  TurnReturns
