CONSTANTS
  Chats = {c1, c2}
  MaxTasks = 2
  MaxRounds = 2
  MaxUses = 1
  MaxSpend = 2
  MaxCost = 1
SPECIFICATION Spec
CHECK_DEADLOCK FALSE
INVARIANTS TypeOK  CheckpointExact OverspendBounded
