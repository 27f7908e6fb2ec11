SPECIFICATION Spec
CHECK_DEADLOCK FALSE
INVARIANTS PlannedWorkRuns  CutsAreFair InterventionsEarned
PROPERTIES  ImplementsStore
CONSTANTS
  MaxPatches = 2
  Threshold = 80
  Traces <- PatchTraces
  MaxProposed = 3
  MaxApplied = 2
  Subsystems = {"p", "m"}
  Checkers = {"c1", "c2"}
  MaxIllChecks = 1
  MaxChecks = 2
  TrackedTools = {"p", "m"}
  MaxToolFailures = 2
  MaxTracked = 6
  Triggers <- ProTriggers
  Rules <- ProRules
  MaxActions = 1
  Hour = 3
  MaxClock = 4
  Words = {"verb", "and", "stop", "hard", "!fast"}
  RoutedTools = {"r", "a", "b", "c"}
  ReadOnlyTools = {"r"}
  Configs <- Tiers
  ShortText = 3
  ShortTask = 4
  DeepHistory = 6
  MaxWords = 4
  MaxTaskTurns = 4
  LearntTools = {"shell", "file"}
  MaxLearntCalls = 2
  MaxChatTurns = 2
  Callers = {"c1", "c2"}
  MaxTotal = 2
  MaxParts = 2
  AgentTools = {"shell", "http"}
  Keywords = {{"shell"}}
  StoreTasks = {"t", "u"}
  StoreIds = {"a"}
  Connections = {1, 2}
  MaxRetries = 2
  MaxStoreCalls = 3
  GraphSteps = {1, 2, 3}
  MaxLines = 3
  Paths <- ExecPaths
  MaxBatch = 3
  MaxConcurrent = 2
