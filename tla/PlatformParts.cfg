SPECIFICATION Spec
CHECK_DEADLOCK FALSE
CONSTANTS
  SessionTasks = {"t1", "t2"}
  SessionKeys = {"a", "b", "c"}
  MaxSessions = 1
  MaxHistory = 1
  MaxTurns = 4
  Workers = {"a", "b"}
  Cli = "cli"
  Pasted <- TwoPastes
  Placeholders = {"xx"}
  Bad = {"bad"}
  OfferedModels = {"pn", "zz"}
  KnownModels <- TwoProviders
  KeyFiles <- StartFiles
  ConfigKeys <- StartConfigs
  MaxHandlers = 2
  MaxLinks = 1
  LoginUsers = {"u", "v"}
  LoginProviders = {"p"}
  LoginChannels = {"tg"}
  LoginCallers = {"c", "d"}
  MaxFlows = 2
  Tenant <- TwoTenants
  DefaultTenant = "d"
  TenantUsers = {"u", "v", "w"}
  TenantCallers = {"c", "e"}
  MaxDay = 2
  MaxTenantCalls = 4
  BrowserCallers = {"c", "d"}
  Sites = {"s"}
  SessionNames = {"a_b", "a/b"}
  Sanitize <- OneSpelling
  IdleTimeout = 1
  MaxLaunch = 2
  MaxNow = 3
  VaultTasks = {"s", "t"}
  VaultKeys = {"a", "b"}
  SecretValues = {"x"}
  MaxVaultCalls = 3
  DockerCallers = {"c", "d"}
  InstanceNames = {"web", "web-a"}
  Family <- WebFamily
  MaxInstances = 1
  MaxJobs = 3
  ChatUsers = {"a", "b"}
  ChatHandlers = {1, 2}
  AllowConfig <- NobodyYet
  MaxMessages = 3
  MaxCrashes = 1
  KeyCallers = {"c", "d"}
  ProviderKeys <- ThreeKeys
  RefusedKeys = {"k1", "k2"}
  MaxKeyCalls = 6
  Conversations <- TwoConversations
  Page = 2
  MaxPosts = 3
  MaxRounds = 2
  Day = 3
  Windows <- SomeWindows
  Capacity = 1
  MaxRuns = 2
  FileClients = {"s", "t"}
  FilePaths <- Spellings
  FileData = {"x", "y"}
  MaxFileCalls = 3
  ObjectKeys = {1, 2, 3}
  MinPart = 2
  Chunks = {0, 1, 2}
  ListPage = 1
  MaxStream = 3
  MaxObjectCalls = 3
  MemoryTasks = {"t", "u"}
  MemoryScopes <- TwoScopes
  MemoryNames = {"n"}
  MaxMemoryOps = 3
INVARIANTS GatewayKeeps CredentialsSafe  ChannelsDeliver   
PROPERTIES ActsOnlyWhenDue
