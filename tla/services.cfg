SPECIFICATION Spec
CONSTANTS
  m1 = m1
  m2 = m2
  m3 = m3
  Components = {"cron", "stateless", "breaker", "assistants", "session", "requests", "startup",
                "graphs", "mcp", "oauth", "skills", "connections", "streaming", "auth", "config",
                "store", "state", "merchant", "merchants", "shop", "shops", "memory"}
  Requests = {m1, m2, m3}
  AuthRequests = {m1, m2}
  AssistantRequests = {m1, m2}
  Users = {"u"}
  StoreUsers = {"u", "v", "w"}
  Ids = {"a", "b"}
  Callers = {m1, m2}
  Storages = {"memory", "redis"}
  FailMax = 2
  Cooldown = 2
  MaxTime = 6
  MaxCalls = 5
  Limit = 1
  MaxPasses = 2
  Payloads = {{"SKILL.md"}, {"SKILL.md", "a"}, {"b"}}
  Descriptions = {"d", "e"}
  Attributes <- Groups
  Configs <- ScopeConfigs
  Sent <- SentNamespaces
  MaxOps = 3
  Labels = {"", "1", "2", "a", "o", "org", "u", "users", "v", "w"}
  AttributeNames = {"org", "team"}
  Kinds = {"create", "createOrGet", "patchTag", "patchTitle", "run", "resume", "start"}
  SettleAttempts = 1
  Values = {"x"}
  Keys = {"k"}
  MaxWrites = 4
  Instances = {1, 2}
  Options = {{"framework", "hub"}, {"framework", "hub", "redis", "reaper", "cron", "ttl"}}
  Revisions = {"none", "head"}
  MaxBoots = 3
  MaxFaults = 1
  Crons = {"c"}
  Pollers = {m1, m2}
  Clients = {"k"}
  Periods = {2}
  Zones = {0, 1}
  Ends = {2}
  ClaimDuration = 1
  MaxPerUser = 1
  BatchSize = 1
  MaxFire = 2
  MaxUpdates = 1
  EntryPoints = {"wait", "stream", "create", "cron"}
  Patches <- ConnectionPatches
  FlowRuns = {m1, m2}
  MaxRows = 2
  MaxFlows = 3
  GraphRequests = {m1, m2}
  GraphUsers = {"u", "v"}
  GraphKinds = {"graph", "zero", "factory", "broken"}
  GraphEdits = 2
  Writers = {m1, m2}
  Topics = {"k", "l"}
  Preferences = {"v"}
  Blocked = {"card"}
  Retention = 1
  MaxDays = 3
  MaxSaves = 3
  Bodies <- RunBodies
  AssistantRows <- Rows
  ConfigUsers = {"u"}
  MaxRuns = 2
  ConfigEdits = 1
  MaxAttempts = 2
  PageLimits = {1, 2}
  MaxCheckpoints = 4
  ModeSets <- StreamModes
  MessageIds = {"m", "n"}
  MaxEmits = 3
  Servers <- Declared
  Deployments <- Tiers
  Catalog <- Tools
  ToolRuns = {m1, m2}
  ToolUsers = {"u", "v"}
  Urls = {"x"}
  Allowlists <- Restrictions
  Ttl = 1
  ToolTime = 1
  ToolEdits = 2
  Solo <- OneSession
  Team <- TwoSessions
SYMMETRY Symmetry
CONSTRAINT Bounded
INVARIANTS
  TypeOK
  CronFiresOnce
  
  BreakerTrips
  AssistantIsItsVersion
  
  RequestsKeepWrites
  ServicesHaveDependencies
  GraphIsOwn
  ToolsAsResolved
  HubRowsWhole
  StoreScoped
  StreamTellsAll
  AuthorizedOnce
  ExecutesAsRequested
  HistoryComplete
  AgentsWriteAsAgreed
PROPERTY NothingUndone
CHECK_DEADLOCK FALSE
