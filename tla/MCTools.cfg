SPECIFICATION ToolsSpec
CONSTANTS
  t1 = t1
  t2 = t2
  s1 = s1
  s2 = s2
  NoSession = NoSession
  Sessions = {s1, s2}
  Threads = {t1, t2}
  ThreadOf <- MCThreadOf
  Streams = {"stdout", "stderr", "terminal"}
  StreamsOf <- MCStreamsOf
  Limits = {0, 1}
  MaxWrites <- MCMaxWrites
  MaxChunks = 2
  MaxInputs = 1
  Servers = {"bash"}
  Configs = {{}, {"bash"}}
  Clashing = {"bash"}
  Callers = {"load", "api", "turn"}
  Loader = "load"
  Api = "api"
  Turn = "turn"
  Attempts <- MCAttempts
  RemoteTools = {"x"}
  NoServer = "none"
  MaxClients = 2
  ToolThreads = {"t1"}
  NoThread = "none"
  Place <- MCPlace
  Skills = {"a", "b"}
  SkillFiles = {1, 2}
  Curated = "a"
  BrowserTools = {"browser__navigate", "browser__snapshot", "browser__click_match"}
  MaxRequests = 4
  MaxNoise = 2
  MaxDirs = 2
  Paths = {"p", "q"}
  Keywords = {"notion", "Notion", "x"}
  Fold <- MCFold
  Sections <- MCSections
  Models <- MCModels
  Sizes = {1, 60}
  ToolSizes = {12, 28}
  CompactTool = 12
  System = 8
  Summary <- MCSummary
  MaxMessages = 4
  Yaml <- MCYaml
  Sidecars <- MCSidecars
  Builtin = "builtin"
  Names = {"clear", "CLEAR", "context", "equal", "echo", "nosuch"}
  Lower <- MCLower
  MaxThread = 3
  Counts = {0, 2, 20}
INVARIANTS
  ToolsTypeOK OutputOnce UnreadIsPending ClientsHeld SessionIsLoaded
  ExposureIsDecided AnswersItsRequest BrokenFromOutside OverBudgetIsCompacted
  InstalledIsAccepted
PROPERTIES OnlyAnIdleClear CallReturns
CHECK_DEADLOCK FALSE
