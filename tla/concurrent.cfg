SPECIFICATION ConcurrentSpec
CONSTANTS
  core = core
  edit = edit
  check = check
  alice = alice
  bob = bob
  src = src
  call1 = call1
  call2 = call2
  None = None
  Tasks <- PlanTasks
  Files = {src}
  Agents <- PlanAgents
  Position <- PlanPosition
  DependsOn <- PlanDependsOn
  NonParallel = {}
  Risk <- PlanRisk
  ExpectedFiles <- PlanExpectedFiles
  PreferredAgent <- PlanPreferredAgent
  NeedsCapability = {check}
  DirectoryScope <- PlanDirectoryScope
  GlobMatches = {}
  Policy <- PlanPolicy
  NodeRank <- Ranks
  NodeSkills <- Skills
  Registries <- AnyNodes
  Reports <- WorkerReports
  LiveSessions <- NoSession
  LostStatuses = {"ready"}
  Calls <- TwoCalls
  MaxTroubles = 2
SYMMETRY CallSymmetry
INVARIANTS
  ConcurrentTypeOK
  SavedStateSound
  AssignedIsTold
  ToldOncePerAttempt
PROPERTIES
  SerialWithoutOverlap
