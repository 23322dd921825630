SPECIFICATION FairSpec
CONSTANTS
  core = core
  edit = edit
  check = check
  ship = ship
  alice = alice
  bob = bob
  src = src
  doc = doc
  None = None
  Tasks <- PlanTasks
  Files <- PlanFiles
  Agents <- PlanAgents
  Position <- PlanPosition
  DependsOn <- PlanDependsOn
  NonParallel <- PlanNonParallel
  Risk <- PlanRisk
  ExpectedFiles <- PlanExpectedFiles
  PreferredAgent <- PlanPreferredAgent
  NeedsCapability = {check}
  DirectoryScope <- PlanDirectoryScope
  GlobMatches = {}
  Policy <- RoomyPolicy
  NodeRank <- Ranks
  NodeSkills <- Skills
  Registries <- FullRegistry
  Reports <- WorkerReports
  LiveSessions <- AnySession
  LostStatuses = {"failed"}
PROPERTIES
  RetriedTaskRunsAgain
  OpenWaveCloses
  WorkflowEnds
