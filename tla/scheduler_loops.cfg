SPECIFICATION Spec
CONSTANTS
  a = a
  b = b
  c = c
  d = d
  alice = alice
  bob = bob
  src = src
  lib = lib
  doc = doc
  None = None
  Tasks <- PlanTasks
  Files <- PlanFiles
  Agents <- PlanAgents
  Position <- PlanPosition
  NonParallel <- PlanNonParallel
  Risk <- PlanRisk
  ExpectedFiles <- PlanExpectedFiles
  PreferredAgent <- PlanPreferredAgent
  NeedsCapability = {}
  DirectoryScope <- PlanDirectoryScope
  GlobMatches <- PlanGlobMatches
  Plans <- AllPlans
  Statuses <- SomeStatuses
  MaxRetries = 1
INVARIANTS
  ResolutionIsLeastClosure
  SelectionIsUnique
  NoReadyTaskLeftOutInVain
PROPERTIES
  BlockingReachesEveryone
