SPECIFICATION Spec
CONSTANTS
  x1 = x1
  x2 = x2
  x3 = x3
  alice = alice
  bob = bob
  skill = skill
  None = None
  Tasks <- ThreeTasks
  Agents <- TwoAgents
  Rank <- Ranks
  QueueRank <- QueueRanks
  Skills = {skill}
  Inputs <- AllInputs
INVARIANTS
  NobodyOverbooked
  NothingLeftInVain
  NoPriorityInversion
  OrderIsStrict
