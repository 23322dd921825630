SPECIFICATION Spec
CONSTANTS
  a = a
  b = b
  c = c
  d = d
  unknown = unknown
  Ids <- AllIds
  Plans <- AllPlans
INVARIANTS
  AcceptedInOrder
  RejectedForCause
  CycleIsReal
