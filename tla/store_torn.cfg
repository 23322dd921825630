SPECIFICATION Spec
CONSTANTS
  op1 = op1
  op2 = op2
  op3 = op3
  Ops <- ThreeOps
  Events <- TwoEvents
CHECK_DEADLOCK FALSE
INVARIANTS
  StateAlwaysReadable
