SPECIFICATION Spec
CONSTANTS
  call1 = call1
  call2 = call2
  call3 = call3
  call4 = call4
  web = web
  api = api
  build = build
  lead = lead
  helper = helper
  squad = squad
  key1 = key1
  key2 = key2
  key3 = key3
  proposal1 = proposal1
  None = None
  Truncated = Truncated
  Torn = Torn
  Calls <- FourCalls
  Requests <- AllRequests
CHECK_DEADLOCK FALSE
SYMMETRY CallSymmetry
CONSTRAINT OneSubject
INVARIANTS
  RegistriesConsistent
  AcknowledgedIsKept
  OneRecordPerKey
PROPERTIES
  ChangesAreAcknowledged
