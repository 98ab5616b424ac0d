SPECIFICATION Spec
CONSTANTS
  c1 = c1
  c2 = c2
  r1 = r1
  r2 = r2
  Clients = {c1, c2}
  Replicas = {r1, r2}
  SetSize = 27
  GetAckSize = 37
  PingSize = 14
  Mortal = {r1, r2}
  LocalCommands = {}
  WaitFor = {2}
  Timeouts = {TRUE}
  MaxWrites = 2
  MaxWaits = 2
  MaxLocal = 0
SYMMETRY MCSymmetry
INVARIANTS TypeOK ReplicaFollowsOrder OffsetExact AcksAscend AckCoversSets
PROPERTIES WaitOvercountsOnlyReasked
CHECK_DEADLOCK FALSE
