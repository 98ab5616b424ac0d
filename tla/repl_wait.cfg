SPECIFICATION Spec
CONSTANTS
  c1 = c1
  c2 = c2
  r1 = r1
  r2 = r2
  Clients = {c1}
  Replicas = {r1}
  SetSize = 27
  GetAckSize = 37
  PingSize = 14
  Mortal = {}
  LocalCommands = {"PING"}
  WaitFor = {1, 2}
  Timeouts = {TRUE, FALSE}
  MaxWrites = 2
  MaxWaits = 3
  MaxLocal = 28
INVARIANTS ReplicasConverge
PROPERTIES TimedWaitAnswered WaitAnswered
CHECK_DEADLOCK FALSE
