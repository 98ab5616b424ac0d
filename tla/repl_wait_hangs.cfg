SPECIFICATION Spec
CONSTANTS
  c1 = c1
  c2 = c2
  r1 = r1
  r2 = r2
  Clients = {c1, c2}
  Replicas = {r1}
  SetSize = 27
  GetAckSize = 37
  PingSize = 14
  Mortal = {}
  LocalCommands = {}
  WaitFor = {1}
  Timeouts = {FALSE}
  MaxWrites = 2
  MaxWaits = 1
  MaxLocal = 0
PROPERTIES WaitAnswered
CHECK_DEADLOCK FALSE
