CONSTANTS
  c1 = c1
  c2 = c2
  Conns <- MCConns
  Texts <- MCTexts
  SetNames <- MCSetNames
  Counts <- MCCounts
  Torn <- MCTorn
  TextOf <- MCTextOf
  Keys <- MCKeys
  PxKeys = {"u1"}
  Roles = {"master", "slave"}
  Modes = {"aof", "rdb"}
  Dump <- MCDump
  Cuts <- MCCuts
  MaxSets = 3
  MaxFaults = 1
  MaxRestarts = 1
SPECIFICATION Spec
INVARIANTS TypeOK AcknowledgedRecovered MemoryMatchesFile
PROPERTIES ValuesGoForward DeadlineComes
CHECK_DEADLOCK FALSE
