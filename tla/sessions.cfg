CONSTANTS
  c1 = c1
  c2 = c2
  Conns <- MCConns
  Secret <- MCSecret
  Programs <- MCPrograms
  InPieces <- MCInPieces
SPECIFICATION Spec
INVARIANTS TypeOK CommandsExact AccountKept
PROPERTIES CommandsAnswered
CHECK_DEADLOCK FALSE
