SPECIFICATION Spec
CONSTANTS
  Scenarios <- TheScenarios
  Conns <- TheConns
  Symbols <- TheSymbols
  MaxDepth = 3
  MaxInt = 20
  Spelled <- OtherSpellings
  Samples <- SamplePairs
INVARIANTS TypeOK ReadsExact VerdictAsExpected
PROPERTIES VerdictComes
CHECK_DEADLOCK FALSE
