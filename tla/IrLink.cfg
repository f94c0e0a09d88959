SPECIFICATION IrFairSpec
CONSTANTS
    Plans <- MCPlans
    Pauses = {200, 600, 900, 65436}
    Lags = {50, 100}
    Phases = {0, 37}
INVARIANTS
  IrTypeOK
  OnlyWhatWasSent
PROPERTIES
  HeardAndKept
CHECK_DEADLOCK FALSE
