CONSTANTS
  a = a
  b = b
  Ids <- MCIds
  Addr <- MCAddr
  FreshAddrs <- MCFreshAddrs
  Epoch <- MCEpoch
  MaxTime <- MCMaxTime
  Hour <- MCHour
  Periods <- MCPeriods
SPECIFICATION Spec
INVARIANTS TypeOK TimersOrdered CallbackIffQueued
PROPERTY ImplementsTimerSet
