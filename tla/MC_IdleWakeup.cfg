CONSTANTS
  a = a
  b = b
  t1 = t1
  t2 = t2
  Ids <- MCIds
  Addr <- MCAddr
  FreshAddrs <- MCFreshAddrs
  Epoch <- MCEpoch
  MaxTime <- MCMaxTime
  Hour <- MCHour
  Periods <- MCPeriods
  IdleThreads <- MCIdleThreads
  MaxTickling = 2
SYMMETRY MCSymmetry
SPECIFICATION MCSpec
INVARIANT NoLostWakeup
INVARIANT UrlRoundTrip
INVARIANT TrimMatchesReference
\* A string of four bytes is a final state of StringUtil's side.
CHECK_DEADLOCK FALSE
