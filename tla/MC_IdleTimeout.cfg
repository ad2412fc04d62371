CONSTANTS
  IntBits <- MCIntBits
  LongBits <- MCLongBits
  NextTimeouts <- MCNextTimeouts
  SleepSeconds <- MCSleepSeconds
  UsleepRequests <- MCUsleepRequests
  NanoRequests <- MCNanoRequests
  TvRequests <- MCTvRequests

SPECIFICATION Spec

INVARIANT DurationsKept
