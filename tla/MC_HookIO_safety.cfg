CONSTANTS
  t1 = t1
  t2 = t2
  f1 = f1
  f2 = f2
  fd1 = fd1
  fd2 = fd2
  AnyThread = AnyThread
  None = None
  Threads <- MCThreads
  Fibers <- MCFibers
  Callbacks <- MCCallbacks
  Fds <- MCFdsShared
  Wait <- MCWaitShared
  Timed <- MCTimed
  MaxWaits <- MCMaxWaits
  MaxArrivals <- MCMaxArrivals
  Closers <- MCNoClosers
  Reopeners <- MCNoClosers
  Connectors <- MCConnectors

SPECIFICATION Spec

INVARIANT TypeOK
INVARIANT RegistrationAgrees
INVARIANT PendingCountMatches
INVARIANT ResumedExactlyOnce
PROPERTY ReadyWaitReturns
