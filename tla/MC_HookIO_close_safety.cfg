CONSTANTS
  t1 = t1
  t2 = t2
  f1 = f1
  f2 = f2
  fd1 = fd1
  fd2 = fd2
  AnyThread = AnyThread
  None = None
  Threads <- MCThreads
  Fibers <- MCFibers
  Callbacks <- MCCallbacks
  Fds <- MCFdsShared
  Wait <- MCWaitClose
  Timed <- MCTimed
  MaxWaits <- MCMaxWaits
  MaxArrivals <- MCOneArrival
  Closers <- MCClosers
  Reopeners <- MCClosers
  Connectors <- MCNoClosers

SPECIFICATION Spec

INVARIANT ResumedExactlyOnce
