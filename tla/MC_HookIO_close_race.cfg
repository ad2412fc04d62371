CONSTANTS
  t1 = t1
  t2 = t2
  f1 = f1
  f2 = f2
  fd1 = fd1
  fd2 = fd2
  AnyThread = AnyThread
  None = None
  Threads <- MCThreads
  Fibers <- MCFibers
  Callbacks <- MCCallbacks
  Fds <- MCFdsShared
  Wait <- MCWaitClose
  Timed <- MCNoneTimed
  MaxWaits <- MCMaxWaits
  MaxArrivals <- MCNoArrivals
  Closers <- MCClosers
  Reopeners <- MCNoClosers
  Connectors <- MCNoClosers

SPECIFICATION Spec

PROPERTY ClosedWaitEnds
