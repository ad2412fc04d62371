CONSTANTS
  t1 = t1
  t2 = t2
  f1 = f1
  f2 = f2
  fd1 = fd1
  fd2 = fd2
  AnyThread = AnyThread
  None = None
  Threads <- MCThreads
  Fibers <- MCFibers
  Callbacks <- MCCallbacks
  Fds <- MCFdsOwn
  Wait <- MCWaitOwn
  Timed <- MCTimed
  MaxWaits <- MCMaxWaits
  MaxArrivals <- MCNoArrivals
  Closers <- MCNoClosers
  Reopeners <- MCNoClosers
  Connectors <- MCNoClosers


SPECIFICATION Spec

PROPERTY TimedWaitEnds
