CONSTANTS
  t1 = t1
  t2 = t2
  f1 = f1
  f2 = f2
  c1 = c1
  AnyThread = AnyThread
  None = None
  Threads <- MCThreads
  m_rootThread <- MCRootThread
  Fibers <- MCFibers
  Callbacks <- MCCallbacks
  SwitchTargets <- MCThreads
  MaxYields <- MCOneYield
  MaxMainCalls <- MCMaxMainCalls
SPECIFICATION Spec
INVARIANT TypeOK
INVARIANT FiberRunsExclusively
INVARIANT BackResumesCaller
PROPERTY EveryTaskRuns
PROPERTY StopCompletes
PROPERTY FiberTaskSpec
