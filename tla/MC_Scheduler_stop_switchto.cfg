CONSTANTS
  t1 = t1
  t2 = t2
  f1 = f1
  f2 = f2
  c1 = c1
  AnyThread = AnyThread
  None = None
  Threads <- MCThreads
  m_rootThread <- MCNoRootThread
  Fibers <- MCFibers
  Callbacks <- MCCallbacks
  SwitchTargets <- MCThreads
  MaxYields <- MCMaxYields
  MaxMainCalls <- MCMaxMainCalls
SPECIFICATION Spec
PROPERTY StopCompletes
