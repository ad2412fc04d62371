CONSTANTS
  NoCtx = NoCtx
  Fds <- MCFds

SPECIFICATION Spec

INVARIANT HookedCallsNeverBlock
