SPECIFICATION FairSpec
CONSTANTS
  Fibers = {f1, f2}
  Root = root
  MaxTasks = 3
  Ops = {"sleep", "resolve", "block", "timed_block", "unblock", "nested", "timeout", "raise", "interrupt"}
PROPERTIES CloseReturns RunEndsWithFibers ImplementsHooks
