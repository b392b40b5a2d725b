SPECIFICATION GcSpec
CONSTANTS
  Fibers = {f1, f2}
  Root = root
  MaxTasks = 3
  Ops = {"timed_block", "unblock", "timeout", "nested"}
SYMMETRY Sym
INVARIANTS NewFiberHasNoSender
PROPERTIES BlockedKept
