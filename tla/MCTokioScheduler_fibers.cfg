SPECIFICATION Spec
CONSTANTS
  Fibers = {f1, f2, f3}
  Root = root
  MaxTasks = 3
  Ops = {"timed_block", "unblock", "timeout", "nested", "raise", "run", "interrupt"}
SYMMETRY Sym
INVARIANTS TypeOK NoSpuriousWakeup NoLostUnblock HookHasFuture ScheduleHasChild SpawnRefusedOnlyUnderRaise
PROPERTIES RunDrains
