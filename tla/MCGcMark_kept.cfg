SPECIFICATION GcSpec
CONSTANTS
  Fibers = {f1}
  Root = root
  MaxTasks = 1
  Ops = {"sleep"}
PROPERTIES WaiterKept
