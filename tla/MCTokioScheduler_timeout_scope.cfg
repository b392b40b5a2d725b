SPECIFICATION Spec
CONSTANTS
  Fibers = {f1}
  Root = root
  MaxTasks = 2
  Ops = {"sleep", "timeout"}
PROPERTIES RaisedInsideBlock
