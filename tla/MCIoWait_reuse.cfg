SPECIFICATION Spec
CONSTANTS
  c1 = c1
  c2 = c2
  Fds = {3}
  Classes = {"socket"}
  Modes = {TRUE, FALSE}
  Calls <- OneCall
  Asked <- EachAlone
  Selections <- NoSelection
INVARIANTS FdStaysOpen
