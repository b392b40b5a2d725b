SPECIFICATION Spec
CONSTANTS
  c1 = c1
  c2 = c2
  Fds = {3}
  Classes = {"socket"}
  Modes = {TRUE, FALSE}
  Calls <- OneCall
  Lens = {2}
  Mins = {1}
  Capacity = 2
  MaxBuf = 2
  MaxBytes = 2
  Room = 1
INVARIANTS ReturnsBytesRead
