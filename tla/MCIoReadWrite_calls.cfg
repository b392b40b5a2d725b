SPECIFICATION FairSpec
CONSTANTS
  c1 = c1
  c2 = c2
  Fds = {3}
  Classes = {"socket", "udp", "file", "other"}
  Modes = {FALSE}
  Calls <- TwoCalls
  Lens = {2}
  Mins = {0, 1, 2, 3}
  Capacity = 2
  MaxBuf = 1
  MaxBytes = 3
  Room = 1
INVARIANTS TypeOK ReadTakesNoMore WriteReturnsWhenWritten FlagsRestoredUnlessOverlapped
PROPERTIES FileCallEnds SocketReadAnswered
