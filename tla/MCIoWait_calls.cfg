SPECIFICATION FairSpec
CONSTANTS
  c1 = c1
  c2 = c2
  Fds = {3}
  Classes = {"socket", "file", "other"}
  Modes = {FALSE}
  Calls <- TwoCalls
  Asked <- EveryMask
  Selections <- OneSelects
INVARIANTS TypeOK FlagsRestored OpenUnlessReused
PROPERTIES TimedCallEnds ReadyAnswered
