SPECIFICATION FairSpec
CONSTANTS
  w1 = w1
  w2 = w2
  NoWaiter = NoWaiter
  Waiters <- TwoWaiters
  Children = {1, 2, 3}
  Own = {1, 2}
  MaxPid = 7
  RawPids <- AllPids
  Flags = {"none", "nohang", "unknown"}
INVARIANTS TypeOK NoLostSignal EchildMeansTaken
PROPERTIES WaitServed
