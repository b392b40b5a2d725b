---------------------------- MODULE MCProcessWait ----------------------------
(* Instances of ProcessWait: 4-bit pids, so that MinPid, whose negation    *)
(* wraps, is -8 and RawPid::MAX is 7.                                      *)
EXTENDS ProcessWait

CONSTANTS w1, w2

TwoWaiters == {w1, w2}

(* every kind of argument: 5 names no child *)
AllPids == {MinPid, -2, -1, 0, 1, 3, 5}
AnyPid == {-1}
=============================================================================
