------------------------- MODULE TokioSchedulerHooks -------------------------
(* TokioScheduler implements FiberHooks: the refinement mapping.           *)
EXTENDS TokioScheduler

(* A fiber runs from the moment it is switched to; in the wrapper of its   *)
(* block (back) it has already ended.                                      *)
PhaseOf(f) ==
    IF at[f] \in {"back", "dead"} THEN "ended"
    ELSE IF at[f] = "user" \/ Arriving(f) THEN "running"
    ELSE at[f]

(* run takes the result of a future when it joins it. A timeout is spent   *)
(* when its poll has begun to raise.                                       *)
ResultOf(t) ==
    IF state[t] = "unspawned" THEN "none"
    ELSE IF state[t] \in {"joined", "cancelled"} THEN "gone"
    ELSE IF kind[t] # "timeout" THEN (IF state[t] = "ready" THEN output[t] ELSE "pending")
    ELSE IF state[t] = "ready" \/ (at[Root] = "poll" /\ task = t) THEN "gone"
    ELSE "armed"

(* A fiber that waits in a hook waits for the future of that hook call. *)
WaitOf(f) == IF PhaseOf(f) = "hook" THEN waits[f] ELSE NoTask

Hooks ==
    INSTANCE FiberHooks WITH
        Calls <- Tasks,
        NoCall <- NoTask,
        phase <- [f \in Fibers |-> PhaseOf(f)],
        wait <- [f \in Fibers |-> WaitOf(f)],
        caller <- owner,
        result <- [t \in Tasks |-> ResultOf(t)]

(* Every behaviour of the scheduler is one that FiberHooks allows: a hook  *)
(* returns with its own result, exactly once, or is left by a timeout of   *)
(* its own fiber, one fiber runs at a time, a scheduled fiber hands        *)
(* control back to the one that waits for it, and only an interrupt takes  *)
(* away a result somebody waits for (spawn_and_transfer, run,              *)
(* timeout_after, fiber_impl).                                             *)
ImplementsHooks == Hooks!Spec
=============================================================================
