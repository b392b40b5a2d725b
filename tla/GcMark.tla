------------------------------- MODULE GcMark -------------------------------
(***************************************************************************)
(* The scheduler under Ruby's garbage collector: TokioScheduler::mark, and *)
(* what becomes of the fibers that nothing marks. A fiber is a Ruby object *)
(* that the scheduler knows by its address (fiber.rs: Hash and Eq are those*)
(* of the raw VALUE). Here a member of Fibers is an address: a collected   *)
(* fiber is "unborn" again, and the next Fiber.schedule may put another    *)
(* fiber at its address. The Ruby program keeps no reference to the fibers *)
(* it schedules, and the futures of the JoinSet are not visited by mark.   *)
(***************************************************************************)
EXTENDS TokioScheduler

VARIABLE undefined   \* the code has used a fiber whose memory was freed

gcVars == <<vars, undefined>>

(* Variant: the table of blocked fibers is not visited *)
MarkRootOnly == {Root}

(* mark: the root fiber and the keys of blockers, read past the borrow *)
Mark == {Root} \cup {f \in AllFibers : blockers[f] # NoTask}

(* What Ruby marks by itself: the fiber that runs, and from the machine    *)
(* stack of each marked fiber the fibers in its frames: the one it has     *)
(* created and switched to, while that one lives; the one its wrapper      *)
(* switches to; the one that run resumes. The scan is conservative: a      *)
(* child that f was raised out of waiting for may still be in its stack.   *)
References(f) ==
    IF at[f] = "schedule"
      THEN {g \in Fibers : parent[g] = f /\ at[g] \in {"user", "hook", "schedule", "back"}}
    ELSE IF at[f] = "back" THEN {parent[f]}
    ELSE IF at[f] \in {"resume", "poll"} THEN {owner[task]}
    ELSE {}

Closed(S) ==
    /\ Mark \cup {current} \subseteq S
    /\ \A f \in S : References(f) \subseteq S

Marked == {f \in AllFibers : \A S \in SUBSET AllFibers : Closed(S) => f \in S}

(* the collector frees a fiber: its stack is gone, nothing on it is dropped *)
Collect(f) ==
    /\ at[f] # "unborn"
    /\ f \notin Marked
    /\ at' = [at EXCEPT ![f] = "unborn"]
    /\ parent' = [parent EXCEPT ![f] = Root]
    /\ scope' = [scope EXCEPT ![f] = {}]
    /\ waits' = [waits EXCEPT ![f] = NoTask]
    /\ UNCHANGED <<current, carried, joinVars, blockVars, loopVars, undefined>>

Freed(f) == f \in Fibers /\ at[f] = "unborn"

(* the step of run that asks whether the fiber of t is alive *)
Touches(t) ==
    Selecting /\ (state[t] = "ready" \/ (state[t] = "pending" /\ kind[t] = "timeout"))

(* run joins, or the poll of a timeout raises in, a fiber that was freed *)
TaskDangles(t) ==
    /\ Freed(owner[t])
    /\ Touches(t)
    /\ undefined' = TRUE
    /\ UNCHANGED vars

(* a nested block ends, and transfer_back_to was freed *)
ParentDangles(f) ==
    /\ Running(f)
    /\ Freed(parent[f])
    /\ undefined' = TRUE
    /\ UNCHANGED vars

(* the steps of the scheduler that use no freed fiber *)
FiberStep(f) ==
    /\ FiberCall(f) \/ FiberProgress(f) \/ Unblock(f)
    /\ Freed(parent[f]) /\ at[f] = "user" => at'[f] \notin {"back", "dead"}

TaskStep(t) ==
    /\ TaskProgress(t)
    /\ ~(Freed(owner[t]) /\ Touches(t))

GcInit == Init /\ undefined = FALSE

GcNext ==
    \/ /\ ~undefined
       /\ UNCHANGED undefined
       /\ \/ \E f \in Fibers : FiberStep(f)
          \/ \E t \in Tasks : TaskStep(t) \/ PollPending(t)
          \/ RootCall
          \/ RootProgress
          \/ ThreadExited
    \/ /\ ~undefined
       /\ \/ \E f \in Fibers : Collect(f) \/ ParentDangles(f)
          \/ \E t \in Tasks : TaskDangles(t)
    \/ undefined /\ UNCHANGED gcVars

GcSpec == GcInit /\ [][GcNext]_gcVars

-----------------------------------------------------------------------------
(* A fiber that is blocked is not collected before an unblock, or its      *)
(* timeout, has reached its future: for that long its key is in blockers,  *)
(* where mark finds it (mark, block, unblock).                             *)
BlockedKept ==
    [][\A f \in Fibers :
          /\ at[f] = "hook"
          /\ kind[waits[f]] \in {"block", "timed_block"}
          /\ state[waits[f]] = "pending"
          /\ waits[f] \notin sent
          => at'[f] # "unborn"]_gcVars

(* No fiber is created at an address under which blockers still holds the  *)
(* sender of an earlier fiber: the senders that timed-out and refused      *)
(* blocks leave behind pin their fibers, dead or not (mark, block).        *)
NewFiberHasNoSender ==
    \A f \in Fibers : at[f] = "unborn" => blockers[f] = NoTask

-----------------------------------------------------------------------------
(* What the repository says of the program and the code does not do.       *)

(* The loop is "checking all the blocked fibers (which it has registered   *)
(* on hook calls) and resuming them when the awaited resource is ready"    *)
(* (tokio_scheduler.rs): a fiber suspended in a hook is still there.       *)
WaiterKept ==
    [][\A f \in Fibers : at[f] = "hook" => at'[f] # "unborn"]_gcVars
=============================================================================
