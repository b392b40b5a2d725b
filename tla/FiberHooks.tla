----------------------------- MODULE FiberHooks -----------------------------
(***************************************************************************)
(* What TokioScheduler promises to the fibers of a Ruby program, without   *)
(* futures, borrows, fiber switches or an event loop. A fiber that calls a *)
(* hook waits for the result of that call: it goes on when the result is   *)
(* there, once, and before that only when a timeout of its own raises in   *)
(* it. A fiber that schedules another one waits for it to end. One fiber   *)
(* runs at a time. Only an interrupt of the event loop takes a result away *)
(* from a fiber that waits for it.                                         *)
(***************************************************************************)
CONSTANTS
    Fibers,   \* the fibers the program may create
    Root,     \* the root fiber, parent of the fibers nobody waits for
    Calls,    \* names for the calls made in one behaviour
    NoCall    \* the value of wait for a fiber that waits for no call

VARIABLES
    phase,       \* what each fiber is doing
    parent,      \* the fiber that scheduled it
    wait,        \* the call each waiting fiber waits for
    caller,      \* the fiber that made the call
    result,      \* how far each call has come
    interrupted  \* the event loop was interrupted

vars == <<phase, parent, wait, caller, result, interrupted>>

Phases == {"unborn", "running", "hook", "schedule", "ended"}

(* A call of a hook is pending until it has an outcome; a timeout is armed *)
(* until it raises. Gone: the outcome was delivered or dropped.            *)
Outcomes == {"ok", "err"}
Results == Outcomes \cup {"none", "pending", "armed", "gone"}

Idle == \A f \in Fibers : phase[f] # "running"

Init ==
    /\ phase = [f \in Fibers |-> "unborn"]
    /\ parent = [f \in Fibers |-> Root]
    /\ wait = [f \in Fibers |-> NoCall]
    /\ caller = [c \in Calls |-> Root]
    /\ result = [c \in Calls |-> "none"]
    /\ interrupted = FALSE

(* the root fiber schedules a fiber, and does not wait for it *)
Begin(f) ==
    /\ Idle
    /\ phase[f] = "unborn"
    /\ phase' = [phase EXCEPT ![f] = "running"]
    /\ parent' = [parent EXCEPT ![f] = Root]
    /\ UNCHANGED <<wait, caller, result, interrupted>>

(* a running fiber schedules another one and waits for it *)
Schedule(f, g) ==
    /\ phase[f] = "running"
    /\ phase[g] = "unborn"
    /\ phase' = [phase EXCEPT ![f] = "schedule", ![g] = "running"]
    /\ parent' = [parent EXCEPT ![g] = f]
    /\ UNCHANGED <<wait, caller, result, interrupted>>

Call(f, c) ==
    /\ phase[f] = "running"
    /\ result[c] = "none"
    /\ phase' = [phase EXCEPT ![f] = "hook"]
    /\ wait' = [wait EXCEPT ![f] = c]
    /\ caller' = [caller EXCEPT ![c] = f]
    /\ result' = [result EXCEPT ![c] = "pending"]
    /\ UNCHANGED <<parent, interrupted>>

Arm(f, c) ==
    /\ phase[f] = "running"
    /\ result[c] = "none"
    /\ caller' = [caller EXCEPT ![c] = f]
    /\ result' = [result EXCEPT ![c] = "armed"]
    /\ UNCHANGED <<phase, parent, wait, interrupted>>

Complete(c, o) ==
    /\ Idle
    /\ result[c] = "pending"
    /\ result' = [result EXCEPT ![c] = o]
    /\ UNCHANGED <<phase, parent, wait, caller, interrupted>>

(* the fiber that waits for the call goes on with its result *)
Deliver(c) ==
    /\ Idle
    /\ result[c] \in Outcomes
    /\ phase[caller[c]] = "hook"
    /\ wait[caller[c]] = c
    /\ result' = [result EXCEPT ![c] = "gone"]
    /\ phase' = [phase EXCEPT ![caller[c]] = "running"]
    /\ wait' = [wait EXCEPT ![caller[c]] = NoCall]
    /\ UNCHANGED <<parent, caller, interrupted>>

(* a result is dropped only when the call's fiber no longer waits for it *)
Drop(c) ==
    /\ Idle
    /\ result[c] \in Outcomes
    /\ wait[caller[c]] # c
    /\ result' = [result EXCEPT ![c] = "gone"]
    /\ UNCHANGED <<phase, parent, wait, caller, interrupted>>

(* a timeout takes its fiber out of whatever it waits for *)
Raise(c) ==
    /\ Idle
    /\ result[c] = "armed"
    /\ result' = [result EXCEPT ![c] = "gone"]
    /\ \/ /\ phase[caller[c]] \in {"hook", "schedule"}
          /\ phase' = [phase EXCEPT ![caller[c]] = "running"]
          /\ wait' = [wait EXCEPT ![caller[c]] = NoCall]
       \/ /\ phase[caller[c]] = "ended"
          /\ UNCHANGED <<phase, wait>>
    /\ UNCHANGED <<parent, caller, interrupted>>

(* the block of a fiber ends: a parent that waits for it goes on *)
End(f) ==
    /\ phase[f] = "running"
    /\ phase' = [g \in Fibers |->
                    IF g = f THEN "ended"
                    ELSE IF g = parent[f] /\ phase[g] = "schedule" THEN "running"
                    ELSE phase[g]]
    /\ UNCHANGED <<parent, wait, caller, result, interrupted>>

Interrupt ==
    /\ Idle
    /\ interrupted' = TRUE
    /\ UNCHANGED <<phase, parent, wait, caller, result>>

Cancel(c) ==
    /\ Idle
    /\ interrupted
    /\ result[c] \in {"pending", "armed"}
    /\ result' = [result EXCEPT ![c] = "gone"]
    /\ UNCHANGED <<phase, parent, wait, caller, interrupted>>

Next ==
    \/ \E f \in Fibers :
         \/ Begin(f)
         \/ End(f)
         \/ \E g \in Fibers : Schedule(f, g)
         \/ \E c \in Calls : Call(f, c) \/ Arm(f, c)
    \/ \E c \in Calls :
         \/ \E o \in Outcomes : Complete(c, o)
         \/ Deliver(c)
         \/ Drop(c)
         \/ Raise(c)
         \/ Cancel(c)
    \/ Interrupt

Spec == Init /\ [][Next]_vars
=============================================================================
