--------------------------- MODULE TokioScheduler ---------------------------
(***************************************************************************)
(* The control flow of one Ruby thread whose non-blocking fibers run under *)
(* TokioScheduler (ext/shreduler/src): which fiber runs, where each other  *)
(* fiber is suspended, the futures in the JoinSet futures_to_run, the      *)
(* blockers table, and the event loop of run/close.                        *)
(*                                                                         *)
(* A fiber switch (rb_fiber_transfer, rb_fiber_raise, or the end of a      *)
(* fiber) takes two steps: the first makes the target current and puts     *)
(* what it carries (a value or an exception) in `carried', the second is   *)
(* what the target does with it at the point where it was suspended.       *)
(***************************************************************************)
EXTENDS Naturals

CONSTANTS
    Fibers,     \* the fibers Fiber.schedule may create
    Root,       \* the thread's root fiber, which created the scheduler
    MaxTasks,   \* bound: futures spawned in one behaviour
    Ops         \* the operations the Ruby program uses

ASSUME RootAssumption == Root \notin Fibers
ASSUME MaxTasksAssumption == MaxTasks \in Nat

AllFibers == Fibers \cup {Root}

Tasks == 1 .. MaxTasks
NoTask == 0

(* A oneshot sender is named by the task that owns its receiver. Severed   *)
(* names a sender whose receiver was dropped before any task owned it.     *)
Severed == MaxTasks + 1

VARIABLES
    current,      \* rb_fiber_current()
    at,           \* where each fiber's stack stands
    carried,      \* what the last switch hands to current: "ok", "err", or "none"
    parent,       \* fiber_impl's transfer_back_to; Root means the block is not wrapped
    scope,        \* the timeout_after calls each fiber is inside of
    state,        \* life of each future in the JoinSet
    kind,         \* which hook spawned it
    owner,        \* FiberFuture.fiber
    output,       \* ResumableFiber.value
    nspawned,     \* how many futures were ever spawned
    blockers,     \* TokioScheduler.blockers: fiber -> Sender
    sent,         \* the tasks whose oneshot channel holds a value
    write_count,  \* GcCell counter of futures_to_run
    task,         \* the task run has joined, or whose poll is raising
    closing,      \* run was called by close
    runtime,      \* TokioScheduler.runtime: "open" or "closed"
    waits,        \* history: the future of the hook call the fiber is in
    interrupted   \* history: run has aborted its futures

fiberVars == <<current, at, carried, parent, scope, waits>>
joinVars == <<state, kind, owner, output, nspawned>>
blockVars == <<blockers, sent>>
loopVars == <<write_count, task, closing, runtime, interrupted>>
vars == <<current, at, carried, parent, scope, waits,
          state, kind, owner, output, nspawned,
          blockers, sent,
          write_count, task, closing, runtime, interrupted>>

-----------------------------------------------------------------------------
(* Where a fiber's stack can stand.                                        *)
(*   user      in Ruby code                                                *)
(*   hook      in spawn_and_transfer, switched to the root fiber           *)
(*   schedule  in fiber_impl, switched to the fiber it created             *)
(*   back      in the wrapper of a nested block, switched to transfer_back_to*)
(* and for the root fiber only:                                            *)
(*   select    in run, awaiting the select!                                *)
(*   resume    in run, in resume_if_alive, switched to the joined fiber    *)
(*   poll      in run, in the poll of a timeout future that raises         *)
(*   exited    close has returned and the thread is gone                   *)
FiberPoints == {"unborn", "user", "hook", "schedule", "back", "dead"}
RootPoints == {"user", "schedule", "select", "resume", "poll", "exited"}

TaskStates == {"unspawned", "pending", "aborted", "cancelled", "ready", "joined"}
TaskKinds == {"none", "sleep", "resolve", "block", "timed_block", "timeout"}
Outcomes == {"ok", "err"}

(* Fiber::is_alive, for a fiber that has been created *)
Alive(f) == at[f] \notin {"unborn", "dead"}

(* f is executing Ruby code *)
Running(f) == current = f /\ at[f] = "user" /\ carried = "none"

(* f has just been switched to *)
Arriving(f) == current = f /\ carried # "none"

(* the event loop is awaiting, with futures_to_run borrowed *)
Selecting == at[Root] = "select" /\ carried = "none"

(* a switch to g that hands over o *)
SwitchTo(g, o) == current' = g /\ carried' = o

-----------------------------------------------------------------------------
Init ==
    /\ current = Root
    /\ at = [f \in AllFibers |-> IF f = Root THEN "user" ELSE "unborn"]
    /\ carried = "none"
    /\ parent = [f \in Fibers |-> Root]
    /\ scope = [f \in Fibers |-> {}]
    /\ waits = [f \in Fibers |-> NoTask]
    /\ state = [t \in Tasks |-> "unspawned"]
    /\ kind = [t \in Tasks |-> "none"]
    /\ owner = [t \in Tasks |-> Root]
    /\ output = [t \in Tasks |-> "none"]
    /\ nspawned = 0
    /\ blockers = [f \in AllFibers |-> NoTask]
    /\ sent = {}
    /\ write_count = 0
    /\ task = NoTask
    /\ closing = FALSE
    /\ runtime = "open"
    /\ interrupted = FALSE

-----------------------------------------------------------------------------
(* TokioScheduler::spawn, and the two places it is called from.            *)

(* Variant: the counters are not tested *)
BorrowableAlways == TRUE

(* try_borrow_mut of futures_to_run succeeds *)
Borrowable == write_count = 0

Spawn(f, k) ==
    /\ Borrowable
    /\ nspawned < MaxTasks
    /\ nspawned' = nspawned + 1
    /\ state' = [state EXCEPT ![nspawned + 1] = "pending"]
    /\ kind' = [kind EXCEPT ![nspawned + 1] = k]
    /\ owner' = [owner EXCEPT ![nspawned + 1] = f]
    /\ UNCHANGED output

(* PoisonedCellError: nothing is spawned and the error is raised in f *)
SpawnRefused ==
    /\ ~Borrowable
    /\ UNCHANGED <<fiberVars, joinVars, sent, loopVars>>

(* spawn_and_transfer: spawn the future, then switch to the root fiber *)
SpawnAndTransfer(f, k) ==
    /\ Spawn(f, k)
    /\ waits' = [waits EXCEPT ![f] = nspawned + 1]
    /\ at' = [at EXCEPT ![f] = "hook"]
    /\ SwitchTo(Root, "ok")
    /\ UNCHANGED <<parent, scope, sent, loopVars>>

-----------------------------------------------------------------------------
(* The hooks, called by the running fiber.                                 *)

KernelSleep(f) ==
    /\ "sleep" \in Ops
    /\ Running(f)
    /\ SpawnAndTransfer(f, "sleep") \/ SpawnRefused
    /\ UNCHANGED blockers

AddressResolve(f) ==
    /\ "resolve" \in Ops
    /\ Running(f)
    /\ SpawnAndTransfer(f, "resolve") \/ SpawnRefused
    /\ UNCHANGED blockers

(* The sender enters blockers before the future is spawned: a refused      *)
(* spawn drops the receiver and leaves the sender behind.                  *)
Block(f, k) ==
    /\ k \in Ops
    /\ Running(f)
    /\ \/ /\ SpawnAndTransfer(f, k)
          /\ blockers' = [blockers EXCEPT ![f] = nspawned + 1]
       \/ /\ SpawnRefused
          /\ blockers' = [blockers EXCEPT ![f] = Severed]

ReceiverAlive(c) == c \in Tasks /\ state[c] \in {"pending", "aborted"}

(* Variant: the sender is removed and dropped *)
UnblockUnsent(g) ==
    /\ "unblock" \in Ops
    /\ carried = "none"
    /\ Alive(g)
    /\ blockers[g] # NoTask
    /\ blockers' = [blockers EXCEPT ![g] = NoTask]
    /\ UNCHANGED <<fiberVars, joinVars, sent, loopVars>>

(* Called by the running fiber or by another Ruby thread; with no entry    *)
(* for g it returns without effect, and a send to a dropped receiver       *)
(* raises in the caller.                                                   *)
Unblock(g) ==
    /\ "unblock" \in Ops
    /\ carried = "none"
    /\ Alive(g)
    /\ blockers[g] # NoTask
    /\ blockers' = [blockers EXCEPT ![g] = NoTask]
    /\ sent' = IF ReceiverAlive(blockers[g]) THEN sent \cup {blockers[g]} ELSE sent
    /\ UNCHANGED <<fiberVars, joinVars, loopVars>>

(* timeout_after: the timeout future is spawned and its handle dropped;    *)
(* then the block is called                                                *)
TimeoutAfter(f) ==
    /\ "timeout" \in Ops
    /\ Running(f)
    /\ \/ /\ Spawn(f, "timeout")
          /\ scope' = [scope EXCEPT ![f] = @ \cup {nspawned + 1}]
          /\ UNCHANGED <<current, at, carried, parent, waits, sent, loopVars>>
       \/ SpawnRefused
    /\ UNCHANGED blockers

(* The innermost block given to timeout_after ends, by return or exception *)
TimeoutBlockEnds(f) ==
    /\ Running(f)
    /\ \E t \in scope[f] :
         /\ \A u \in scope[f] : u <= t
         /\ scope' = [scope EXCEPT ![f] = @ \ {t}]
    /\ UNCHANGED <<current, at, carried, parent, waits, joinVars, blockVars,
                   loopVars>>

(* fiber_impl: create g and switch to it. Only a caller other than the     *)
(* root fiber has the block wrapped so that it is switched back to.        *)
Fiber(f, g) ==
    /\ Running(f)
    /\ f = Root \/ "nested" \in Ops
    /\ at[g] = "unborn"
    /\ parent' = [parent EXCEPT ![g] = f]
    /\ at' = [at EXCEPT ![f] = "schedule", ![g] = "user"]
    /\ current' = g
    /\ UNCHANGED <<carried, scope, waits, joinVars, blockVars, loopVars>>

-----------------------------------------------------------------------------
(* The end of a fiber.                                                     *)

(* Ruby switches from a finished fiber to the thread's root fiber *)
Terminate(f, o) ==
    /\ at' = [at EXCEPT ![f] = "dead"]
    /\ SwitchTo(Root, o)

(* Variant: a nested block is not wrapped *)
BlockEndsUnwrapped(f, o) ==
    /\ Running(f)
    /\ o = "ok" \/ "raise" \in Ops
    /\ scope' = [scope EXCEPT ![f] = {}]
    /\ Terminate(f, o)
    /\ UNCHANGED <<parent, waits, joinVars, blockVars, loopVars>>

(* The block of f returns or raises. The wrapper of a nested block hands   *)
(* the outcome to transfer_back_to; if that fiber is dead,                 *)
(* check_suspended fails and the wrapper itself raises.                    *)
BlockEnds(f, o) ==
    /\ Running(f)
    /\ o = "ok" \/ "raise" \in Ops
    /\ scope' = [scope EXCEPT ![f] = {}]
    /\ \/ /\ parent[f] = Root
          /\ Terminate(f, o)
       \/ /\ parent[f] # Root
          /\ Alive(parent[f])
          /\ at' = [at EXCEPT ![f] = "back"]
          /\ SwitchTo(parent[f], o)
       \/ /\ parent[f] # Root
          /\ ~Alive(parent[f])
          /\ Terminate(f, "err")
    /\ UNCHANGED <<parent, waits, joinVars, blockVars, loopVars>>

-----------------------------------------------------------------------------
(* What a fiber that has been switched to does first.                      *)

(* spawn_and_transfer returns the value, or the exception, to Ruby code *)
HookReturns(f) ==
    /\ Arriving(f)
    /\ at[f] = "hook"
    /\ at' = [at EXCEPT ![f] = "user"]
    /\ waits' = [waits EXCEPT ![f] = NoTask]
    /\ carried' = "none"
    /\ UNCHANGED <<current, parent, scope, joinVars, blockVars, loopVars>>

(* fiber_impl returns the new fiber, or raises, in its caller *)
FiberReturns(f) ==
    /\ Arriving(f)
    /\ at[f] = "schedule"
    /\ at' = [at EXCEPT ![f] = "user"]
    /\ carried' = "none"
    /\ UNCHANGED <<current, parent, scope, waits, joinVars, blockVars, loopVars>>

(* the wrapper of a nested block returns: the fiber ends *)
WrapperReturns(f) ==
    /\ Arriving(f)
    /\ at[f] = "back"
    /\ Terminate(f, carried)
    /\ UNCHANGED <<parent, scope, waits, joinVars, blockVars, loopVars>>

-----------------------------------------------------------------------------
(* run and close, on the root fiber.                                       *)

EnterSelect ==
    /\ Borrowable
    /\ write_count' = write_count + 1
    /\ at' = [at EXCEPT ![Root] = "select"]

(* run returns o; close then drops the runtime, unless run failed *)
RunReturns(o) ==
    /\ at' = [at EXCEPT ![Root] = IF closing THEN "exited" ELSE "user"]
    /\ runtime' = IF closing /\ o = "ok" THEN "closed" ELSE runtime

Run(byClose) ==
    /\ Running(Root)
    /\ byClose \/ "run" \in Ops
    /\ runtime = "open"
    /\ EnterSelect
    /\ closing' = byClose
    /\ UNCHANGED <<current, carried, parent, scope, waits, joinVars, blockVars,
                   task, runtime, interrupted>>

(* The parts of JoinNext: take the future out, and switch to its fiber *)
TakeOutput(t) ==
    /\ Selecting
    /\ state[t] = "ready"
    /\ state' = [state EXCEPT ![t] = "joined"]
    /\ output' = [output EXCEPT ![t] = "none"]
    /\ UNCHANGED <<parent, scope, waits, kind, owner, nspawned, blockVars,
                   closing, runtime, interrupted>>

ResumeIfAlive(t) ==
    /\ Alive(owner[t])
    /\ task' = t
    /\ at' = [at EXCEPT ![Root] = "resume"]
    /\ SwitchTo(owner[t], output[t])

(* Variant: the borrow is kept while the fiber runs *)
JoinNextBorrowed(t) ==
    /\ TakeOutput(t)
    /\ \/ ~Alive(owner[t]) /\ UNCHANGED <<current, at, carried, task>>
       \/ ResumeIfAlive(t)
    /\ UNCHANGED write_count

(* Variant: the borrow is dropped twice for a dead fiber *)
JoinNextDroppedTwice(t) ==
    /\ TakeOutput(t)
    /\ \/ ~Alive(owner[t]) /\ UNCHANGED <<current, at, carried, task>>
       \/ ResumeIfAlive(t)
    /\ write_count' = write_count - 1

(* Variant: a future that failed is only logged *)
JoinNextErrLogged(t) ==
    /\ TakeOutput(t)
    /\ \/ /\ ~Alive(owner[t]) \/ output[t] = "err"
          /\ UNCHANGED <<current, at, carried, write_count, task>>
       \/ /\ output[t] = "ok"
          /\ ResumeIfAlive(t)
          /\ write_count' = write_count - 1

(* join_next yields a finished future: the borrow is dropped, and the      *)
(* fiber is switched to if it is alive                                     *)
JoinNext(t) ==
    /\ TakeOutput(t)
    /\ \/ /\ ~Alive(owner[t])
          /\ UNCHANGED <<current, at, carried, write_count, task>>
       \/ /\ ResumeIfAlive(t)
          /\ write_count' = write_count - 1

(* join_next yields a JoinError, which is only logged *)
JoinError(t) ==
    /\ Selecting
    /\ state[t] = "cancelled"
    /\ state' = [state EXCEPT ![t] = "joined"]
    /\ UNCHANGED <<fiberVars, kind, owner, output, nspawned, blockVars, loopVars>>

(* Variant: run returns once no future is ready *)
JoinNoneReady ==
    /\ Selecting
    /\ \A t \in Tasks : state[t] # "ready"
    /\ write_count' = write_count - 1
    /\ RunReturns("ok")
    /\ UNCHANGED <<current, carried, parent, scope, waits, joinVars, blockVars,
                   task, closing, interrupted>>

(* the JoinSet is empty: run returns Ok *)
JoinNone ==
    /\ Selecting
    /\ \A t \in Tasks : state[t] \in {"unspawned", "joined"}
    /\ write_count' = write_count - 1
    /\ RunReturns("ok")
    /\ UNCHANGED <<current, carried, parent, scope, waits, joinVars, blockVars,
                   task, closing, interrupted>>

(* check_interrupts fails: every unfinished future is aborted *)
Interrupt ==
    /\ "interrupt" \in Ops
    /\ Selecting
    /\ ~interrupted
    /\ interrupted' = TRUE
    /\ state' = [t \in Tasks |-> IF state[t] = "pending" THEN "aborted" ELSE state[t]]
    /\ write_count' = write_count - 1
    /\ RunReturns("err")
    /\ UNCHANGED <<current, carried, parent, scope, waits, kind, owner, output,
                   nspawned, blockVars, task, closing>>

(* resume_if_alive returns: Ok goes round the loop, Err ends run *)
ResumeReturns ==
    /\ Arriving(Root)
    /\ at[Root] = "resume"
    /\ carried' = "none"
    /\ task' = NoTask
    /\ \/ carried = "ok" /\ EnterSelect /\ UNCHANGED runtime
       \/ carried = "err" /\ RunReturns("err") /\ UNCHANGED write_count
    /\ UNCHANGED <<current, parent, scope, waits, joinVars, blockVars, closing,
                   interrupted>>

-----------------------------------------------------------------------------
(* Polls of the futures, made by block_on while the root fiber awaits.     *)

(* A poll that leaves the future pending wakes it again: it is polled for  *)
(* as long as run awaits.                                                  *)
PollPending(t) ==
    /\ Selecting
    /\ state[t] = "pending"
    /\ UNCHANGED vars

Ready(t, o) ==
    /\ state' = [state EXCEPT ![t] = "ready"]
    /\ output' = [output EXCEPT ![t] = o]

(* sleep_until has elapsed *)
PollSleep(t) ==
    /\ Selecting
    /\ state[t] = "pending"
    /\ kind[t] = "sleep"
    /\ Ready(t, "ok")
    /\ UNCHANGED <<fiberVars, kind, owner, nspawned, blockVars, loopVars>>

(* lookup_host has answered, or failed *)
PollResolve(t) ==
    /\ Selecting
    /\ state[t] = "pending"
    /\ kind[t] = "resolve"
    /\ \E o \in Outcomes : Ready(t, o)
    /\ UNCHANGED <<fiberVars, kind, owner, nspawned, blockVars, loopVars>>

(* Variant: the timeout of block never elapses *)
PollBlockUntimed(t) ==
    /\ Selecting
    /\ state[t] = "pending"
    /\ kind[t] \in {"block", "timed_block"}
    /\ \/ t \in sent /\ Ready(t, "ok")
       \/ t \notin sent /\ blockers[owner[t]] # t /\ Ready(t, "err")
    /\ blockers' = [blockers EXCEPT ![current] = NoTask]
    /\ UNCHANGED <<fiberVars, kind, owner, nspawned, sent, loopVars>>

(* The future of block: a value in the channel wins over the timeout; a    *)
(* dropped sender is an error. What is then removed from blockers is the   *)
(* entry of the fiber that polls.                                          *)
PollBlock(t) ==
    /\ Selecting
    /\ state[t] = "pending"
    /\ kind[t] \in {"block", "timed_block"}
    /\ \/ t \in sent /\ Ready(t, "ok")
       \/ t \notin sent /\ blockers[owner[t]] # t /\ Ready(t, "err")
       \/ t \notin sent /\ kind[t] = "timed_block" /\ Ready(t, "err")
    /\ blockers' = [blockers EXCEPT ![current] = NoTask]
    /\ UNCHANGED <<fiberVars, kind, owner, nspawned, sent, loopVars>>

(* sleep_until of timeout_after has elapsed: the exception is raised in    *)
(* the fiber from within the poll                                          *)
PollTimeout(t) ==
    /\ Selecting
    /\ state[t] = "pending"
    /\ kind[t] = "timeout"
    /\ \/ /\ ~Alive(owner[t])
          /\ Ready(t, "err")
          /\ UNCHANGED <<current, at, carried, task>>
       \/ /\ Alive(owner[t])
          /\ at' = [at EXCEPT ![Root] = "poll"]
          /\ task' = t
          /\ SwitchTo(owner[t], "err")
          /\ UNCHANGED <<state, output>>
    /\ UNCHANGED <<parent, scope, waits, kind, owner, nspawned, blockVars, write_count,
                   closing, runtime, interrupted>>

(* the raise of a timeout future is over, and so is the future *)
RaiseReturns ==
    /\ Arriving(Root)
    /\ at[Root] = "poll"
    /\ Ready(task, carried)
    /\ at' = [at EXCEPT ![Root] = "select"]
    /\ carried' = "none"
    /\ task' = NoTask
    /\ UNCHANGED <<current, parent, scope, waits, kind, owner, nspawned, blockVars,
                   write_count, closing, runtime, interrupted>>

(* an aborted future is dropped when the runtime next runs *)
PollAborted(t) ==
    /\ Selecting
    /\ state[t] = "aborted"
    /\ state' = [state EXCEPT ![t] = "cancelled"]
    /\ UNCHANGED <<fiberVars, kind, owner, output, nspawned, blockVars, loopVars>>

-----------------------------------------------------------------------------
ThreadExited == at[Root] = "exited" /\ UNCHANGED vars

(* what the program does next in a fiber, beyond running to its end *)
FiberCall(f) ==
    \/ KernelSleep(f)
    \/ AddressResolve(f)
    \/ \E k \in {"block", "timed_block"} : Block(f, k)
    \/ TimeoutAfter(f)
    \/ TimeoutBlockEnds(f)
    \/ \E g \in Fibers : Fiber(f, g)
    \/ BlockEnds(f, "err")

FiberProgress(f) ==
    \/ BlockEnds(f, "ok")
    \/ HookReturns(f)
    \/ FiberReturns(f)
    \/ WrapperReturns(f)

RootCall ==
    \/ \E g \in Fibers : Fiber(Root, g)
    \/ Run(FALSE)
    \/ Interrupt

RootProgress ==
    \/ FiberReturns(Root)
    \/ Run(TRUE)
    \/ JoinNone
    \/ ResumeReturns
    \/ RaiseReturns

TaskProgress(t) ==
    \/ JoinNext(t)
    \/ JoinError(t)
    \/ PollSleep(t)
    \/ PollResolve(t)
    \/ PollBlock(t)
    \/ PollTimeout(t)
    \/ PollAborted(t)

Next ==
    \/ \E f \in Fibers : FiberCall(f) \/ FiberProgress(f) \/ Unblock(f)
    \/ RootCall
    \/ RootProgress
    \/ \E t \in Tasks : TaskProgress(t) \/ PollPending(t)
    \/ ThreadExited

Spec == Init /\ [][Next]_vars

(* Ruby code that runs ends; the thread calls close; the current-thread    *)
(* runtime polls every future again (poll wakes its own task) and yields   *)
(* the finished ones; clocks advance and look-ups answer; whoever a fiber  *)
(* is blocked on releases it.                                              *)
Fairness ==
    /\ \A f \in Fibers : WF_vars(FiberProgress(f)) /\ WF_vars(Unblock(f))
    /\ WF_vars(RootProgress)
    /\ \A t \in Tasks : WF_vars(TaskProgress(t))

FairSpec == Spec /\ Fairness

-----------------------------------------------------------------------------
(* Every variable keeps its type; in particular the borrow counter of      *)
(* futures_to_run never goes below zero.                                   *)
TypeOK ==
    /\ current \in AllFibers
    /\ at \in [AllFibers -> FiberPoints \cup RootPoints]
    /\ at[Root] \in RootPoints
    /\ \A f \in Fibers : at[f] \in FiberPoints
    /\ carried \in Outcomes \cup {"none"}
    /\ parent \in [Fibers -> AllFibers]
    /\ scope \in [Fibers -> SUBSET Tasks]
    /\ waits \in [Fibers -> Tasks \cup {NoTask}]
    /\ state \in [Tasks -> TaskStates]
    /\ kind \in [Tasks -> TaskKinds]
    /\ owner \in [Tasks -> AllFibers]
    /\ output \in [Tasks -> Outcomes \cup {"none"}]
    /\ nspawned \in 0 .. MaxTasks
    /\ blockers \in [AllFibers -> Tasks \cup {NoTask, Severed}]
    /\ sent \subseteq Tasks
    /\ write_count \in Nat
    /\ task \in Tasks \cup {NoTask}
    /\ closing \in BOOLEAN
    /\ runtime \in {"open", "closed"}
    /\ interrupted \in BOOLEAN

Waiting(f) == at[f] \in {"hook", "schedule"}

(* A fiber suspended in a hook is switched to only by run, with the result *)
(* of the very future that hook spawned, or by a timeout_after of its own: *)
(* never with the result of an older hook call it was raised out of        *)
(* (spawn_and_transfer, resume_if_alive).                                  *)
NoSpuriousWakeup ==
    \A f \in Fibers :
        Arriving(f) /\ at[f] = "hook" =>
            \/ at[Root] = "resume" /\ task = waits[f]
            \/ at[Root] = "poll" /\ kind[task] = "timeout" /\ owner[task] = f

(* While a fiber is blocked, an unblock of it either will reach the future *)
(* it waits for (its own sender is the one in blockers) or has: the table  *)
(* never holds an older sender in its place, nor none (block, unblock).    *)
NoLostUnblock ==
    \A f \in Fibers :
        at[f] = "hook" /\ kind[waits[f]] \in {"block", "timed_block"}
                       /\ state[waits[f]] = "pending" =>
            blockers[f] = waits[f] \/ waits[f] \in sent

(* A fiber suspended in a hook still has the future that will wake it in   *)
(* the JoinSet, or is being woken by it; only an interrupt of run takes it *)
(* away (spawn_and_transfer, run).                                         *)
HookHasFuture ==
    \A f \in Fibers :
        at[f] = "hook" =>
            \/ state[waits[f]] \in {"pending", "ready"}
            \/ Arriving(f) /\ at[Root] = "resume" /\ task = waits[f]
            \/ interrupted

(* A fiber suspended in Fiber.schedule has a child that has not ended and  *)
(* will switch back to it (the wrapper of fiber_impl).                     *)
ScheduleHasChild ==
    \A f \in Fibers :
        at[f] = "schedule" /\ ~Arriving(f) =>
            \E g \in Fibers : parent[g] = f /\ at[g] \in {"user", "hook", "schedule"}

(* A hook called by a running fiber is refused with PoisonedCellError only *)
(* while run is inside the poll of a timeout future that raises: run never *)
(* keeps futures_to_run borrowed while it resumes a fiber.                 *)
SpawnRefusedOnlyUnderRaise ==
    \A f \in Fibers : Running(f) /\ ~Borrowable => at[Root] = "poll"

(* When run finds the JoinSet empty and returns Ok, no fiber is left       *)
(* waiting, unless an interrupt aborted its future.                        *)
RunDrains == [][JoinNone => interrupted \/ \A f \in Fibers : ~Waiting(f)]_vars

(* no timeout_after, no interrupt, no exception that ends a fiber *)
Undisturbed ==
    /\ \A t \in Tasks : kind[t] # "timeout"
    /\ ~interrupted
    /\ ~(current = Root /\ carried = "err")

(* In an undisturbed behaviour the thread exits and every fiber has        *)
(* finalized: each future completes, each unblock wakes its fiber, each    *)
(* nested block hands control back (run, close, unblock, fiber_impl).      *)
CloseReturns ==
    []Undisturbed =>
        <>(at[Root] = "exited" /\ \A f \in Fibers : ~Waiting(f))

(* the future of a block that nobody can unblock and no fiber waits for *)
Abandoned(t) ==
    /\ kind[t] = "block"
    /\ state[t] = "pending"
    /\ \A f \in Fibers : waits[f] # t

(* Once no fiber is left to resume, run returns, unless a fiber was raised *)
(* out of an untimed block: every other future that fibers left behind     *)
(* completes and is joined (run, with_timeout).                            *)
RunEndsWithFibers ==
    (at[Root] = "select" /\ \A f \in Fibers : at[f] \in {"unborn", "dead"})
        ~> (at[Root] # "select" \/ \E t \in Tasks : Abandoned(t))

-----------------------------------------------------------------------------
(* What the repository says of the program and the code does not do.       *)

(* timeout_after raises in a fiber only while it is inside the block: "if  *)
(* the block's execution time exceeds the duration" (timeout_after.rs).    *)
RaisedInsideBlock ==
    [][at[Root] = "select" /\ at'[Root] = "poll" => task' \in scope[current']]_vars
=============================================================================
