------------------------------- MODULE IoWait -------------------------------
(***************************************************************************)
(* The hooks that wait for descriptors: io_wait (io_wait.rs) and io_select *)
(* (io_select.rs), as futures that the runtime polls in any order while    *)
(* peers make descriptors ready and the program opens and closes them. A   *)
(* call owns tasks: io_wait its one future, whose stream is made in the    *)
(* calling fiber; io_select one task per IO and interest, each of which    *)
(* makes its stream when it is first polled.                               *)
(***************************************************************************)
EXTENDS RubyIo

CONSTANTS
    Calls,      \* calls in flight at a time
    Asked,      \* the event masks that io_wait is called with
    Selections  \* what the io_select of each call is given: sets of IOs and interests

(* {"R", "W"} is the interest in an IO of the third, "exceptable" array *)
Interests == {{"R"}, {"W"}, {"R", "W"}}
Ios == Fds \X Interests

ASSUME AskedAssumption == /\ Asked \subseteq (SUBSET (Events \cup {"P"})) \ {{}}
                          /\ Selections \in [Calls -> SUBSET SUBSET Ios]

VARIABLES
    call,
    aborted,    \* the calls whose future is aborted and not yet dropped
    gone        \* the tasks whose IO object was closed before their first poll

vars == <<fdVars, call, aborted, gone>>

(* A task is at "new" before its first poll; with a stream, at "made"      *)
(* before its guard is taken and then at "waiting"; at the end "ready" or  *)
(* "error". kind: what its stream is made of; seen: the driver has         *)
(* reported an event of its interest.                                      *)
Task(at, kind) == [at |-> at, kind |-> kind, seen |-> FALSE]

Outcome(kind, ios) == [kind |-> kind, ios |-> ios]

Idle == [state |-> "idle", hook |-> "none", asked |-> {}, timed |-> FALSE,
         tasks |-> [io \in {} |-> Task("new", "none")], first |-> {},
         result |-> Outcome("none", {})]

Init ==
    /\ FdInit
    /\ call = [c \in Calls |-> Idle]
    /\ aborted = {}
    /\ gone = {}

Pending(c) == call[c].state = "pending"
Owners(c) == {c} \X Ios
Owned == Calls \X Ios
GuardsOf(c) == {g \in guards : g.owner \in Owners(c)}

Sets(c, io, task) == call' = [call EXCEPT ![c].tasks[io] = task]

(* the hook has returned to the fiber: its future is gone *)
Done(outcome) == [Idle EXCEPT !.state = "done", !.result = outcome]

-----------------------------------------------------------------------------
(* Variant: the branches swapped *)
InterestOfSwapped(asked) == IF "R" \in asked THEN {"W"} ELSE {"R"}

(* Interest::try_from: the union of line 91 is computed and dropped *)
InterestOf(asked) == IF "R" \in asked THEN {"R"} ELSE {"W"}

Begins(hook, asked, timed, tasks) ==
    [Idle EXCEPT !.state = "pending", !.hook = hook, !.asked = asked,
                 !.timed = timed, !.tasks = tasks]

(* the events, the class or the descriptor is refused; or the spawn is, by *)
(* the borrow of futures_to_run, and the new stream is dropped             *)
IoWaitRaises(c) ==
    /\ ~Pending(c)
    /\ \E fd \in Fds, asked \in Asked :
         /\ held[fd]
         /\ IF "P" \in asked THEN UNCHANGED fdVars ELSE FromValueAndRawFd(fd, Leaked)
    /\ call' = [call EXCEPT ![c] = Done(Outcome("raised", {}))]
    /\ UNCHANGED <<aborted, gone>>

IoWait(c) ==
    /\ ~Pending(c)
    /\ \E fd \in Fds, asked \in Asked, timed \in BOOLEAN :
         LET io == <<fd, InterestOf(asked)>>
         IN /\ held[fd] /\ "P" \notin asked /\ Wraps(fd)
            /\ FromValueAndRawFd(fd, <<c, io>>)
            /\ call' = [call EXCEPT ![c] =
                          Begins("io_wait", asked, timed, [x \in {io} |-> Task("made", class[fd])])]
    /\ UNCHANGED <<aborted, gone>>

IoSelect(c) ==
    /\ ~Pending(c)
    /\ \E ios \in Selections[c], timed \in BOOLEAN :
         /\ \A io \in ios : held[io[1]]
         /\ call' = [call EXCEPT ![c] =
                       Begins("io_select", {}, timed, [x \in ios |-> Task("new", "none")])]
    /\ UNCHANGED <<fdVars, aborted, gone>>

(* the runtime's I/O driver reports an event to the registered owner *)
Notice(fd) ==
    /\ open[fd]
    /\ \E c \in Calls, io \in Ios :
         /\ epoll[fd] = <<c, io>> /\ Pending(c)
         /\ ready[fd] \cap io[2] # {}
         /\ call' = [call EXCEPT ![c].tasks[io].seen = TRUE]
    /\ UNCHANGED <<fdVars, aborted, gone>>

(* BackingIo::ready: a File is ready for whatever it is asked *)
IsReady(c, io) == call[c].tasks[io].kind = "file" \/ call[c].tasks[io].seen

(* the future ends or is dropped: the guard, then the stream *)
Ends(c, outcome) ==
    /\ DropGuards(GuardsOf(c))
    /\ DropRubyIo(Owners(c))
    /\ call' = [call EXCEPT ![c] = Done(outcome)]
    /\ aborted' = aborted \ {c}
    /\ gone' = gone \ Owners(c)
    /\ UNCHANGED <<held, class, ready, given, uses, recycled>>

(* the first poll, when the stream is not ready yet: the guard is taken and kept *)
PollWaitFirst(c) ==
    \E io \in DOMAIN call[c].tasks :
        /\ Pending(c) /\ call[c].tasks[io].at = "made"
        /\ ~IsReady(c, io)
        /\ WithNonblock(io[1], <<c, io>>)
        /\ Sets(c, io, Task("waiting", call[c].tasks[io].kind))
        /\ UNCHANGED <<open, held, class, epoll, ready, given, uses, recycled, aborted, gone>>

(* a poll that ends it. On the first poll the guard is taken and dropped,  *)
(* or fails; either way the answer is READABLE or an exception             *)
PollWaitEnds(c) ==
    \E io \in DOMAIN call[c].tasks :
        LET first == call[c].tasks[io].at = "made"
        IN /\ Pending(c) /\ call[c].hook = "io_wait"
           /\ IsReady(c, io) \/ (first /\ ~open[io[1]])
           /\ Ends(c, IF first /\ ~open[io[1]] THEN Outcome("raised", {})
                                               ELSE Outcome("ready", {<<io[1], {"R"}>>}))

(* the first task to finish is the one that join_next will return *)
Finishes(c, io, at) ==
    call' = [call EXCEPT ![c].tasks[io].at = at,
                         ![c].first = IF @ = {} THEN {io} ELSE @]

(* a task of io_select: its stream is made on the first poll; fileno       *)
(* raises on an IO that is closed by then                                  *)
PollTaskFirst(c, io) ==
    /\ Pending(c) /\ call[c].tasks[io].at = "new"
    /\ \/ /\ <<c, io>> \in gone
          /\ Finishes(c, io, "error")
          /\ UNCHANGED fdVars
       \/ /\ <<c, io>> \notin gone
          /\ FromValueAndRawFd(io[1], <<c, io>>)
          /\ IF ~Wraps(io[1]) THEN Finishes(c, io, "error")
             ELSE IF class[io[1]] = "file" THEN Finishes(c, io, "ready")
             ELSE Sets(c, io, Task("waiting", class[io[1]]))
    /\ UNCHANGED <<aborted, gone>>

PollTaskReady(c, io) ==
    /\ Pending(c) /\ call[c].hook = "io_select"
    /\ call[c].tasks[io].at = "waiting" /\ IsReady(c, io)
    /\ Finishes(c, io, "ready")
    /\ UNCHANGED <<fdVars, aborted, gone>>

PollTask(c) ==
    \E io \in DOMAIN call[c].tasks : PollTaskFirst(c, io) \/ PollTaskReady(c, io)

(* join_next: nothing to wait for, or the first task that finished; the    *)
(* others are aborted                                                      *)
PollSelect(c) ==
    /\ Pending(c) /\ call[c].hook = "io_select"
    /\ \/ /\ DOMAIN call[c].tasks = {}
          /\ Ends(c, Outcome("nil", {}))
       \/ \E io \in call[c].first :
            Ends(c, IF call[c].tasks[io].at = "error" THEN Outcome("raised", {})
                                                      ELSE Outcome("ready", {io}))

(* tokio's Timeout polls the future before the timer *)
InnerPending(c) ==
    IF call[c].hook = "io_wait"
      THEN \A io \in DOMAIN call[c].tasks : /\ call[c].tasks[io].at = "waiting"
                                            /\ ~call[c].tasks[io].seen
      ELSE DOMAIN call[c].tasks # {} /\ call[c].first = {}

(* Variant: io_select is not given its timeout *)
TimesOutWaitOnly(c) ==
    /\ Pending(c) /\ c \notin aborted /\ call[c].timed
    /\ call[c].hook = "io_wait"
    /\ InnerPending(c)
    /\ Ends(c, Outcome("nil", {}))

(* with_timeout_no_raise *)
TimesOut(c) ==
    /\ Pending(c) /\ c \notin aborted /\ call[c].timed
    /\ InnerPending(c)
    /\ Ends(c, Outcome("nil", {}))

(* run's interrupt arm aborts every future; their fibers stay suspended *)
AbortAll ==
    /\ aborted' = {c \in Calls : Pending(c)}
    /\ aborted' # aborted
    /\ UNCHANGED <<fdVars, call, gone>>

(* the runtime drops an aborted future when it runs again, if it does *)
DropAborted(c) ==
    /\ Pending(c) /\ c \in aborted
    /\ Ends(c, Outcome("aborted", {}))

-----------------------------------------------------------------------------
InUse(fd) == \E c \in Calls : Pending(c) /\ \E io \in DOMAIN call[c].tasks : io[1] = fd

(* the tasks that have yet to ask an IO with this number for its fileno *)
Unasked(fd) ==
    {o \in Owned : /\ o[2] \in DOMAIN call[o[1]].tasks /\ o[2][1] = fd
                   /\ call[o[1]].tasks[o[2]].at = "new"}

Program ==
    /\ \E fd \in Fds :
         \/ Close(fd) /\ gone' = gone \cup Unasked(fd)
         \/ (Open(fd, InUse(fd)) \/ PeerActs(fd)) /\ UNCHANGED gone
    /\ UNCHANGED <<call, aborted>>

Polls(c) ==
    /\ c \notin aborted
    /\ PollWaitFirst(c) \/ PollWaitEnds(c) \/ PollTask(c) \/ PollSelect(c)

Next ==
    \/ Program
    \/ AbortAll
    \/ \E fd \in Fds : Notice(fd)
    \/ \E c \in Calls : \/ IoWait(c) \/ IoWaitRaises(c) \/ IoSelect(c)
                       \/ Polls(c) \/ TimesOut(c) \/ DropAborted(c)

Spec == Init /\ [][Next]_vars

(* the runtime turns its driver, polls the tasks it has woken, and timers  *)
(* elapse; nothing says that it runs again after an interrupt              *)
FairSpec ==
    /\ Spec
    /\ \A fd \in Fds : WF_vars(Notice(fd))
    /\ \A c \in Calls : WF_vars(Polls(c)) /\ WF_vars(TimesOut(c))

-----------------------------------------------------------------------------
(* The state is well formed, and a guard belongs to a pending io_wait.     *)
TypeOK ==
    /\ {open, held, nonblock, given, recycled} \subseteq [Fds -> BOOLEAN]
    /\ class \in [Fds -> Classes]
    /\ \A fd \in Fds : epoll[fd] \in Owned \cup {NoOwner, Leaked}
    /\ ready \in [Fds -> SUBSET Events]
    /\ uses \in [Fds -> 0 .. 2]
    /\ \A g \in guards : /\ g.owner \in Owned /\ g.fd = g.owner[2][1]
                         /\ Pending(g.owner[1])
                         /\ call[g.owner[1]].tasks[g.owner[2]].at = "waiting"
    /\ \A c \in Calls : call[c].first \subseteq DOMAIN call[c].tasks
    /\ aborted \subseteq Calls /\ gone \subseteq Owned

(* Once no guard of a descriptor is live, its O_NONBLOCK bit is what the   *)
(* program gave it, through readiness, timeouts, errors and aborts         *)
(* (NonBlockGuard). Two guards of one socket cannot overlap, because the   *)
(* second registration is refused; and a File is ready within one poll.    *)
(* The exception is a number that was reused while a call on it was        *)
(* pending, whose guard then sets the flags of an unrelated file.          *)
FlagsRestored ==
    \A fd \in Fds :
        open[fd] /\ ~recycled[fd] /\ (\A g \in guards : g.fd # fd) => nonblock[fd] = given[fd]

(* A descriptor of which at most one stream was ever made is still open if *)
(* Ruby believes so: RubyIo's drop forgets the stream instead of closing   *)
(* it, however the call that made it ended.                                *)
OpenUnlessReused ==
    \A fd \in Fds : held[fd] /\ uses[fd] < 2 => open[fd]

(* A call with a timeout ends, unless it is aborted: its own timer ends it *)
(* even where its readiness is never reported, because the number was      *)
(* closed or reused under the stream (with_timeout_no_raise).              *)
TimedCallEnds ==
    \A c \in Calls : []<>~(Pending(c) /\ call[c].timed /\ c \notin aborted)

(* One of these events is there for a pending task of the call, on a       *)
(* descriptor that it still holds registered.                              *)
Reportable(c, io, events) ==
    /\ Pending(c) /\ c \notin aborted
    /\ open[io[1]] /\ epoll[io[1]] = <<c, io>>
    /\ ready[io[1]] \cap events # {}

(* the events that a call is answered for. The exception is io_wait for    *)
(* both events, of which only READABLE counts: on a socket that can be     *)
(* written and never read it does not return (io_wait.rs, line 91)         *)
AnsweredFor(c, io) ==
    IF call[c].hook = "io_select" THEN io[2]
    ELSE IF "R" \in call[c].asked THEN {"R"} ELSE call[c].asked

(* io_wait and io_select return once an event they are answered for is     *)
(* there and stays, whatever else is pending on the descriptor.            *)
ReadyAnswered ==
    \A c \in Calls :
        []<>~(\E io \in DOMAIN call[c].tasks : Reportable(c, io, AnsweredFor(c, io)))

-----------------------------------------------------------------------------
(* What the repository says of these hooks and the code does not do.       *)

(* ruby_io.rs says of the drop of RubyIo: "Ensure that the underlying file *)
(* descriptor is not closed". So a descriptor that Ruby holds is open.     *)
FdStaysOpen == \A fd \in Fds : held[fd] => open[fd]
=============================================================================
