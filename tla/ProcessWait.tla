----------------------------- MODULE ProcessWait -----------------------------
(***************************************************************************)
(* process_wait (process_wait.rs): the futures by which fibers of one      *)
(* thread wait for child processes, and the SIGCHLD streams that wake them.*)
(* Children exit at any time, between any two steps of a poll; signals are *)
(* handed to the streams only when the runtime is not inside a poll.       *)
(***************************************************************************)
EXTENDS Integers, FiniteSets

CONSTANTS
    Waiters,    \* one call of process_wait each
    Children,   \* the process ids of the children
    Own,        \* the children in the caller's process group
    MaxPid,     \* RawPid::MAX (2^31 - 1 in the code)
    RawPids,    \* the pid arguments used
    Flags,      \* the flags arguments used: "none", "nohang", "unknown"
    NoWaiter

(* RawPid::MIN: two's complement *)
MinPid == -MaxPid - 1

ASSUME PidAssumption ==
    /\ MaxPid \in Nat
    /\ RawPids \subseteq MinPid .. MaxPid
    /\ Children \subseteq 1 .. MaxPid - 1
    /\ Own \subseteq Children
    /\ Flags \subseteq {"none", "nohang", "unknown"}
    /\ NoWaiter \notin Waiters

VARIABLES
    child,      \* each child process
    phase,      \* each future: "idle", "spawned", "pending", "ready"
    pid,        \* PidWaiter.pid
    flags,      \* PidWaiter.flags
    status,     \* what the future returned
    reaper,     \* history: whose waitpid reaped each child
    sigchld,    \* a SIGCHLD the runtime's signal driver has not seen
    signalled,  \* the streams that hold an undelivered signal
    interest,   \* the streams whose task asked to be woken
    woken,      \* the tasks their stream has woken
    poller,     \* the future being polled
    pc,         \* "recv" or "try": where its loop stands
    registered  \* registered_interest

procVars == <<child, reaper>>
callVars == <<pid, flags>>
signalVars == <<sigchld, signalled, interest, woken>>
pollVars == <<poller, pc, registered>>
vars == <<child, phase, pid, flags, status, reaper,
          sigchld, signalled, interest, woken, poller, pc, registered>>

Statuses == {"none", "exited", "echild", "eintr", "exception"}

Init ==
    /\ child = [c \in Children |-> "running"]
    /\ phase = [w \in Waiters |-> "idle"]
    /\ pid = [w \in Waiters |-> 0]
    /\ flags = [w \in Waiters |-> "none"]
    /\ status = [w \in Waiters |-> "none"]
    /\ reaper = [c \in Children |-> NoWaiter]
    /\ sigchld = FALSE
    /\ signalled = {}
    /\ interest = {}
    /\ woken = {}
    /\ poller = NoWaiter
    /\ pc = "recv"
    /\ registered = FALSE

-----------------------------------------------------------------------------
(* The operating system and the signal driver (external).                  *)

ChildExits(c) ==
    /\ child[c] = "running"
    /\ child' = [child EXCEPT ![c] = "zombie"]
    /\ sigchld' = TRUE
    /\ UNCHANGED <<phase, callVars, status, reaper, signalled, interest, woken,
                   pollVars>>

(* every stream gets the signal, and the tasks that asked are woken *)
DeliverSignal ==
    /\ sigchld
    /\ poller = NoWaiter
    /\ sigchld' = FALSE
    /\ signalled' = {w \in Waiters : phase[w] = "pending"}
    /\ woken' = woken \cup interest
    /\ interest' = {}
    /\ UNCHANGED <<procVars, phase, callVars, status, pollVars>>

(* the children waitpid(2) would wait for, and those it can reap at once *)
Matching(targets) == {c \in targets : child[c] # "reaped"}
Zombies(targets) == {c \in targets : child[c] = "zombie"}

-----------------------------------------------------------------------------
WrappingNeg(p) == IF p = MinPid THEN p ELSE -p

ValidPid(p) == p = 0 \/ p = -1 \/ WrappingNeg(p) < p \/ p > 0

(* the children try_wait asks for: RawPid::MAX stands for "any" *)
Targets(p) ==
    IF p = 0 THEN Own
    ELSE IF p = -1 THEN Children \cap {MaxPid}
    ELSE Children \cap {p}

ValidCall(w) == flags[w] # "unknown" /\ ValidPid(pid[w])

ProcessWait(w) ==
    /\ phase[w] = "idle"
    /\ \E p \in RawPids, fl \in Flags :
         /\ pid' = [pid EXCEPT ![w] = p]
         /\ flags' = [flags EXCEPT ![w] = fl]
    /\ phase' = [phase EXCEPT ![w] = "spawned"]
    /\ UNCHANGED <<procVars, status, signalVars, pollVars>>

Completes(w, s) ==
    /\ phase' = [phase EXCEPT ![w] = "ready"]
    /\ status' = [status EXCEPT ![w] = s]

(* the first poll: PidWaiter::new subscribes to SIGCHLD, or fails *)
PidWaiterNew(w) ==
    /\ poller = NoWaiter
    /\ phase[w] = "spawned"
    /\ \/ /\ phase' = [phase EXCEPT ![w] = "pending"]
          /\ poller' = w
          /\ pc' = "recv"
          /\ UNCHANGED <<status, registered>>
       \/ /\ Completes(w, "exception")
          /\ UNCHANGED pollVars
    /\ UNCHANGED <<procVars, callVars, signalVars>>

(* a later poll: FiberFuture wakes its own task, so one always comes *)
PollBegins(w) ==
    /\ poller = NoWaiter
    /\ phase[w] = "pending"
    /\ poller' = w
    /\ pc' = "recv"
    /\ woken' = woken \ {w}
    /\ UNCHANGED <<procVars, phase, callVars, status, sigchld, signalled, interest,
                   registered>>

(* signal.poll_recv: takes the signal, or asks to be woken *)
PollRecv ==
    /\ poller # NoWaiter
    /\ pc = "recv"
    /\ pc' = "try"
    /\ registered' = (poller \notin signalled)
    /\ signalled' = signalled \ {poller}
    /\ interest' = IF poller \in signalled THEN interest ELSE interest \cup {poller}
    /\ UNCHANGED <<procVars, phase, callVars, status, sigchld, woken, poller>>

(* Variant: waitpid's None is taken for an error *)
TryWaitReadyNoneIsError ==
    /\ poller # NoWaiter
    /\ pc = "try"
    /\ ValidCall(poller)
    /\ LET targets == Targets(pid[poller]) IN
         \/ \E c \in Zombies(targets) :
              /\ child' = [child EXCEPT ![c] = "reaped"]
              /\ reaper' = [reaper EXCEPT ![c] = poller]
              /\ Completes(poller, "exited")
         \/ /\ Zombies(targets) = {}
            /\ Completes(poller, "echild")
            /\ UNCHANGED procVars
    /\ poller' = NoWaiter
    /\ interest' = interest \ {poller}
    /\ UNCHANGED <<callVars, sigchld, signalled, woken, pc, registered>>

(* Variant: the loop goes on after a status *)
TryWaitReadyContinues ==
    /\ poller # NoWaiter
    /\ pc = "try"
    /\ ValidCall(poller)
    /\ \E c \in Zombies(Targets(pid[poller])) :
         /\ child' = [child EXCEPT ![c] = "reaped"]
         /\ reaper' = [reaper EXCEPT ![c] = poller]
    /\ Completes(poller, "exited")
    /\ pc' = "recv"
    /\ UNCHANGED <<callVars, signalVars, poller, registered>>

(* waitpid reaps a child, or fails because there is none to wait for *)
TryWaitReady ==
    /\ poller # NoWaiter
    /\ pc = "try"
    /\ ValidCall(poller)
    /\ LET targets == Targets(pid[poller]) IN
         \/ \E c \in Zombies(targets) :
              /\ child' = [child EXCEPT ![c] = "reaped"]
              /\ reaper' = [reaper EXCEPT ![c] = poller]
              /\ Completes(poller, "exited")
         \/ /\ Matching(targets) = {}
            /\ Completes(poller, "echild")
            /\ UNCHANGED procVars
    /\ poller' = NoWaiter
    /\ interest' = interest \ {poller}
    /\ UNCHANGED <<callVars, sigchld, signalled, woken, pc, registered>>

(* waitpid finds the children still running, or try_wait fails before it   *)
(* and the error is only logged. Without WNOHANG waitpid does not return   *)
(* at all: there is no step until a child exits.                           *)
NothingYet ==
    \/ ~ValidCall(poller)
    \/ /\ flags[poller] = "nohang"
       /\ Matching(Targets(pid[poller])) # {}
       /\ Zombies(Targets(pid[poller])) = {}

(* Variant: Pending is returned whether or not interest was registered *)
TryWaitPendingOnce ==
    /\ poller # NoWaiter
    /\ pc = "try"
    /\ NothingYet
    /\ pc' = "recv"
    /\ poller' = NoWaiter
    /\ UNCHANGED <<procVars, phase, callVars, status, signalVars, registered>>

(* Variant: the loop never returns Pending *)
TryWaitPendingSpins ==
    /\ poller # NoWaiter
    /\ pc = "try"
    /\ NothingYet
    /\ pc' = "recv"
    /\ UNCHANGED <<procVars, phase, callVars, status, signalVars, poller, registered>>

(* go round the loop, or return Pending if interest was registered *)
TryWaitPending ==
    /\ poller # NoWaiter
    /\ pc = "try"
    /\ NothingYet
    /\ pc' = "recv"
    /\ poller' = IF registered THEN NoWaiter ELSE poller
    /\ UNCHANGED <<procVars, phase, callVars, status, signalVars, registered>>

(* try_wait would return a status now *)
HasStatus(w) ==
    /\ ValidCall(w)
    /\ \/ Zombies(Targets(pid[w])) # {}
       \/ Matching(Targets(pid[w])) = {}

(* The poll is inside a waitpid that blocks: called without WNOHANG, for   *)
(* children that are still running.                                        *)
BlockedInWaitpid ==
    /\ poller # NoWaiter /\ pc = "try"
    /\ ValidCall(poller) /\ flags[poller] = "none" /\ ~HasStatus(poller)

(* EINTR: a signal handler returns into the waitpid that blocks *)
WaitpidInterrupted ==
    /\ BlockedInWaitpid
    /\ Completes(poller, "eintr")
    /\ poller' = NoWaiter
    /\ interest' = interest \ {poller}
    /\ UNCHANGED <<procVars, callVars, sigchld, signalled, woken, pc, registered>>

AllDone ==
    /\ \A w \in Waiters : phase[w] = "ready"
    /\ \A c \in Children : child[c] # "running"
    /\ UNCHANGED vars

PollStep == PollRecv \/ TryWaitReady \/ TryWaitPending

Next ==
    \/ \E c \in Children : ChildExits(c)
    \/ DeliverSignal
    \/ \E w \in Waiters : ProcessWait(w) \/ PidWaiterNew(w) \/ PollBegins(w)
    \/ PollStep
    \/ WaitpidInterrupted
    \/ AllDone

Spec == Init /\ [][Next]_vars

(* The runtime goes on polling every task, and polls are carried out. No   *)
(* child need ever exit, and no signal need arrive: FiberFuture wakes its  *)
(* own task.                                                               *)
FairSpec ==
    /\ Spec
    /\ WF_vars(PollStep)
    /\ \A w \in Waiters : SF_vars(PidWaiterNew(w) \/ PollBegins(w))

-----------------------------------------------------------------------------
(* Every variable keeps its type, and only a future that is not finished  *)
(* is polled.                                                              *)
TypeOK ==
    /\ child \in [Children -> {"running", "zombie", "reaped"}]
    /\ phase \in [Waiters -> {"idle", "spawned", "pending", "ready"}]
    /\ pid \in [Waiters -> MinPid .. MaxPid]
    /\ flags \in [Waiters -> {"none", "nohang", "unknown"}]
    /\ status \in [Waiters -> Statuses]
    /\ reaper \in [Children -> Waiters \cup {NoWaiter}]
    /\ sigchld \in BOOLEAN
    /\ signalled \subseteq Waiters /\ interest \subseteq Waiters /\ woken \subseteq Waiters
    /\ poller \in {w \in Waiters : phase[w] = "pending"} \cup {NoWaiter}
    /\ pc \in {"recv", "try"}
    /\ registered \in BOOLEAN

(* A suspended waiter with something to collect has been woken by its      *)
(* signal stream, or will be: the race between poll_recv and waitpid loses *)
(* no exit, even without the wake-up FiberFuture adds (PidWaiter::poll).   *)
NoLostSignal ==
    \A w \in Waiters :
        phase[w] = "pending" /\ HasStatus(w) /\ poller # w =>
            w \in woken \/ (sigchld /\ w \in interest)

(* A waiter for one child that is told ECHILD was overtaken: another       *)
(* waiter's waitpid has reaped that child, once (try_wait).                *)
EchildMeansTaken ==
    \A w \in Waiters :
        status[w] = "echild" /\ pid[w] \in Children =>
            child[pid[w]] = "reaped" /\ reaper[pid[w]] \notin {w, NoWaiter}

(* A waiter with something to collect is answered, whatever the signals    *)
(* do. Others may take it away from a wait for the process group only: a   *)
(* wait for one child then gets ECHILD. The exception is a call without    *)
(* WNOHANG that blocks the event loop for ever (PidWaiter::poll).          *)
WaitServed ==
    \A w \in Waiters :
        (phase[w] \in {"spawned", "pending"} /\ HasStatus(w))
            ~> \/ phase[w] = "ready"
               \/ pid[w] = 0 /\ ~HasStatus(w)
               \/ []BlockedInWaitpid

-----------------------------------------------------------------------------
(* What the repository says of process_wait and the code does not do.      *)

(* "-1 | Waits for any child process" (process_wait.rs): such a wait fails *)
(* with ECHILD only when there is no child left.                           *)
AnyChildWaited ==
    \A w \in Waiters :
        status[w] = "echild" /\ pid[w] = -1 => \A c \in Children : child[c] = "reaped"
=============================================================================
