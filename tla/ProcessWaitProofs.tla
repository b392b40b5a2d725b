-------------------------- MODULE ProcessWaitProofs --------------------------
(***************************************************************************)
(* What ProcessWait promises, for any number of waiters and children: no   *)
(* exit of a child is lost between poll_recv and waitpid, and ECHILD means *)
(* that another waiter has taken the child.                                *)
(***************************************************************************)
EXTENDS ProcessWait, TLAPS

(* The wake-up of a suspended waiter is on its way: its stream holds the   *)
(* waker of its task, or has used it. While it is polled and has been told *)
(* that there was no signal, the stream holds the waker.                   *)
Subscribed ==
    /\ \A w \in Waiters :
         phase[w] = "pending" /\ poller # w => w \in interest \cup woken
    /\ poller # NoWaiter /\ pc = "try" /\ registered => poller \in interest

(* Who reaped which child: a reaped child has one reaper, which was        *)
(* answered with its status, and a future has a status only when it is over *)
Reaped ==
    /\ \A c \in Children :
         /\ child[c] = "reaped" => reaper[c] # NoWaiter
         /\ reaper[c] # NoWaiter => status[reaper[c]] = "exited"
    /\ \A w \in Waiters : status[w] # "none" => phase[w] = "ready"

IInv == TypeOK /\ Subscribed /\ NoLostSignal /\ Reaped /\ EchildMeansTaken

-----------------------------------------------------------------------------
(* try_wait asks for children only. *)
LEMMA TargetsAreChildren ==
    ASSUME NEW p \in MinPid .. MaxPid
    PROVE  Targets(p) \subseteq Children
BY PidAssumption DEF Targets

(* A child's own pid stands for that child alone: it is neither 0 nor -1.  *)
LEMMA TargetsOfChild ==
    ASSUME NEW p \in Children
    PROVE  Targets(p) = {p}
BY PidAssumption DEF Targets

(* The initial state satisfies the invariant. *)
LEMMA InitIInv == Init => IInv
<1> SUFFICES ASSUME Init PROVE IInv
  OBVIOUS
<1>0. 0 \in MinPid .. MaxPid
  BY PidAssumption DEF MinPid
<1>1. TypeOK
  BY <1>0 DEF Init, TypeOK, Statuses
<1>2. Subscribed /\ NoLostSignal
  BY DEF Init, Subscribed, NoLostSignal
<1>3. Reaped /\ EchildMeansTaken
  BY DEF Init, Reaped, EchildMeansTaken
<1> QED
  BY <1>1, <1>2, <1>3 DEF IInv

(* Every step keeps the types. *)
LEMMA TypeStep == TypeOK /\ [Next]_vars => TypeOK'
<1> SUFFICES ASSUME TypeOK, [Next]_vars PROVE TypeOK'
  OBVIOUS
<1> USE DEF TypeOK, procVars, callVars, signalVars, pollVars, Statuses
<1>1. ASSUME NEW c \in Children, ChildExits(c) PROVE TypeOK'
  BY <1>1 DEF ChildExits
<1>2. CASE DeliverSignal
  BY <1>2 DEF DeliverSignal
<1>3. ASSUME NEW w \in Waiters, ProcessWait(w) PROVE TypeOK'
  BY <1>3, PidAssumption DEF ProcessWait
<1>4. ASSUME NEW w \in Waiters, PidWaiterNew(w) PROVE TypeOK'
  BY <1>4, PidAssumption DEF PidWaiterNew, Completes
<1>5. ASSUME NEW w \in Waiters, PollBegins(w) PROVE TypeOK'
  BY <1>5 DEF PollBegins
<1>6. CASE PollRecv
  BY <1>6 DEF PollRecv
<1>7. CASE TryWaitReady
  <2>1. poller \in Waiters /\ pid[poller] \in MinPid .. MaxPid
    BY <1>7 DEF TryWaitReady
  <2>2. Targets(pid[poller]) \subseteq Children
    BY <2>1, TargetsAreChildren
  <2> QED
    BY <1>7, <2>1, <2>2 DEF TryWaitReady, Completes, Zombies
<1>8. CASE TryWaitPending
  BY <1>8 DEF TryWaitPending
<1>9. CASE UNCHANGED vars
  BY <1>9 DEF vars
<1>10. CASE WaitpidInterrupted
  BY <1>10 DEF WaitpidInterrupted, BlockedInWaitpid, Completes
<1> QED
  BY <1>1, <1>2, <1>3, <1>4, <1>5, <1>6, <1>7, <1>8, <1>9, <1>10 DEF Next, PollStep, AllDone

(* A suspended waiter stays subscribed: PidWaiter::poll returns Pending    *)
(* only after poll_recv did, which left the waker with the stream.         *)
LEMMA SubscribedStep == TypeOK /\ Subscribed /\ [Next]_vars => Subscribed'
<1> SUFFICES ASSUME TypeOK, Subscribed, [Next]_vars PROVE Subscribed'
  OBVIOUS
<1> USE DEF TypeOK, Subscribed, procVars, callVars, signalVars, pollVars
<1>1. ASSUME NEW c \in Children, ChildExits(c) PROVE Subscribed'
  BY <1>1 DEF ChildExits
<1>2. CASE DeliverSignal
  BY <1>2 DEF DeliverSignal
<1>3. ASSUME NEW w \in Waiters, ProcessWait(w) PROVE Subscribed'
  BY <1>3 DEF ProcessWait
<1>4. ASSUME NEW w \in Waiters, PidWaiterNew(w) PROVE Subscribed'
  BY <1>4, PidAssumption DEF PidWaiterNew, Completes
<1>5. ASSUME NEW w \in Waiters, PollBegins(w) PROVE Subscribed'
  BY <1>5, PidAssumption DEF PollBegins
<1>6. CASE PollRecv
  BY <1>6 DEF PollRecv
<1>7. CASE TryWaitReady
  BY <1>7 DEF TryWaitReady, Completes
<1>8. CASE TryWaitPending
  BY <1>8 DEF TryWaitPending
<1>9. CASE UNCHANGED vars
  BY <1>9 DEF vars
<1>10. CASE WaitpidInterrupted
  BY <1>10 DEF WaitpidInterrupted, BlockedInWaitpid, Completes
<1> QED
  BY <1>1, <1>2, <1>3, <1>4, <1>5, <1>6, <1>7, <1>8, <1>9, <1>10 DEF Next, PollStep, AllDone

(* Another waiter's waitpid gives a waiter nothing to collect that it did  *)
(* not have: the child that is reaped was a zombie already.                *)
LEMMA ReapGivesNothing ==
    ASSUME TypeOK, TryWaitReady, NEW w \in Waiters, HasStatus(w)'
    PROVE  HasStatus(w)
<1> USE DEF TypeOK
<1>1. pid' = pid /\ flags' = flags /\ pid[w] \in MinPid .. MaxPid /\ pid[poller] \in MinPid .. MaxPid
  BY DEF TryWaitReady, callVars
<1>2. Targets(pid[w])' = Targets(pid[w]) /\ ValidCall(w)
  BY <1>1 DEF Targets, HasStatus, ValidCall, ValidPid
<1>3. Targets(pid[w]) \subseteq Children /\ Targets(pid[poller]) \subseteq Children
  BY <1>1, TargetsAreChildren
<1>4. \A c \in Children : child'[c] # child[c] => child[c] = "zombie" /\ child'[c] = "reaped"
  BY <1>3 DEF TryWaitReady, Zombies, procVars
<1>5. CASE Zombies(Targets(pid[w]))' # {}
  BY <1>2, <1>3, <1>4, <1>5 DEF HasStatus, Zombies
<1>6. CASE Matching(Targets(pid[w]))' = {}
  <2>1. ASSUME Zombies(Targets(pid[w])) = {} PROVE Matching(Targets(pid[w])) = {}
    BY <1>2, <1>3, <1>4, <1>6, <2>1 DEF Matching, Zombies
  <2> QED
    BY <1>2, <2>1 DEF HasStatus
<1> QED
  BY <1>5, <1>6 DEF HasStatus

(* What HasStatus depends on. *)
LEMMA HasStatusFrame ==
    ASSUME NEW w \in Waiters, pid'[w] = pid[w], flags'[w] = flags[w], child' = child
    PROVE  HasStatus(w)' = HasStatus(w)
BY DEF HasStatus, ValidCall, ValidPid, WrappingNeg, Targets, Zombies, Matching

(* No step loses a signal. *)
LEMMA NoLostSignalStep == TypeOK /\ Subscribed /\ NoLostSignal /\ [Next]_vars => NoLostSignal'
<1> SUFFICES ASSUME TypeOK, Subscribed, NoLostSignal, [Next]_vars,
                    NEW w \in Waiters, (phase[w] = "pending" /\ HasStatus(w) /\ poller # w)'
             PROVE  (w \in woken \/ (sigchld /\ w \in interest))'
  BY DEF NoLostSignal
<1> USE DEF TypeOK, procVars, callVars, signalVars, pollVars
<1>0. ASSUME phase[w] = "pending", poller # w, HasStatus(w)
      PROVE  w \in woken \/ (sigchld /\ w \in interest)
  BY <1>0 DEF NoLostSignal
<1>1. ASSUME NEW c \in Children, ChildExits(c)
      PROVE  (w \in woken \/ (sigchld /\ w \in interest))'
  BY <1>1 DEF ChildExits, Subscribed
<1>2. CASE DeliverSignal
  BY <1>2 DEF DeliverSignal, Subscribed
<1>3. ASSUME NEW v \in Waiters, ProcessWait(v)
      PROVE  (w \in woken \/ (sigchld /\ w \in interest))'
  BY <1>0, <1>3, HasStatusFrame DEF ProcessWait
<1>4. ASSUME NEW v \in Waiters, PidWaiterNew(v)
      PROVE  (w \in woken \/ (sigchld /\ w \in interest))'
  BY <1>0, <1>4, HasStatusFrame, PidAssumption DEF PidWaiterNew, Completes
<1>5. ASSUME NEW v \in Waiters, PollBegins(v)
      PROVE  (w \in woken \/ (sigchld /\ w \in interest))'
  BY <1>0, <1>5, HasStatusFrame, PidAssumption DEF PollBegins
<1>6. CASE PollRecv
  BY <1>0, <1>6, HasStatusFrame DEF PollRecv
<1>7. CASE TryWaitReady
  BY <1>0, <1>7, ReapGivesNothing DEF TryWaitReady, Completes
<1>8. CASE TryWaitPending
  <2>1. HasStatus(w)
    BY <1>8, HasStatusFrame DEF TryWaitPending
  <2>2. poller # w
    BY <1>8, <2>1 DEF TryWaitPending, NothingYet, HasStatus
  <2> QED
    BY <1>0, <1>8, <2>1, <2>2 DEF TryWaitPending
<1>9. CASE UNCHANGED vars
  BY <1>0, <1>9, HasStatusFrame DEF vars
<1>10. CASE WaitpidInterrupted
  BY <1>0, <1>10, HasStatusFrame DEF WaitpidInterrupted, BlockedInWaitpid, Completes
<1> QED
  BY <1>1, <1>2, <1>3, <1>4, <1>5, <1>6, <1>7, <1>8, <1>9, <1>10 DEF Next, PollStep, AllDone

(* Reaped children keep their one reaper, and ECHILD is told only of them. *)
LEMMA ReapedStep ==
    TypeOK /\ Reaped /\ EchildMeansTaken /\ [Next]_vars => Reaped' /\ EchildMeansTaken'
<1> SUFFICES ASSUME TypeOK, Reaped, EchildMeansTaken, [Next]_vars
             PROVE  Reaped' /\ EchildMeansTaken'
  OBVIOUS
<1> USE DEF TypeOK, Reaped, EchildMeansTaken, procVars, callVars, Statuses
<1>1. ASSUME NEW c \in Children, ChildExits(c) PROVE Reaped' /\ EchildMeansTaken'
  BY <1>1 DEF ChildExits
<1>2. CASE DeliverSignal
  BY <1>2 DEF DeliverSignal
<1>3. ASSUME NEW w \in Waiters, ProcessWait(w) PROVE Reaped' /\ EchildMeansTaken'
  BY <1>3 DEF ProcessWait
<1>4. ASSUME NEW w \in Waiters, PidWaiterNew(w) PROVE Reaped' /\ EchildMeansTaken'
  BY <1>4 DEF PidWaiterNew, Completes
<1>5. ASSUME NEW w \in Waiters, PollBegins(w) PROVE Reaped' /\ EchildMeansTaken'
  BY <1>5 DEF PollBegins
<1>6. CASE PollRecv
  BY <1>6 DEF PollRecv
<1>7. CASE TryWaitReady
  <2>1. /\ poller \in Waiters /\ phase[poller] = "pending" /\ status[poller] = "none"
        /\ pid[poller] \in MinPid .. MaxPid
    BY <1>7 DEF TryWaitReady
  <2>2. Targets(pid[poller]) \subseteq Children
    BY <2>1, TargetsAreChildren
  <2>3. ASSUME NEW c \in Zombies(Targets(pid[poller])),
               child' = [child EXCEPT ![c] = "reaped"],
               reaper' = [reaper EXCEPT ![c] = poller],
               Completes(poller, "exited")
        PROVE  Reaped' /\ EchildMeansTaken'
    <3>1. c \in Children /\ child[c] = "zombie" /\ pid' = pid
      BY <1>7, <2>2, <2>3 DEF Zombies, TryWaitReady
    <3>2. Reaped'
      BY <2>1, <2>3, <3>1, PidAssumption DEF Completes
    <3>3. EchildMeansTaken'
      BY <2>1, <2>3, <3>1 DEF Completes
    <3> QED
      BY <3>2, <3>3
  <2>4. ASSUME Matching(Targets(pid[poller])) = {}, Completes(poller, "echild"), UNCHANGED procVars
        PROVE  Reaped' /\ EchildMeansTaken'
    <3>1. pid' = pid
      BY <1>7 DEF TryWaitReady
    <3>2. ASSUME pid[poller] \in Children PROVE child[pid[poller]] = "reaped"
      BY <2>4, <3>2, TargetsOfChild DEF Matching
    <3>3. Reaped'
      BY <2>1, <2>4, <3>1 DEF Completes
    <3>4. EchildMeansTaken'
      BY <2>1, <2>4, <3>1, <3>2 DEF Completes
    <3> QED
      BY <3>3, <3>4
  <2> QED
    BY <1>7, <2>3, <2>4 DEF TryWaitReady
<1>8. CASE TryWaitPending
  BY <1>8 DEF TryWaitPending
<1>9. CASE UNCHANGED vars
  BY <1>9 DEF vars
<1>10. CASE WaitpidInterrupted
  BY <1>10 DEF WaitpidInterrupted, BlockedInWaitpid, Completes
<1> QED
  BY <1>1, <1>2, <1>3, <1>4, <1>5, <1>6, <1>7, <1>8, <1>9, <1>10 DEF Next, PollStep, AllDone

-----------------------------------------------------------------------------
(* The inductive invariant of process_wait. *)
THEOREM ProcessWaitInvariance == Spec => []IInv
<1>1. Init => IInv
  BY InitIInv
<1>2. IInv /\ [Next]_vars => IInv'
  BY TypeStep, SubscribedStep, NoLostSignalStep, ReapedStep DEF IInv
<1> QED
  BY <1>1, <1>2, PTL DEF Spec

(* The variables keep their types and only an unfinished future is polled. *)
THEOREM ProcessWaitTypes == Spec => []TypeOK
<1>1. IInv => TypeOK
  BY DEF IInv
<1> QED
  BY <1>1, ProcessWaitInvariance, PTL

(* The race between poll_recv and waitpid loses no exit of a child: a      *)
(* suspended waiter with a status to collect is woken, or will be by the   *)
(* SIGCHLD that is pending (PidWaiter::poll).                              *)
THEOREM NoLostSignalTheorem == Spec => []NoLostSignal
<1>1. IInv => NoLostSignal
  BY DEF IInv
<1> QED
  BY <1>1, ProcessWaitInvariance, PTL

(* A waiter for one child is told ECHILD only when another waiter's        *)
(* waitpid has reaped that child (try_wait).                               *)
THEOREM EchildTheorem == Spec => []EchildMeansTaken
<1>1. IInv => EchildMeansTaken
  BY DEF IInv
<1> QED
  BY <1>1, ProcessWaitInvariance, PTL
=============================================================================
