---------------------------- MODULE IoWaitProofs ----------------------------
(***************************************************************************)
(* What io_wait and io_select do to the descriptors they borrow, for any   *)
(* number of descriptors and of calls in flight: a NonBlockGuard leaves    *)
(* the flags as it found them, and a stream that is forgotten leaves the   *)
(* file open.                                                              *)
(***************************************************************************)
EXTENDS IoWait, TLAPS

TaskRecs == [at : {"new", "made", "waiting", "ready", "error"},
             kind : Classes \cup {"none"}, seen : BOOLEAN]

TaskSets == UNION {[S -> TaskRecs] : S \in SUBSET Ios}

Outcomes == [kind : {"none", "nil", "ready", "raised", "aborted"}, ios : SUBSET Ios]

CallRecs == [state : {"idle", "pending", "done"}, hook : {"none", "io_wait", "io_select"},
             asked : SUBSET (Events \cup {"P"}), timed : BOOLEAN, tasks : TaskSets,
             first : SUBSET Ios, result : Outcomes]

GuardRecs == [owner : Owned, fd : Fds, old_flags : BOOLEAN]

Typed ==
    /\ open \in [Fds -> BOOLEAN] /\ held \in [Fds -> BOOLEAN]
    /\ nonblock \in [Fds -> BOOLEAN] /\ given \in [Fds -> BOOLEAN]
    /\ recycled \in [Fds -> BOOLEAN]
    /\ class \in [Fds -> Classes]
    /\ epoll \in [Fds -> Owned \cup {NoOwner, Leaked}]
    /\ ready \in [Fds -> SUBSET Events]
    /\ uses \in [Fds -> 0 .. 2]
    /\ guards \subseteq GuardRecs
    /\ call \in [Calls -> CallRecs]

(* How far the tasks of a call can be. A task that is made before its      *)
(* first poll is one of io_wait, and a finished one has made itself known. *)
Stage(r) ==
    /\ r.first \subseteq DOMAIN r.tasks
    /\ \A io \in DOMAIN r.tasks :
         /\ r.tasks[io].at = "made" => r.hook = "io_wait"
         /\ r.tasks[io].at \in {"new", "ready", "error"} => r.hook = "io_select"
         /\ r.tasks[io].at \in {"ready", "error"} => r.first # {}

Stages == \A c \in Calls : Stage(call[c])

(* a task with a stream that is not known to be ready, made of a socket *)
Waits(c, io) ==
    /\ Pending(c) /\ io \in DOMAIN call[c].tasks
    /\ call[c].tasks[io].at \in {"made", "waiting"} /\ call[c].tasks[io].kind # "file"

(* such a task of io_wait that has taken its guard *)
Holds(c, io) ==
    /\ Waits(c, io)
    /\ call[c].hook = "io_wait" /\ call[c].tasks[io].at = "waiting"

(* A guard belongs to a task of io_wait that waits on a socket, and to no  *)
(* other guard's task.                                                     *)
Guarded ==
    /\ \A g \in guards : g.fd = g.owner[2][1] /\ Holds(g.owner[1], g.owner[2])
    /\ \A g, h \in guards : g.owner = h.owner => g = h

(* A task that waits on a socket is the one whose registration the epoll   *)
(* set holds, until the number is closed or reused.                        *)
Registered ==
    \A c \in Calls, io \in Ios :
        Waits(c, io) /\ open[io[1]] /\ ~recycled[io[1]] => epoll[io[1]] = <<c, io>>

(* The guard of a descriptor remembers what the program gave it. *)
Remembered ==
    \A g \in guards : open[g.fd] /\ ~recycled[g.fd] => g.old_flags = given[g.fd]

(* Only an open number of which a stream was made is in the epoll set. *)
EpollOpen ==
    \A fd \in Fds : ~open[fd] \/ uses[fd] = 0 => epoll[fd] = NoOwner

FdInv == /\ Guarded /\ Registered /\ Remembered /\ FlagsRestored
         /\ EpollOpen /\ OpenUnlessReused

IInv == Typed /\ Stages /\ FdInv

-----------------------------------------------------------------------------
(* An owner is a call and one of its IOs, and neither of the two values    *)
(* that stand for no owner.                                                *)
LEMMA OwnedFacts ==
    /\ \A c \in Calls, io \in Ios : <<c, io>> \in Owned
    /\ \A o \in Owned : /\ o[1] \in Calls /\ o[2] \in Ios /\ o = <<o[1], o[2]>>
                        /\ o[2][1] \in Fds
                        /\ o # NoOwner /\ o # Leaked
    /\ NoOwner # Leaked
BY DEF Owned, Ios, NoOwner, Leaked

(* The tasks of a call are a function on some of the IOs. *)
LEMMA TasksType ==
    ASSUME Typed, NEW c \in Calls
    PROVE  /\ DOMAIN call[c].tasks \subseteq Ios
           /\ call[c].tasks \in [DOMAIN call[c].tasks -> TaskRecs]
           /\ \A io \in DOMAIN call[c].tasks : io[1] \in Fds
<1>0. call[c] \in CallRecs
  BY DEF Typed
<1>1. call[c].tasks \in TaskSets
  BY <1>0 DEF CallRecs
<1>2. PICK S \in SUBSET Ios : call[c].tasks \in [S -> TaskRecs]
  BY <1>1 DEF TaskSets
<1> QED
  BY <1>2 DEF Ios

(* one task of a call changes, and which finished first may *)
OneTask(c, io, t, first) ==
    /\ call' \in [Calls -> CallRecs]
    /\ \A d \in Calls : d # c => call'[d] = call[d]
    /\ call'[c].state = call[c].state /\ call'[c].hook = call[c].hook
    /\ call'[c].result = call[c].result /\ call'[c].first = first
    /\ DOMAIN call'[c].tasks = DOMAIN call[c].tasks
    /\ call'[c].tasks[io] = t
    /\ \A x \in DOMAIN call[c].tasks : x # io => call'[c].tasks[x] = call[c].tasks[x]

(* Such a change keeps the call well formed. *)
LEMMA OneTaskStep ==
    ASSUME Typed, NEW c \in Calls, NEW io \in DOMAIN call[c].tasks, NEW t \in TaskRecs,
           NEW F \in SUBSET Ios,
           call' = [call EXCEPT ![c] = [call[c] EXCEPT !.tasks = [call[c].tasks EXCEPT ![io] = t],
                                                       !.first = F]]
    PROVE  OneTask(c, io, t, F)
<1> DEFINE T == [call[c].tasks EXCEPT ![io] = t]
           r == [call[c] EXCEPT !.tasks = T, !.first = F]
<1>1. PICK S \in SUBSET Ios : call[c].tasks \in [S -> TaskRecs]
  BY TasksType
<1>2. /\ T \in [S -> TaskRecs] /\ DOMAIN T = DOMAIN call[c].tasks /\ T[io] = t
      /\ \A x \in DOMAIN call[c].tasks : x # io => T[x] = call[c].tasks[x]
  BY <1>1
<1>3. T \in TaskSets
  BY <1>2 DEF TaskSets
<1>4. call' = [call EXCEPT ![c] = r]
  OBVIOUS
<1> HIDE DEF T
<1>5. call[c] \in CallRecs
  BY DEF Typed
<1>6. /\ r \in CallRecs /\ r.state = call[c].state /\ r.hook = call[c].hook
      /\ r.result = call[c].result /\ r.first = F /\ r.tasks = T
  BY <1>3, <1>5 DEF CallRecs
<1> HIDE DEF r
<1>7. call' \in [Calls -> CallRecs] /\ (\A d \in Calls : d # c => call'[d] = call[d]) /\ call'[c] = r
  BY <1>4, <1>6 DEF Typed
<1> QED
  BY <1>2, <1>6, <1>7 DEF OneTask

(* A task is set, *)
LEMMA SetsStep ==
    ASSUME Typed, NEW c \in Calls, NEW io \in DOMAIN call[c].tasks, NEW t \in TaskRecs,
           Sets(c, io, t)
    PROVE  OneTask(c, io, t, call[c].first)
<1>1. call[c] \in CallRecs
  BY DEF Typed
<1>2. ASSUME NEW r \in CallRecs, NEW T PROVE [r EXCEPT !.tasks = T] = [r EXCEPT !.tasks = T, !.first = r.first]
  BY DEF CallRecs
<1>3. call' = [call EXCEPT ![c] = [call[c] EXCEPT !.tasks = [call[c].tasks EXCEPT ![io] = t]]]
  BY DEF Sets
<1>4. call' = [call EXCEPT ![c] = [call[c] EXCEPT !.tasks = [call[c].tasks EXCEPT ![io] = t],
                                                  !.first = call[c].first]]
  BY <1>1, <1>2, <1>3
<1>5. call[c].first \in SUBSET Ios
  BY <1>1 DEF CallRecs
<1> QED
  BY <1>4, <1>5, OneTaskStep

(* or finishes; the first to do so is remembered. *)
LEMMA FinishesStep ==
    ASSUME Typed, NEW c \in Calls, NEW io \in DOMAIN call[c].tasks,
           NEW at \in {"ready", "error"}, Finishes(c, io, at)
    PROVE  \E t \in TaskRecs : /\ t.at = at
                              /\ OneTask(c, io, t, IF call[c].first = {} THEN {io} ELSE call[c].first)
<1> DEFINE t == [call[c].tasks[io] EXCEPT !.at = at]
           F == IF call[c].first = {} THEN {io} ELSE call[c].first
<1>1. call[c] \in CallRecs /\ call[c].tasks[io] \in TaskRecs /\ io \in Ios
  BY TasksType DEF Typed
<1>2. t \in TaskRecs /\ t.at = at
  BY <1>1 DEF TaskRecs
<1>3. F \in SUBSET Ios
  BY <1>1 DEF CallRecs
<1>4. call' = [call EXCEPT ![c] = [call[c] EXCEPT !.tasks = [call[c].tasks EXCEPT ![io] = t],
                                                  !.first = F]]
  BY DEF Finishes, Typed
<1> HIDE DEF t, F
<1>5. OneTask(c, io, t, F)
  BY <1>2, <1>3, <1>4, OneTaskStep
<1> QED
  BY <1>2, <1>5 DEF F

(* The records that a call can begin and end with. *)
LEMMA CallTypes ==
    /\ Idle \in CallRecs
    /\ \A o \in Outcomes : Done(o) \in CallRecs
    /\ \A hook \in {"io_wait", "io_select"}, asked \in SUBSET (Events \cup {"P"}),
         timed \in BOOLEAN, tasks \in TaskSets : Begins(hook, asked, timed, tasks) \in CallRecs
<1>1. [io \in {} |-> Task("new", "none")] \in [{} -> TaskRecs]
  OBVIOUS
<1>2. [io \in {} |-> Task("new", "none")] \in TaskSets
  BY <1>1 DEF TaskSets
<1>3. Idle \in CallRecs
  BY <1>2 DEF Idle, CallRecs, Outcome, Outcomes
<1>4. ASSUME NEW o \in Outcomes PROVE Done(o) \in CallRecs
  BY <1>3 DEF Done, CallRecs
<1> QED
  BY <1>3, <1>4 DEF Begins, CallRecs

-----------------------------------------------------------------------------
(* Steps that leave the descriptors alone. *)
LEMMA CallOnlyStep ==
    ASSUME Typed, FdInv, UNCHANGED fdVars,
           \A d \in Calls, x \in Ios : /\ Waits(d, x)' => Waits(d, x)
                                       /\ Holds(d, x) => Holds(d, x)'
    PROVE  FdInv'
<1> USE DEF fdVars
<1>1. Guarded'
  BY OwnedFacts DEF FdInv, Guarded, Typed, GuardRecs
<1>2. Registered'
  BY DEF FdInv, Registered
<1>3. Remembered' /\ FlagsRestored' /\ EpollOpen' /\ OpenUnlessReused'
  BY DEF FdInv, Remembered, FlagsRestored, EpollOpen, OpenUnlessReused
<1> QED
  BY <1>1, <1>2, <1>3 DEF FdInv

(* A socket is wrapped in a stream, for a new task that waits on it or for *)
(* nobody. The registration fails, and closes the number, when it is taken *)
(* already.                                                                *)
LEMMA WrapStep ==
    ASSUME Typed, FdInv,
           NEW fd \in Fds, NEW owner \in Owned \cup {Leaked}, FromValueAndRawFd(fd, owner),
           \A d \in Calls, x \in Ios :
               /\ Waits(d, x)' => \/ Waits(d, x)
                                  \/ owner = <<d, x>> /\ x[1] = fd /\ IsSocket(fd) /\ Registers(fd)
               /\ Holds(d, x) => Holds(d, x)'
    PROVE  FdInv'
<1> USE DEF Typed
<1>0. /\ held' = held /\ class' = class /\ nonblock' = nonblock /\ guards' = guards
      /\ given' = given /\ recycled' = recycled /\ ready' = ready
  BY DEF FromValueAndRawFd
<1>1. \A f \in Fds : f # fd => open'[f] = open[f] /\ epoll'[f] = epoll[f] /\ uses'[f] = uses[f]
  BY DEF FromValueAndRawFd
<1>2. CASE ~IsSocket(fd)
  <2>1. open' = open /\ epoll' = epoll /\ uses' = uses
    BY <1>2 DEF FromValueAndRawFd
  <2> QED
    BY <1>0, <1>2, <2>1, CallOnlyStep DEF fdVars
<1>3. CASE IsSocket(fd)
  <2>1. /\ open'[fd] = Registers(fd)
        /\ epoll'[fd] = IF Registers(fd) THEN owner ELSE NoOwner
        /\ uses'[fd] = IF uses[fd] = 0 THEN 1 ELSE 2
    BY <1>3 DEF FromValueAndRawFd
  <2>2. \A f \in Fds : open'[f] => open[f]
    BY <1>1, <2>1 DEF Registers
  <2>3. Guarded'
    BY <1>0, OwnedFacts DEF FdInv, Guarded, GuardRecs
  <2>4. Registered'
    <3> SUFFICES ASSUME NEW d \in Calls, NEW x \in Ios,
                        Waits(d, x)', open'[x[1]], ~recycled'[x[1]]
                 PROVE  epoll'[x[1]] = <<d, x>>
      BY DEF Registered
    <3>1. x[1] \in Fds
      BY DEF Ios
    <3>2. CASE Waits(d, x)
      <4>1. epoll[x[1]] = <<d, x>>
        BY <1>0, <2>2, <3>1, <3>2 DEF FdInv, Registered
      <4>2. epoll[x[1]] # NoOwner
        BY <4>1, OwnedFacts
      <4>3. x[1] # fd
        BY <2>1, <4>2 DEF Registers
      <4> QED
        BY <1>1, <3>1, <4>1, <4>3
    <3>3. CASE ~Waits(d, x)
      BY <2>1, <3>3
    <3> QED
      BY <3>2, <3>3
  <2>5. Remembered'
    BY <1>0, <2>2 DEF FdInv, Remembered, GuardRecs
  <2>6. FlagsRestored'
    BY <1>0, <2>2 DEF FdInv, FlagsRestored
  <2>7. EpollOpen' /\ OpenUnlessReused'
    <3> SUFFICES ASSUME NEW f \in Fds
                 PROVE  /\ ~open'[f] \/ uses'[f] = 0 => epoll'[f] = NoOwner
                        /\ held'[f] /\ uses'[f] < 2 => open'[f]
      BY DEF EpollOpen, OpenUnlessReused
    <3>1. CASE f # fd
      BY <1>0, <1>1, <3>1 DEF FdInv, EpollOpen, OpenUnlessReused
    <3>2. CASE f = fd
      <4>1. ~open'[f] \/ uses'[f] = 0 => epoll'[f] = NoOwner
        BY <2>1, <3>2
      <4>2. held'[f] /\ uses'[f] < 2 => open'[f]
        BY <1>0, <2>1, <3>2 DEF FdInv, EpollOpen, OpenUnlessReused, Registers
      <4> QED
        BY <4>1, <4>2
    <3> QED
      BY <3>1, <3>2
  <2> QED
    BY <2>3, <2>4, <2>5, <2>6, <2>7 DEF FdInv
<1> QED
  BY <1>2, <1>3

(* A task that waits on a socket takes its guard. It is the first of the   *)
(* descriptor, so it reads the flags that the program gave it.             *)
LEMMA GuardStep ==
    ASSUME Typed, FdInv, NEW c \in Calls, NEW io \in Ios,
           Waits(c, io), ~Holds(c, io), Holds(c, io)', WithNonblock(io[1], <<c, io>>),
           UNCHANGED <<open, held, class, epoll, ready, given, uses, recycled>>,
           \A d \in Calls, x \in Ios : /\ Waits(d, x)' => Waits(d, x)
                                       /\ Holds(d, x) => Holds(d, x)'
    PROVE  FdInv' /\ guards' \subseteq GuardRecs /\ nonblock' \in [Fds -> BOOLEAN]
<1> USE DEF Typed
<1> DEFINE fd == io[1]
           new == Guard(<<c, io>>, fd)
<1>1. /\ fd \in Fds /\ open[fd] /\ guards' = guards \cup {new}
      /\ nonblock' = [nonblock EXCEPT ![fd] = TRUE]
  BY DEF WithNonblock, Ios
<1>2. new \in GuardRecs /\ new.owner = <<c, io>> /\ new.fd = fd /\ new.old_flags = nonblock[fd]
  BY <1>1, OwnedFacts DEF Guard, GuardRecs
<1> HIDE DEF new
<1>3. \A g \in guards : g.owner # <<c, io>>
  BY OwnedFacts DEF FdInv, Guarded, GuardRecs
<1>4. ASSUME ~recycled[fd] PROVE (\A g \in guards : g.fd # fd) /\ nonblock[fd] = given[fd]
  <2>1. epoll[fd] = <<c, io>>
    BY <1>1, <1>4 DEF FdInv, Registered
  <2>2. ASSUME NEW g \in guards, g.fd = fd PROVE FALSE
    <3>1. g.owner \in Owned /\ g.owner[2][1] = fd /\ Waits(g.owner[1], g.owner[2])
      BY <2>2 DEF FdInv, Guarded, GuardRecs, Holds
    <3>2. epoll[fd] = <<g.owner[1], g.owner[2]>>
      BY <1>1, <1>4, <3>1, OwnedFacts DEF FdInv, Registered
    <3> QED
      BY <1>3, <2>1, <3>1, <3>2, OwnedFacts
  <2> QED
    BY <1>1, <1>4, <2>2 DEF FdInv, FlagsRestored
<1>5. Guarded'
  <2>1. \A g \in guards' : g.fd = g.owner[2][1] /\ Holds(g.owner[1], g.owner[2])'
    BY <1>1, <1>2, OwnedFacts DEF FdInv, Guarded, GuardRecs
  <2>2. \A g, h \in guards' : g.owner = h.owner => g = h
    BY <1>1, <1>2, <1>3 DEF FdInv, Guarded
  <2> QED
    BY <2>1, <2>2 DEF Guarded
<1>6. Registered'
  BY DEF FdInv, Registered
<1>7. Remembered'
  BY <1>1, <1>2, <1>4 DEF FdInv, Remembered, GuardRecs
<1>8. FlagsRestored'
  BY <1>1, <1>2 DEF FdInv, FlagsRestored
<1>9. EpollOpen' /\ OpenUnlessReused'
  BY DEF FdInv, EpollOpen, OpenUnlessReused
<1>10. guards' \subseteq GuardRecs /\ nonblock' \in [Fds -> BOOLEAN]
  BY <1>1, <1>2
<1> QED
  BY <1>5, <1>6, <1>7, <1>8, <1>9, <1>10 DEF FdInv

(* The futures of some calls end or are dropped: their guards put back     *)
(* what they remember, and their streams are forgotten.                    *)
LEMMA DropStep ==
    ASSUME Typed, FdInv, NEW S \in SUBSET Calls,
           DropGuards({g \in guards : g.owner[1] \in S}),
           DropRubyIo({o \in Owned : o[1] \in S}),
           UNCHANGED <<held, class, ready, given, uses, recycled>>,
           \A d \in Calls, x \in Ios : /\ Waits(d, x)' => Waits(d, x) /\ d \notin S
                                       /\ Holds(d, x) /\ d \notin S => Holds(d, x)'
    PROVE  /\ FdInv' /\ guards' \subseteq GuardRecs /\ nonblock' \in [Fds -> BOOLEAN]
           /\ open' = open /\ epoll' \in [Fds -> Owned \cup {NoOwner, Leaked}]
<1> USE DEF Typed
<1> DEFINE dropped == {g \in guards : g.owner[1] \in S}
           owners == {o \in Owned : o[1] \in S}
<1>1. guards' = {g \in guards : g.owner[1] \notin S}
  BY DEF DropGuards
<1>2. nonblock' \in [Fds -> BOOLEAN] /\ \A fd \in Fds : nonblock'[fd] \in FlagsAfter(fd, dropped)
  BY DEF DropGuards
<1>3. open' = open /\ epoll' = [fd \in Fds |-> IF epoll[fd] \in owners THEN Leaked ELSE epoll[fd]]
  BY DEF DropRubyIo
<1>4. Guarded'
  BY <1>1, OwnedFacts DEF FdInv, Guarded, GuardRecs
<1>5. Registered'
  <2> SUFFICES ASSUME NEW d \in Calls, NEW x \in Ios,
                      Waits(d, x)', open'[x[1]], ~recycled'[x[1]]
               PROVE  epoll'[x[1]] = <<d, x>>
    BY DEF Registered
  <2>1. x[1] \in Fds /\ epoll[x[1]] = <<d, x>> /\ d \notin S
    BY <1>3 DEF FdInv, Registered, Ios
  <2>2. epoll[x[1]] \notin owners
    BY <2>1
  <2> QED
    BY <1>3, <2>1, <2>2
<1>6. Remembered'
  BY <1>1, <1>3 DEF FdInv, Remembered
<1>7. FlagsRestored'
  <2> SUFFICES ASSUME NEW fd \in Fds, open[fd], ~recycled[fd], \A g \in guards' : g.fd # fd
               PROVE  nonblock'[fd] = given[fd]
    BY <1>3 DEF FlagsRestored
  <2> DEFINE mine == {g \in dropped : g.fd = fd}
  <2>1. CASE mine = {}
    <3>1. \A g \in guards : g.fd # fd
      BY <1>1, <2>1
    <3>2. nonblock'[fd] = nonblock[fd]
      BY <1>2, <2>1 DEF FlagsAfter
    <3> QED
      BY <3>1, <3>2 DEF FdInv, FlagsRestored
  <2>2. CASE mine # {}
    <3>1. nonblock'[fd] \in {g.old_flags : g \in mine}
      BY <1>2, <2>2 DEF FlagsAfter
    <3>2. \A g \in mine : g.old_flags = given[fd]
      BY DEF FdInv, Remembered
    <3> QED
      BY <3>1, <3>2
  <2> QED
    BY <2>1, <2>2
<1>8. EpollOpen' /\ OpenUnlessReused'
  <2>1. NoOwner \notin owners
    BY OwnedFacts
  <2> QED
    BY <1>3, <2>1 DEF FdInv, EpollOpen, OpenUnlessReused
<1> QED
  BY <1>1, <1>2, <1>3, <1>4, <1>5, <1>6, <1>7, <1>8 DEF FdInv

(* The program opens, closes and uses descriptors. A number that is opened *)
(* while a guard or a task is on it counts as recycled.                    *)
LEMMA ProgramStep ==
    ASSUME Typed, FdInv, NEW fd \in Fds, Open(fd, InUse(fd)) \/ Close(fd) \/ PeerActs(fd),
           UNCHANGED call
    PROVE  Typed' /\ FdInv'
<1>0. \A d \in Calls, x \in Ios : (Waits(d, x)' <=> Waits(d, x)) /\ (Holds(d, x)' <=> Holds(d, x))
  BY DEF Waits, Holds, Pending
<1>1. CASE Open(fd, InUse(fd))
  <2>0. InUse(fd) \in BOOLEAN
    BY DEF InUse
  <2>1. /\ ~open[fd] /\ epoll' = epoll /\ guards' = guards
        /\ \A f \in Fds : f # fd => /\ open'[f] = open[f] /\ held'[f] = held[f] /\ uses'[f] = uses[f]
                                    /\ nonblock'[f] = nonblock[f] /\ given'[f] = given[f]
                                    /\ recycled'[f] = recycled[f]
        /\ open'[fd] /\ held'[fd] /\ nonblock'[fd] = given'[fd] /\ uses'[fd] = 0
        /\ recycled'[fd] = InUse(fd)
    BY <1>1 DEF Open, Typed
  <2>2. Typed'
    BY <1>1, <2>0, ModesAssumption DEF Open, Typed
  <2>3. \A d \in Calls, x \in Ios : Waits(d, x) /\ x[1] = fd => InUse(fd)
    BY DEF Waits, InUse
  <2>4. \A g \in guards : g.fd = fd => InUse(fd)
    BY <2>3, OwnedFacts DEF FdInv, Guarded, Holds, Typed, GuardRecs
  <2>5. Guarded'
    BY <1>0, <2>1, OwnedFacts DEF FdInv, Guarded, Typed, GuardRecs
  <2>6. Registered'
    BY <1>0, <2>1, <2>3 DEF FdInv, Registered, Ios
  <2>7. Remembered'
    BY <2>1, <2>4 DEF FdInv, Remembered, Typed, GuardRecs
  <2>8. FlagsRestored'
    BY <2>1 DEF FdInv, FlagsRestored
  <2>9. EpollOpen' /\ OpenUnlessReused'
    BY <2>1 DEF FdInv, EpollOpen, OpenUnlessReused
  <2> QED
    BY <2>2, <2>5, <2>6, <2>7, <2>8, <2>9 DEF FdInv
<1>2. CASE Close(fd)
  <2>1. /\ class' = class /\ guards' = guards /\ nonblock' = nonblock /\ given' = given
        /\ uses' = uses /\ recycled' = recycled
        /\ \A f \in Fds : f # fd => open'[f] = open[f] /\ held'[f] = held[f] /\ epoll'[f] = epoll[f]
        /\ ~open'[fd] /\ ~held'[fd] /\ epoll'[fd] = NoOwner
    BY <1>2 DEF Close, Typed
  <2>2. Typed'
    BY <1>2 DEF Close, Typed
  <2>3. Guarded'
    BY <1>0, <2>1, OwnedFacts DEF FdInv, Guarded, Typed, GuardRecs
  <2>4. Registered'
    BY <1>0, <2>1 DEF FdInv, Registered, Ios
  <2>5. Remembered' /\ FlagsRestored' /\ EpollOpen' /\ OpenUnlessReused'
    BY <2>1 DEF FdInv, Remembered, FlagsRestored, EpollOpen, OpenUnlessReused, Typed, GuardRecs
  <2> QED
    BY <2>2, <2>3, <2>4, <2>5 DEF FdInv
<1>3. CASE PeerActs(fd)
  <2>1. /\ open' = open /\ held' = held /\ class' = class /\ guards' = guards /\ nonblock' = nonblock
        /\ given' = given /\ uses' = uses /\ recycled' = recycled /\ epoll' = epoll
    BY <1>3 DEF PeerActs
  <2>2. Typed'
    BY <1>3 DEF PeerActs, Typed
  <2>3. Guarded'
    BY <1>0, <2>1, OwnedFacts DEF FdInv, Guarded, Typed, GuardRecs
  <2>4. Registered' /\ Remembered' /\ FlagsRestored' /\ EpollOpen' /\ OpenUnlessReused'
    BY <1>0, <2>1 DEF FdInv, Registered, Remembered, FlagsRestored, EpollOpen, OpenUnlessReused
  <2> QED
    BY <2>2, <2>3, <2>4 DEF FdInv
<1> QED
  BY <1>1, <1>2, <1>3

-----------------------------------------------------------------------------
(* A call that is over has no task. *)
LEMMA DoneFacts ==
    ASSUME NEW o
    PROVE  /\ Done(o).state = "done" /\ DOMAIN Done(o).tasks = {} /\ Done(o).first = {}
           /\ Done(o).result = o /\ Stage(Done(o))
<1>1. /\ Done(o).state = "done" /\ DOMAIN Done(o).tasks = {} /\ Done(o).first = {}
      /\ Done(o).result = o
  BY DEF Done, Idle
<1> QED
  BY <1>1 DEF Stage

(* The calls of a set end: their guards and streams are dropped. *)
LEMMA CallsEnd ==
    ASSUME IInv, NEW S \in SUBSET Calls, NEW o \in Outcomes,
           DropGuards({g \in guards : g.owner[1] \in S}),
           DropRubyIo({q \in Owned : q[1] \in S}),
           call' \in [Calls -> CallRecs],
           \A d \in Calls : call'[d] = IF d \in S THEN Done(o) ELSE call[d],
           UNCHANGED <<held, class, ready, given, uses, recycled>>
    PROVE  IInv'
<1> USE DEF IInv
<1>1. \A d \in Calls, x \in Ios : /\ Waits(d, x)' => Waits(d, x) /\ d \notin S
                                  /\ Holds(d, x) /\ d \notin S => Holds(d, x)'
  BY DoneFacts DEF Waits, Holds, Pending
<1>2. /\ FdInv' /\ guards' \subseteq GuardRecs /\ nonblock' \in [Fds -> BOOLEAN]
      /\ open' = open /\ epoll' \in [Fds -> Owned \cup {NoOwner, Leaked}]
  BY <1>1, DropStep
<1>3. Typed'
  BY <1>2 DEF Typed
<1>4. Stages'
  BY DoneFacts DEF Stages
<1> QED
  BY <1>2, <1>3, <1>4

(* One call ends: readiness, an error or a timeout. *)
LEMMA EndsStep ==
    ASSUME IInv, NEW c \in Calls, NEW o \in Outcomes, Ends(c, o)
    PROVE  IInv'
<1>1. GuardsOf(c) = {g \in guards : g.owner[1] \in {c}}
  BY OwnedFacts DEF GuardsOf, Owners, IInv, Typed, GuardRecs
<1>2. Owners(c) = {q \in Owned : q[1] \in {c}}
  BY OwnedFacts DEF Owners
<1>3. Done(o) \in CallRecs
  BY CallTypes
<1>4. /\ call' \in [Calls -> CallRecs]
      /\ \A d \in Calls : call'[d] = IF d \in {c} THEN Done(o) ELSE call[d]
  BY <1>3 DEF Ends, IInv, Typed
<1>5. /\ DropGuards({g \in guards : g.owner[1] \in {c}}) /\ DropRubyIo({q \in Owned : q[1] \in {c}})
      /\ UNCHANGED <<held, class, ready, given, uses, recycled>>
  BY <1>1, <1>2 DEF Ends
<1> QED
  BY <1>4, <1>5, CallsEnd

(* run's interrupt arm only marks them. *)
LEMMA AbortAllStep ==
    ASSUME IInv, AbortAll
    PROVE  IInv'
<1>1. \A d \in Calls, x \in Ios : (Waits(d, x)' => Waits(d, x)) /\ (Holds(d, x) => Holds(d, x)')
  BY DEF AbortAll, Waits, Holds, Pending
<1>2. Typed' /\ Stages' /\ UNCHANGED fdVars
  BY DEF AbortAll, fdVars, IInv, Typed, Stages
<1> QED
  BY <1>1, <1>2, CallOnlyStep DEF IInv

(* A stream is made of a well-formed descriptor for a well-formed owner. *)
LEMMA WrapType ==
    ASSUME Typed, NEW fd \in Fds, NEW owner \in Owned \cup {Leaked},
           FromValueAndRawFd(fd, owner), call' \in [Calls -> CallRecs]
    PROVE  Typed'
<1>1. Registers(fd) \in BOOLEAN
  BY DEF Registers, Typed
<1>2. open' \in [Fds -> BOOLEAN]
  BY <1>1 DEF FromValueAndRawFd, Typed
<1>3. epoll' \in [Fds -> Owned \cup {NoOwner, Leaked}]
  BY DEF FromValueAndRawFd, Typed
<1>4. uses' \in [Fds -> 0 .. 2]
  BY DEF FromValueAndRawFd, Typed
<1> QED
  BY <1>2, <1>3, <1>4 DEF FromValueAndRawFd, Typed

(* io_wait raises before its future is spawned. *)
LEMMA IoWaitRaisesStep ==
    ASSUME IInv, NEW c \in Calls, IoWaitRaises(c)
    PROVE  IInv'
<1> USE DEF IInv
<1> DEFINE o == Outcome("raised", {})
<1>0. o \in Outcomes
  BY DEF Outcome, Outcomes
<1>1. Done(o) \in CallRecs
  BY <1>0, CallTypes
<1>2. /\ call' \in [Calls -> CallRecs] /\ call'[c] = Done(o)
      /\ \A d \in Calls : d # c => call'[d] = call[d]
  BY <1>1 DEF IoWaitRaises, Typed
<1>3. \A d \in Calls, x \in Ios : /\ Waits(d, x)' => Waits(d, x)
                                  /\ Holds(d, x) => Holds(d, x)'
  BY <1>2, DoneFacts DEF Waits, Holds, Pending, IoWaitRaises
<1>4. Stages'
  BY <1>2, DoneFacts DEF Stages
<1>5. PICK fd \in Fds : UNCHANGED fdVars \/ FromValueAndRawFd(fd, Leaked)
  BY DEF IoWaitRaises
<1>6. CASE UNCHANGED fdVars
  <2>1. Typed'
    BY <1>2, <1>6 DEF Typed, fdVars
  <2> QED
    BY <1>3, <1>4, <1>6, <2>1, CallOnlyStep
<1>7. CASE FromValueAndRawFd(fd, Leaked)
  BY <1>2, <1>3, <1>4, <1>7, WrapStep, WrapType
<1> QED
  BY <1>5, <1>6, <1>7

(* A call that begins has the tasks it is given, and no result. *)
LEMMA BeginsFacts ==
    ASSUME NEW hook, NEW asked, NEW timed, NEW tasks
    PROVE  LET r == Begins(hook, asked, timed, tasks)
           IN /\ r.state = "pending" /\ r.hook = hook /\ r.tasks = tasks
              /\ r.first = {} /\ r.result.kind = "none"
BY DEF Begins, Idle, Outcome

(* io_wait makes its stream in the calling fiber. *)
LEMMA IoWaitStep ==
    ASSUME IInv, NEW c \in Calls, IoWait(c)
    PROVE  IInv'
<1> USE DEF IInv
<1>1. PICK fd \in Fds, asked \in Asked, timed \in BOOLEAN :
        /\ held[fd] /\ "P" \notin asked /\ Wraps(fd)
        /\ FromValueAndRawFd(fd, <<c, <<fd, InterestOf(asked)>>>>)
        /\ call' = [call EXCEPT ![c] =
              Begins("io_wait", asked, timed,
                     [x \in {<<fd, InterestOf(asked)>>} |-> Task("made", class[fd])])]
  BY DEF IoWait
<1> DEFINE io == <<fd, InterestOf(asked)>>
           t == Task("made", class[fd])
           tasks == [x \in {io} |-> t]
           r == Begins("io_wait", asked, timed, tasks)
<1>2. io \in Ios /\ io[1] = fd /\ <<c, io>> \in Owned
  BY OwnedFacts DEF Ios, InterestOf, Interests
<1>3. t \in TaskRecs /\ t.at = "made" /\ t.kind = class[fd]
  BY DEF Task, TaskRecs, Typed
<1> HIDE DEF io, t
<1>4. tasks \in [{io} -> TaskRecs] /\ DOMAIN tasks = {io} /\ tasks[io] = t
  BY <1>3
<1>5. tasks \in TaskSets
  BY <1>2, <1>4 DEF TaskSets
<1>6. r \in CallRecs
  BY <1>5, CallTypes, AskedAssumption
<1>7. /\ r.state = "pending" /\ r.hook = "io_wait" /\ r.tasks = tasks
      /\ r.first = {} /\ r.result.kind = "none"
  BY BeginsFacts
<1>8. Stage(r)
  BY <1>3, <1>4, <1>7 DEF Stage
<1> HIDE DEF tasks
<1>9. call' = [call EXCEPT ![c] = r]
  BY <1>1 DEF io, t, tasks
<1> HIDE DEF r
<1>10. /\ call' \in [Calls -> CallRecs] /\ call'[c] = r
       /\ \A d \in Calls : d # c => call'[d] = call[d]
  BY <1>6, <1>9 DEF Typed
<1>11. class[fd] # "file" => IsSocket(fd) /\ Registers(fd)
  BY <1>1 DEF Wraps
<1>12. ~Pending(c)
  BY DEF IoWait
<1>13. \A d \in Calls, x \in Ios :
         /\ Waits(d, x)' => \/ Waits(d, x)
                            \/ <<c, io>> = <<d, x>> /\ x[1] = fd /\ IsSocket(fd) /\ Registers(fd)
         /\ Holds(d, x) => Holds(d, x)'
  BY <1>2, <1>3, <1>4, <1>7, <1>10, <1>11, <1>12 DEF Waits, Holds, Pending
<1>14. FromValueAndRawFd(fd, <<c, io>>)
  BY <1>1 DEF io
<1>15. Stages'
  BY <1>8, <1>10 DEF Stages
<1> QED
  BY <1>2, <1>10, <1>13, <1>14, <1>15, WrapStep, WrapType

(* io_select makes its streams later. *)
LEMMA IoSelectStep ==
    ASSUME IInv, NEW c \in Calls, IoSelect(c)
    PROVE  IInv'
<1> USE DEF IInv
<1>1. PICK ios \in Selections[c], timed \in BOOLEAN :
        call' = [call EXCEPT ![c] = Begins("io_select", {}, timed, [x \in ios |-> Task("new", "none")])]
  BY DEF IoSelect
<1> DEFINE t == Task("new", "none")
           tasks == [x \in ios |-> t]
           r == Begins("io_select", {}, timed, tasks)
<1>2. t \in TaskRecs /\ t.at = "new"
  BY DEF Task, TaskRecs
<1> HIDE DEF t
<1>3. ios \in SUBSET Ios
  BY AskedAssumption
<1>4. tasks \in [ios -> TaskRecs] /\ DOMAIN tasks = ios /\ \A x \in ios : tasks[x] = t
  BY <1>2
<1>5. tasks \in TaskSets
  BY <1>3, <1>4 DEF TaskSets
<1>6. r \in CallRecs
  BY <1>5, CallTypes
<1>7. /\ r.state = "pending" /\ r.hook = "io_select" /\ r.tasks = tasks
      /\ r.first = {} /\ r.result.kind = "none"
  BY BeginsFacts
<1>8. Stage(r)
  BY <1>2, <1>4, <1>7 DEF Stage
<1>9. call' = [call EXCEPT ![c] = r]
  BY <1>1 DEF t
<1> HIDE DEF tasks, r
<1>10. /\ call' \in [Calls -> CallRecs] /\ call'[c] = r
       /\ \A d \in Calls : d # c => call'[d] = call[d]
  BY <1>6, <1>9 DEF Typed
<1>11. ~Pending(c) /\ UNCHANGED fdVars
  BY DEF IoSelect
<1>12. \A d \in Calls, x \in Ios : (Waits(d, x)' => Waits(d, x)) /\ (Holds(d, x) => Holds(d, x)')
  BY <1>2, <1>4, <1>7, <1>10, <1>11 DEF Waits, Holds, Pending
<1>13. Stages'
  BY <1>8, <1>10 DEF Stages
<1>14. Typed'
  BY <1>10, <1>11 DEF Typed, fdVars
<1> QED
  BY <1>11, <1>12, <1>13, <1>14, CallOnlyStep

(* The driver tells a task that its descriptor is ready. *)
LEMMA NoticeStep ==
    ASSUME IInv, NEW fd \in Fds, Notice(fd)
    PROVE  IInv'
<1> USE DEF IInv
<1>1. PICK c \in Calls, io \in Ios : call' = [call EXCEPT ![c].tasks[io].seen = TRUE]
  BY DEF Notice
<1>2. UNCHANGED fdVars
  BY DEF Notice
<1>3. call[c] \in CallRecs
  BY DEF Typed
<1>4. CASE io \in DOMAIN call[c].tasks
  <2> DEFINE t == [call[c].tasks[io] EXCEPT !.seen = TRUE]
  <2>1. call[c].tasks[io] \in TaskRecs
    BY <1>4, TasksType
  <2>2. t \in TaskRecs /\ t.at = call[c].tasks[io].at /\ t.kind = call[c].tasks[io].kind
    BY <2>1 DEF TaskRecs
  <2>3. Sets(c, io, t)
    BY <1>1 DEF Sets
  <2> HIDE DEF t
  <2>4. OneTask(c, io, t, call[c].first)
    BY <1>4, <2>2, <2>3, SetsStep
  <2>5. /\ call' \in [Calls -> CallRecs] /\ \A d \in Calls : d # c => call'[d] = call[d]
        /\ call'[c].state = call[c].state /\ call'[c].hook = call[c].hook
        /\ call'[c].first = call[c].first /\ call'[c].result = call[c].result
        /\ DOMAIN call'[c].tasks = DOMAIN call[c].tasks
        /\ \A x \in DOMAIN call[c].tasks : /\ call'[c].tasks[x].at = call[c].tasks[x].at
                                           /\ call'[c].tasks[x].kind = call[c].tasks[x].kind
    BY <2>2, <2>4 DEF OneTask
  <2>6. ASSUME NEW d \in Calls, NEW x \in Ios
        PROVE  (Waits(d, x)' => Waits(d, x)) /\ (Holds(d, x) => Holds(d, x)')
    <3>1. CASE d = c
      BY <2>5, <3>1 DEF Waits, Holds, Pending
    <3>2. CASE d # c
      BY <2>5, <3>2 DEF Waits, Holds, Pending
    <3> QED
      BY <3>1, <3>2
  <2>7. Stages'
    <3>1. Stage(call[c])
      BY DEF Stages
    <3>2. Stage(call'[c])
      BY <2>5, <3>1 DEF Stage
    <3> QED
      BY <2>5, <3>2 DEF Stages
  <2>8. Typed'
    BY <1>2, <2>5 DEF Typed, fdVars
  <2> QED
    BY <1>2, <2>6, <2>7, <2>8, CallOnlyStep
<1>5. CASE io \notin DOMAIN call[c].tasks
  <2>1. ASSUME NEW v PROVE [call[c].tasks EXCEPT ![io] = v] = call[c].tasks
    <3>1. PICK f \in [DOMAIN call[c].tasks -> TaskRecs] : f = call[c].tasks
      BY TasksType
    <3>2. [f EXCEPT ![io] = v] = f
      BY <1>5, <3>1
    <3> QED
      BY <3>1, <3>2
  <2>2. ASSUME NEW r \in CallRecs PROVE [r EXCEPT !.tasks = r.tasks] = r
    BY DEF CallRecs
  <2>3. PICK v : call' = [call EXCEPT ![c] = [call[c] EXCEPT !.tasks = [call[c].tasks EXCEPT ![io] = v]]]
    BY <1>1
  <2>4. [call[c] EXCEPT !.tasks = [call[c].tasks EXCEPT ![io] = v]] = call[c]
    BY <1>3, <2>1, <2>2
  <2>5. call' = call
    BY <2>3, <2>4 DEF Typed
  <2>6. \A d \in Calls, x \in Ios : (Waits(d, x)' => Waits(d, x)) /\ (Holds(d, x) => Holds(d, x)')
    BY <2>5 DEF Waits, Holds, Pending
  <2>7. Typed' /\ Stages'
    BY <1>2, <2>5 DEF Typed, fdVars, Stages
  <2> QED
    BY <1>2, <2>6, <2>7, CallOnlyStep
<1> QED
  BY <1>4, <1>5

(* What a change of one task does to the tasks that wait and hold guards. *)
LEMMA OneTaskFrame ==
    ASSUME Typed, NEW c \in Calls, NEW io \in DOMAIN call[c].tasks, NEW t, NEW F,
           OneTask(c, io, t, F), NEW d \in Calls, NEW x, <<d, x>> # <<c, io>>
    PROVE  (Waits(d, x)' <=> Waits(d, x)) /\ (Holds(d, x)' <=> Holds(d, x))
<1>1. CASE d = c
  BY <1>1 DEF OneTask, Waits, Holds, Pending
<1>2. CASE d # c
  BY <1>2 DEF OneTask, Waits, Holds, Pending
<1> QED
  BY <1>1, <1>2

(* The future of io_wait suspends with its guard. *)
LEMMA PollWaitFirstStep ==
    ASSUME IInv, NEW c \in Calls, PollWaitFirst(c)
    PROVE  IInv'
<1> USE DEF IInv
<1>1. PICK io \in DOMAIN call[c].tasks :
        /\ Pending(c) /\ call[c].tasks[io].at = "made" /\ ~IsReady(c, io)
        /\ WithNonblock(io[1], <<c, io>>)
        /\ Sets(c, io, Task("waiting", call[c].tasks[io].kind))
        /\ UNCHANGED <<open, held, class, epoll, ready, given, uses, recycled>>
  BY DEF PollWaitFirst
<1> DEFINE t == Task("waiting", call[c].tasks[io].kind)
<1>2. io \in Ios /\ call[c].tasks[io] \in TaskRecs
  BY TasksType
<1>3. t \in TaskRecs /\ t.at = "waiting" /\ t.kind = call[c].tasks[io].kind /\ t.kind # "file"
  BY <1>1, <1>2 DEF Task, TaskRecs, IsReady
<1> HIDE DEF t
<1>4. OneTask(c, io, t, call[c].first)
  BY <1>1, <1>3, SetsStep DEF t
<1>5. call[c].hook = "io_wait"
  BY <1>1 DEF Stages, Stage
<1>6. Waits(c, io) /\ ~Holds(c, io) /\ Holds(c, io)' /\ Waits(c, io)'
  BY <1>1, <1>3, <1>4, <1>5 DEF Waits, Holds, OneTask, Pending
<1>7. \A d \in Calls, x \in Ios : (Waits(d, x)' => Waits(d, x)) /\ (Holds(d, x) => Holds(d, x)')
  <2> SUFFICES ASSUME NEW d \in Calls, NEW x \in Ios
               PROVE  (Waits(d, x)' => Waits(d, x)) /\ (Holds(d, x) => Holds(d, x)')
    OBVIOUS
  <2>1. CASE <<d, x>> = <<c, io>>
    BY <1>6, <2>1
  <2>2. CASE <<d, x>> # <<c, io>>
    BY <1>4, <2>2, OneTaskFrame
  <2> QED
    BY <2>1, <2>2
<1>8. FdInv' /\ guards' \subseteq GuardRecs /\ nonblock' \in [Fds -> BOOLEAN]
  BY <1>1, <1>2, <1>6, <1>7, GuardStep
<1>9. Typed'
  BY <1>1, <1>4, <1>8 DEF Typed, OneTask
<1>10. Stages'
  <2>1. Stage(call[c])
    BY DEF Stages
  <2>2. Stage(call'[c])
    BY <1>3, <1>4, <2>1 DEF Stage, OneTask
  <2> QED
    BY <1>4, <2>2 DEF Stages, OneTask
<1> QED
  BY <1>8, <1>9, <1>10

(* A task of io_select finishes. *)
LEMMA FinishesFrame ==
    ASSUME IInv, NEW c \in Calls, NEW io \in DOMAIN call[c].tasks, Pending(c),
           call[c].hook = "io_select", NEW at \in {"ready", "error"}, Finishes(c, io, at)
    PROVE  /\ call' \in [Calls -> CallRecs] /\ Stages'
           /\ \A d \in Calls, x \in Ios : (Waits(d, x)' => Waits(d, x)) /\ (Holds(d, x) => Holds(d, x)')
<1> USE DEF IInv
<1> DEFINE F == IF call[c].first = {} THEN {io} ELSE call[c].first
<1>1. PICK t \in TaskRecs : t.at = at /\ OneTask(c, io, t, F)
  BY FinishesStep
<1>2. F # {} /\ (call[c].first \subseteq DOMAIN call[c].tasks => F \subseteq DOMAIN call[c].tasks)
  OBVIOUS
<1> HIDE DEF F
<1>3. Stage(call[c])
  BY DEF Stages
<1>4. Stage(call'[c])
  BY <1>1, <1>2, <1>3 DEF Stage, OneTask
<1>5. call' \in [Calls -> CallRecs] /\ Stages'
  BY <1>1, <1>4 DEF Stages, OneTask
<1>6. ~Waits(c, io)' /\ ~Holds(c, io)
  BY <1>1 DEF Waits, Holds, OneTask
<1>7. ASSUME NEW d \in Calls, NEW x \in Ios
      PROVE  (Waits(d, x)' => Waits(d, x)) /\ (Holds(d, x) => Holds(d, x)')
  <2>1. CASE <<d, x>> = <<c, io>>
    BY <1>6, <2>1
  <2>2. CASE <<d, x>> # <<c, io>>
    BY <1>1, <2>2, OneTaskFrame
  <2> QED
    BY <2>1, <2>2
<1> QED
  BY <1>5, <1>7

(* Its tasks finish when their stream is ready, *)
LEMMA PollTaskReadyStep ==
    ASSUME IInv, NEW c \in Calls, NEW io \in DOMAIN call[c].tasks, PollTaskReady(c, io)
    PROVE  IInv'
<1>1. /\ call' \in [Calls -> CallRecs] /\ Stages'
      /\ \A d \in Calls, x \in Ios : (Waits(d, x)' => Waits(d, x)) /\ (Holds(d, x) => Holds(d, x)')
  BY FinishesFrame DEF PollTaskReady
<1>2. UNCHANGED fdVars
  BY DEF PollTaskReady
<1>3. Typed'
  BY <1>1, <1>2 DEF IInv, Typed, fdVars
<1> QED
  BY <1>1, <1>2, <1>3, CallOnlyStep DEF IInv

(* and make it on their first poll, when a file is ready at once. *)
LEMMA PollTaskFirstStep ==
    ASSUME IInv, NEW c \in Calls, NEW io \in DOMAIN call[c].tasks, PollTaskFirst(c, io)
    PROVE  IInv'
<1> USE DEF IInv
<1> DEFINE fd == io[1]
<1>1. Pending(c) /\ call[c].tasks[io].at = "new" /\ call[c].hook = "io_select"
  BY DEF PollTaskFirst, Stages, Stage
<1>2. io \in Ios /\ fd \in Fds /\ <<c, io>> \in Owned
  BY TasksType, OwnedFacts
<1>3. ASSUME NEW at \in {"ready", "error"}, Finishes(c, io, at),
             FromValueAndRawFd(fd, <<c, io>>) \/ UNCHANGED fdVars
      PROVE  IInv'
  <2>1. /\ call' \in [Calls -> CallRecs] /\ Stages'
        /\ \A d \in Calls, x \in Ios : (Waits(d, x)' => Waits(d, x)) /\ (Holds(d, x) => Holds(d, x)')
    BY <1>1, <1>3, FinishesFrame
  <2>2. CASE FromValueAndRawFd(fd, <<c, io>>)
    BY <1>2, <2>1, <2>2, WrapStep, WrapType
  <2>3. CASE UNCHANGED fdVars
    <3>1. Typed'
      BY <2>1, <2>3 DEF Typed, fdVars
    <3> QED
      BY <2>1, <2>3, <3>1, CallOnlyStep
  <2> QED
    BY <1>3, <2>2, <2>3
<1>4. ASSUME Wraps(fd), class[fd] # "file", Sets(c, io, Task("waiting", class[fd])),
             FromValueAndRawFd(fd, <<c, io>>)
      PROVE  IInv'
  <2> DEFINE t == Task("waiting", class[fd])
  <2>1. t \in TaskRecs /\ t.at = "waiting"
    BY <1>2 DEF Task, TaskRecs, Typed
  <2>2. OneTask(c, io, t, call[c].first)
    BY <1>4, <2>1, SetsStep
  <2> HIDE DEF t
  <2>3. IsSocket(fd) /\ Registers(fd)
    BY <1>4 DEF Wraps
  <2>4. ~Holds(c, io)
    BY <1>1 DEF Holds
  <2>5. ASSUME NEW d \in Calls, NEW x \in Ios
        PROVE  /\ Waits(d, x)' => \/ Waits(d, x)
                                  \/ <<c, io>> = <<d, x>> /\ x[1] = fd /\ IsSocket(fd) /\ Registers(fd)
               /\ Holds(d, x) => Holds(d, x)'
    <3>1. CASE <<d, x>> = <<c, io>>
      BY <2>3, <2>4, <3>1
    <3>2. CASE <<d, x>> # <<c, io>>
      BY <2>2, <3>2, OneTaskFrame
    <3> QED
      BY <3>1, <3>2
  <2>6. Stages'
    <3>1. Stage(call[c])
      BY DEF Stages
    <3>2. Stage(call'[c])
      BY <2>1, <2>2, <3>1 DEF Stage, OneTask
    <3> QED
      BY <2>2, <3>2 DEF Stages, OneTask
  <2>7. call' \in [Calls -> CallRecs]
    BY <2>2 DEF OneTask
  <2> QED
    BY <1>2, <1>4, <2>5, <2>6, <2>7, WrapStep, WrapType
<1> QED
  BY <1>3, <1>4 DEF PollTaskFirst

(* The outcomes with which calls end. *)
LEMMA OutcomeTypes ==
    /\ Outcome("nil", {}) \in Outcomes /\ Outcome("raised", {}) \in Outcomes
    /\ Outcome("aborted", {}) \in Outcomes
    /\ \A io \in Ios : /\ Outcome("ready", {io}) \in Outcomes
                       /\ Outcome("ready", {<<io[1], {"R"}>>}) \in Outcomes
BY DEF Outcome, Outcomes, Ios, Interests

-----------------------------------------------------------------------------
(* The initial state satisfies the invariant. *)
LEMMA InitIInv == Init => IInv
<1> SUFFICES ASSUME Init PROVE IInv
  OBVIOUS
<1> USE DEF Init, FdInit
<1>1. Idle.state = "idle" /\ DOMAIN Idle.tasks = {} /\ Idle.first = {}
  BY DEF Idle
<1>2. Typed
  BY CallTypes, ModesAssumption DEF Typed
<1>3. Stages
  BY <1>1 DEF Stages, Stage
<1>4. Registered
  BY <1>1 DEF Registered, Waits
<1>5. Guarded /\ Remembered /\ FlagsRestored /\ EpollOpen /\ OpenUnlessReused
  BY DEF Guarded, Remembered, FlagsRestored, EpollOpen, OpenUnlessReused
<1> QED
  BY <1>2, <1>3, <1>4, <1>5 DEF IInv, FdInv

(* Every step keeps it. *)
LEMMA NextIInv == IInv /\ [Next]_vars => IInv'
<1> SUFFICES ASSUME IInv, [Next]_vars PROVE IInv'
  OBVIOUS
<1>1. CASE Program
  <2>1. PICK fd \in Fds : Open(fd, InUse(fd)) \/ Close(fd) \/ PeerActs(fd)
    BY <1>1 DEF Program
  <2>2. call' = call
    BY <1>1 DEF Program
  <2>3. Stages'
    BY <2>2 DEF IInv, Stages
  <2> QED
    BY <2>1, <2>2, <2>3, ProgramStep DEF IInv
<1>2. CASE AbortAll
  BY <1>2, AbortAllStep
<1>3. ASSUME NEW fd \in Fds, Notice(fd) PROVE IInv'
  BY <1>3, NoticeStep
<1>4. ASSUME NEW c \in Calls, IoWait(c) \/ IoWaitRaises(c) \/ IoSelect(c) PROVE IInv'
  BY <1>4, IoWaitStep, IoWaitRaisesStep, IoSelectStep
<1>5. ASSUME NEW c \in Calls, PollWaitFirst(c) PROVE IInv'
  BY <1>5, PollWaitFirstStep
<1>6. ASSUME NEW c \in Calls, PollWaitEnds(c) PROVE IInv'
  <2>1. PICK io \in DOMAIN call[c].tasks :
          Ends(c, Outcome("raised", {})) \/ Ends(c, Outcome("ready", {<<io[1], {"R"}>>}))
    BY <1>6 DEF PollWaitEnds
  <2>2. io \in Ios
    BY TasksType DEF IInv
  <2> QED
    BY <2>1, <2>2, OutcomeTypes, EndsStep
<1>7. ASSUME NEW c \in Calls, PollTask(c) PROVE IInv'
  BY <1>7, PollTaskFirstStep, PollTaskReadyStep DEF PollTask
<1>8. ASSUME NEW c \in Calls, PollSelect(c) PROVE IInv'
  <2>1. CASE Ends(c, Outcome("nil", {}))
    BY <2>1, OutcomeTypes, EndsStep
  <2>2. ASSUME NEW io \in call[c].first,
               Ends(c, Outcome("raised", {})) \/ Ends(c, Outcome("ready", {io}))
        PROVE  IInv'
    <3>1. io \in Ios
      BY TasksType DEF IInv, Stages, Stage
    <3> QED
      BY <2>2, <3>1, OutcomeTypes, EndsStep
  <2> QED
    BY <1>8, <2>1, <2>2 DEF PollSelect
<1>9. ASSUME NEW c \in Calls, TimesOut(c) PROVE IInv'
  BY <1>9, OutcomeTypes, EndsStep DEF TimesOut
<1>10. ASSUME NEW c \in Calls, DropAborted(c) PROVE IInv'
  BY <1>10, OutcomeTypes, EndsStep DEF DropAborted
<1>11. CASE UNCHANGED vars
  <2>1. \A d \in Calls, x \in Ios : (Waits(d, x)' => Waits(d, x)) /\ (Holds(d, x) => Holds(d, x)')
    BY <1>11 DEF vars, Waits, Holds, Pending
  <2>2. Typed' /\ Stages' /\ UNCHANGED fdVars
    BY <1>11 DEF vars, fdVars, IInv, Typed, Stages
  <2> QED
    BY <2>1, <2>2, CallOnlyStep DEF IInv
<1> QED
  BY <1>1, <1>2, <1>3, <1>4, <1>5, <1>6, <1>7, <1>8, <1>9, <1>10, <1>11 DEF Next, Polls

(* The inductive invariant of io_wait and io_select. *)
THEOREM IoWaitInvariance == Spec => []IInv
BY InitIInv, NextIInv, PTL DEF Spec

(* The marks: which calls are aborted, and which tasks have lost their IO. *)
Marks == aborted \subseteq Calls /\ gone \subseteq Owned

(* They are of calls and of tasks. *)
LEMMA MarksInvariance == Spec => []Marks
<1>1. Init => Marks
  BY DEF Init, Marks
<1>2. Marks /\ [Next]_vars => Marks'
  <2> SUFFICES ASSUME Marks, [Next]_vars PROVE Marks'
    OBVIOUS
  <2>1. CASE Program
    BY <2>1 DEF Program, Marks, Unasked
  <2>2. CASE AbortAll
    BY <2>2 DEF AbortAll, Marks
  <2>3. ASSUME NEW c \in Calls, NEW o, Ends(c, o) PROVE Marks'
    BY <2>3 DEF Ends, Marks
  <2>4. ASSUME NEW c \in Calls, PollWaitEnds(c) \/ PollSelect(c) \/ TimesOut(c) \/ DropAborted(c)
        PROVE  Marks'
    BY <2>3, <2>4 DEF PollWaitEnds, PollSelect, TimesOut, DropAborted
  <2>5. CASE UNCHANGED <<aborted, gone>>
    BY <2>5 DEF Marks
  <2> QED
    BY <2>1, <2>2, <2>4, <2>5 DEF Next, Polls, Notice, IoWait, IoWaitRaises, IoSelect,
         PollWaitFirst, PollTask, PollTaskFirst, PollTaskReady, vars
<1> QED
  BY <1>1, <1>2, PTL DEF Spec

(* The state stays well formed, and a guard belongs to a pending io_wait   *)
(* that has been polled.                                                   *)
THEOREM IoWaitTypes == Spec => []TypeOK
<1>1. IInv /\ Marks => TypeOK
  <2> SUFFICES ASSUME IInv, Marks PROVE TypeOK
    OBVIOUS
  <2> USE DEF IInv
  <2>1. /\ {open, held, nonblock, given, recycled} \subseteq [Fds -> BOOLEAN]
        /\ class \in [Fds -> Classes]
        /\ \A fd \in Fds : epoll[fd] \in Owned \cup {NoOwner, Leaked}
        /\ ready \in [Fds -> SUBSET Events]
        /\ uses \in [Fds -> 0 .. 2]
    BY DEF Typed
  <2>2. \A g \in guards : /\ g.owner \in Owned /\ g.fd = g.owner[2][1]
                          /\ Pending(g.owner[1])
                          /\ call[g.owner[1]].tasks[g.owner[2]].at = "waiting"
    BY DEF Typed, GuardRecs, FdInv, Guarded, Holds, Waits
  <2>3. \A c \in Calls : call[c].first \subseteq DOMAIN call[c].tasks
    BY DEF Stages, Stage
  <2> QED
    BY <2>1, <2>2, <2>3 DEF TypeOK, Marks
<1> QED
  BY <1>1, IoWaitInvariance, MarksInvariance, PTL

(* O_NONBLOCK is put back: when no guard of a descriptor is live it is     *)
(* what the program gave, unless the number was reused under a pending     *)
(* call (NonBlockGuard).                                                   *)
THEOREM FlagsRestoredTheorem == Spec => []FlagsRestored
<1>1. IInv => FlagsRestored
  BY DEF IInv, FdInv
<1> QED
  BY <1>1, IoWaitInvariance, PTL

(* A descriptor of which at most one stream was made is not closed under   *)
(* Ruby, however the call ends (Drop of RubyIo).                           *)
THEOREM OpenTheorem == Spec => []OpenUnlessReused
<1>1. IInv => OpenUnlessReused
  BY DEF IInv, FdInv
<1> QED
  BY <1>1, IoWaitInvariance, PTL

=============================================================================
