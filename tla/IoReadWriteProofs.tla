-------------------------- MODULE IoReadWriteProofs --------------------------
(***************************************************************************)
(* What io_read and io_write do to the bytes and to the flags of the       *)
(* descriptors they use, for any number of calls and any sizes.            *)
(***************************************************************************)
EXTENDS IoReadWrite, Integers, FiniteSetTheorems, TLAPS

Outcomes == [kind : {"none", "returned", "errno", "raised"}, got : SUBSET Nat, n : Nat]

AnyFd == CHOOSE fd \in Fds : TRUE

CallRecs == [state : {"idle", "pending", "done", "panicked"},
             hook : {"none", "io_read", "io_write"}, fd : Fds \cup {AnyFd},
             len : Nat, min : Nat, at : {"none", "made", "trying", "pool"},
             result : Outcomes]

OwnerSet == {Owner(c) : c \in Calls}

GuardRecs == [owner : OwnerSet, fd : Fds, old_flags : BOOLEAN]

FdTyped ==
    /\ open \in [Fds -> BOOLEAN] /\ held \in [Fds -> BOOLEAN]
    /\ nonblock \in [Fds -> BOOLEAN] /\ given \in [Fds -> BOOLEAN]
    /\ class \in [Fds -> Classes]
    /\ epoll \in [Fds -> OwnerSet \cup {NoOwner, Leaked}]
    /\ guards \subseteq GuardRecs
    /\ overlapped \in [Fds -> BOOLEAN]

(* bytes are taken once they are sent *)
Counts ==
    /\ sent \in [Fds -> 0 .. MaxBytes] /\ taken \in [Fds -> Nat]
    /\ \A fd \in Fds : taken[fd] <= sent[fd]
    /\ eof \in [Fds -> BOOLEAN] /\ room \in [Fds -> 0 .. Room]

CallsTyped ==
    /\ call \in [Calls -> CallRecs]
    /\ op \in [Calls -> {"none", "running", "done", "failed"}]
    /\ took \in [Calls -> SUBSET Nat] /\ put \in [Calls -> Nat]

(* what one read(2) may have taken: a run of at most Want(c) bytes *)
Run(c, bytes) == \E t, k \in Nat : k <= Want(c) /\ bytes = (t + 1) .. (t + k)

(* How far a call, its pool operation and its bytes can be. *)
Shape(c) ==
    /\ call[c].state = "idle" => /\ op[c] = "none" /\ took[c] = {} /\ put[c] = 0
                                 /\ call[c].result.kind = "none"
    /\ call[c].state # "idle" => Fd(c) \in Fds
    /\ Pending(c) <=> call[c].at # "none"
    /\ Pending(c) => /\ call[c].hook \in {"io_read", "io_write"}
                     /\ call[c].result.kind = "none" /\ class[Fd(c)] # "other"
    /\ call[c].at = "made" => op[c] = "none" /\ took[c] = {} /\ put[c] = 0
    /\ call[c].at = "trying" => op[c] = "none" /\ took[c] = {} /\ ~OnFile(c)
    /\ call[c].at = "pool" => op[c] # "none"
    /\ op[c] # "none" => /\ call[c].state # "idle" /\ OnFile(c)
                         /\ Pending(c) \/ op[c] = "running"
    /\ put[c] <= call[c].len
    /\ Run(c, took[c])
    /\ call[c].state # "idle" => took[c] \subseteq 1 .. taken[Fd(c)]
    /\ call[c].result.kind = "returned" => op[c] = "none"

Shapes == \A c \in Calls : Shape(c)

(* A call has a guard while its future is suspended, on its descriptor. *)
Guarded ==
    /\ \A g \in guards : \E c \in Calls :
         g.owner = Owner(c) /\ g.fd = Fd(c) /\ call[c].at \in {"trying", "pool"}
    /\ \A c \in Calls :
         call[c].at \in {"trying", "pool"} => \E g \in guards : g.owner = Owner(c)

(* The epoll set holds the registration of a pending call on a socket. *)
Registered ==
    \A c \in Calls :
        Pending(c) /\ ~OnFile(c) /\ open[Fd(c)] => epoll[Fd(c)] = Owner(c)

(* A guard remembers what the program gave, unless it was taken under      *)
(* another one.                                                            *)
Remembered ==
    \A g \in guards :
        open[g.fd] /\ ~(class[g.fd] = "file" /\ overlapped[g.fd]) => g.old_flags = given[g.fd]

Typed == FdTyped /\ Counts /\ CallsTyped

FdInv == Guarded /\ Registered /\ Remembered /\ FlagsRestoredUnlessOverlapped

IInv == Typed /\ Shapes /\ FdInv /\ ReadTakesNoMore /\ WriteReturnsWhenWritten

-----------------------------------------------------------------------------
(* Lemmas about the operators of the model.                                *)

(* An owner names its call, and is neither of the values for no owner. *)
LEMMA OwnerFacts ==
    /\ \A c, d : Owner(c) = Owner(d) => c = d
    /\ \A c : Owner(c) # NoOwner /\ Owner(c) # Leaked
BY DEF Owner, NoOwner, Leaked

(* Sizes are natural numbers. *)
LEMMA SizeTypes ==
    ASSUME CallsTyped, NEW c \in Calls
    PROVE  /\ call[c] \in CallRecs /\ call[c].len \in Nat /\ call[c].min \in Nat
           /\ Amount(c) \in Nat /\ Want(c) \in Nat
           /\ Want(c) <= Capacity \/ Want(c) <= Amount(c)
<1>1. call[c] \in CallRecs
  BY DEF CallsTyped
<1>2. call[c].len \in Nat /\ call[c].min \in Nat
  BY <1>1 DEF CallRecs
<1>3. Amount(c) \in Nat
  BY <1>2 DEF Amount
<1>4. Capacity \in Nat /\ MaxBuf \in Nat
  BY SizesAssumption
<1> QED
  BY <1>1, <1>2, <1>3, <1>4 DEF Want, Most, Least

(* What read_at_least gives the caller of the run of bytes it has read: a  *)
(* prefix of it, and what is left over fits in what the BufReader held     *)
(* beyond the amount that was asked for.                                   *)
LEMMA DeliversFacts ==
    ASSUME CallsTyped, NEW c \in Calls, NEW bytes, Run(c, bytes)
    PROVE  LET got == Delivers(c, bytes).got
           IN /\ Delivers(c, bytes) \in Outcomes /\ Delivers(c, bytes).kind = "returned"
              /\ got \subseteq bytes
              /\ \A b \in got, m \in bytes \ got : b < m
              /\ Cardinality(bytes \ got) <= Most(0, Capacity - Amount(c))
<1> DEFINE a == Amount(c)
           got == {b \in bytes : \A low \in bytes : b < low + a}
<1>1. PICK t, k \in Nat : k <= Want(c) /\ bytes = (t + 1) .. (t + k)
  BY DEF Run
<1>2. a \in Nat /\ Capacity \in Nat /\ (k <= Capacity \/ k <= a)
  BY <1>1, SizeTypes, SizesAssumption
<1>3. Delivers(c, bytes) = [kind |-> "returned", got |-> got, n |-> 0]
  BY DEF Delivers, Outcome
<1> HIDE DEF a
<1>4. \A b \in bytes : b \in got <=> b < t + 1 + a
  BY <1>1, <1>2
<1>5. got \in SUBSET Nat /\ got \subseteq bytes
  BY <1>1
<1> HIDE DEF got
<1>6. \A b \in got, m \in bytes \ got : b < m
  BY <1>1, <1>2, <1>4, <1>5
<1>7. bytes \ got = (t + 1 + a) .. (t + k)
  <2>1. ASSUME NEW b \in bytes \ got PROVE b \in (t + 1 + a) .. (t + k)
    BY <1>1, <1>2, <1>4
  <2>2. ASSUME NEW b \in (t + 1 + a) .. (t + k) PROVE b \in bytes \ got
    BY <1>1, <1>2, <1>4
  <2> QED
    BY <2>1, <2>2
<1>8. Cardinality(bytes \ got) = IF t + 1 + a > t + k THEN 0 ELSE (t + k) - (t + 1 + a) + 1
  <2>1. t + 1 + a \in Int /\ t + k \in Int
    BY <1>1, <1>2
  <2> QED
    BY <1>7, <2>1, FS_Interval
<1>9. (IF t + 1 + a > t + k THEN 0 ELSE (t + k) - (t + 1 + a) + 1) <= Most(0, Capacity - a)
  BY <1>1, <1>2 DEF Most
<1>10. Cardinality(bytes \ got) <= Most(0, Capacity - a)
  BY <1>8, <1>9
<1>11. Delivers(c, bytes) \in Outcomes
  BY <1>3, <1>5 DEF Outcomes
<1>12. Delivers(c, bytes).got = got /\ Delivers(c, bytes).kind = "returned"
  BY <1>3
<1> QED
  BY <1>5, <1>6, <1>10, <1>11, <1>12 DEF a

(* A chunk of a file ends within the data. *)
LEMMA ChunkEndFacts ==
    ASSUME CallsTyped, NEW c \in Calls
    PROVE  ChunkEnd(c) \in Int /\ ChunkEnd(c) <= call[c].len
<1>1. put[c] \in Nat /\ MaxBuf \in Nat \ {0}
  BY SizesAssumption DEF CallsTyped
<1>2. put[c] \div MaxBuf \in Int
  BY <1>1
<1>3. ((put[c] \div MaxBuf) + 1) * MaxBuf \in Int
  BY <1>1, <1>2
<1> QED
  BY <1>3, SizeTypes DEF ChunkEnd, Least

(* A call that is over keeps its arguments. *)
LEMMA OverFacts ==
    ASSUME CallsTyped, NEW c \in Calls, NEW state \in {"done", "panicked"}, NEW o \in Outcomes
    PROVE  LET r == Over(c, state, o)
           IN /\ r \in CallRecs /\ r.state = state /\ r.at = "none" /\ r.result = o
              /\ r.hook = call[c].hook /\ r.fd = call[c].fd
              /\ r.len = call[c].len /\ r.min = call[c].min
<1>1. call[c] \in CallRecs
  BY DEF CallsTyped
<1> QED
  BY <1>1 DEF Over, CallRecs

(* The outcomes without bytes. *)
LEMMA NothingFacts ==
    /\ \A kind \in {"none", "errno", "raised"} :
         Nothing(kind) \in Outcomes /\ Nothing(kind).kind = kind
    /\ \A n \in Nat : /\ Outcome("returned", {}, n) \in Outcomes
                      /\ Outcome("returned", {}, n).kind = "returned"
                      /\ Outcome("returned", {}, n).n = n
BY DEF Nothing, Outcome, Outcomes

-----------------------------------------------------------------------------
(* The descriptors.                                                        *)

(* the call stands where it stood, on the same descriptor *)
Stays(c) == /\ call'[c].state = call[c].state /\ call'[c].at = call[c].at
            /\ call'[c].fd = call[c].fd

(* Steps that leave descriptors and suspended futures alone. *)
LEMMA FdFrame ==
    ASSUME FdInv, UNCHANGED <<fdVars, overlapped>>, \A c \in Calls : Stays(c)
    PROVE  FdInv'
<1> USE DEF fdVars, Stays
<1>1. Guarded'
  BY DEF FdInv, Guarded, Fd
<1>2. Registered'
  BY DEF FdInv, Registered, Pending, Fd, OnFile
<1>3. Remembered' /\ FlagsRestoredUnlessOverlapped'
  BY DEF FdInv, Remembered, FlagsRestoredUnlessOverlapped
<1> QED
  BY <1>1, <1>2, <1>3 DEF FdInv

(* A guard's descriptor is the one of its call. *)
LEMMA GuardOf ==
    ASSUME Guarded, NEW g \in guards, NEW c \in Calls, g.owner = Owner(c)
    PROVE  g.fd = Fd(c) /\ call[c].at \in {"trying", "pool"}
BY OwnerFacts DEF Guarded

(* A descriptor is closed by the program. *)
LEMMA CloseStep ==
    ASSUME FdTyped, Shapes, FdInv, NEW fd \in Fds, Close(fd), UNCHANGED rwVars
    PROVE  FdTyped' /\ FdInv'
<1>1. /\ class' = class /\ guards' = guards /\ nonblock' = nonblock /\ given' = given
      /\ call' = call /\ overlapped' = overlapped
      /\ ~open'[fd]
      /\ \A f \in Fds : f # fd => open'[f] = open[f] /\ epoll'[f] = epoll[f]
  BY DEF Close, FdTyped, rwVars
<1>2. FdTyped'
  BY DEF Close, FdTyped, rwVars
<1>3. Guarded'
  BY <1>1 DEF FdInv, Guarded, Fd
<1>4. Registered'
  <2>1. \A c \in Calls : Pending(c) => Fd(c) \in Fds
    BY DEF Shapes, Shape, Pending
  <2> QED
    BY <1>1, <2>1 DEF FdInv, Registered, Pending, Fd, OnFile
<1>5. Remembered'
  BY <1>1 DEF FdInv, Remembered, FdTyped, GuardRecs
<1>6. FlagsRestoredUnlessOverlapped'
  BY <1>1 DEF FdInv, FlagsRestoredUnlessOverlapped
<1> QED
  BY <1>2, <1>3, <1>4, <1>5, <1>6 DEF FdInv

(* A descriptor is wrapped, for a call that begins on it or for nobody. *)
LEMMA WrapStep ==
    ASSUME FdTyped, Shapes, FdInv, NEW fd \in Fds, NEW owner \in OwnerSet \cup {Leaked},
           FromValueAndRawFd(fd, owner), overlapped' = overlapped,
           \A c \in Calls :
               \/ Stays(c)
               \/ /\ owner = Owner(c) /\ call[c].at = "none"
                  /\ call'[c].at = "made" /\ call'[c].fd = fd /\ Wraps(fd)
    PROVE  FdTyped' /\ FdInv'
<1>1. /\ held' = held /\ class' = class /\ nonblock' = nonblock /\ guards' = guards
      /\ given' = given
  BY DEF FromValueAndRawFd
<1>2. \A f \in Fds : f # fd => open'[f] = open[f] /\ epoll'[f] = epoll[f]
  BY DEF FromValueAndRawFd, FdTyped
<1>3. /\ ~IsSocket(fd) => open' = open /\ epoll' = epoll
      /\ IsSocket(fd) => /\ open'[fd] = Registers(fd)
                         /\ epoll'[fd] = IF Registers(fd) THEN owner ELSE NoOwner
  BY DEF FromValueAndRawFd, FdTyped
<1>4. FdTyped'
  <2>1. Registers(fd) \in BOOLEAN
    BY DEF Registers, FdTyped
  <2>2. open' \in [Fds -> BOOLEAN]
    BY <2>1 DEF FromValueAndRawFd, FdTyped
  <2>3. epoll' \in [Fds -> OwnerSet \cup {NoOwner, Leaked}]
    BY DEF FromValueAndRawFd, FdTyped
  <2> QED
    BY <1>1, <2>2, <2>3 DEF FdTyped
<1>5. \A f \in Fds : open'[f] => open[f]
  BY <1>2, <1>3 DEF Registers, FdTyped
<1>6. Guarded'
  <2>1. \A c \in Calls : call[c].at \in {"trying", "pool"} <=> call'[c].at \in {"trying", "pool"}
    BY DEF Stays
  <2>2. \A c \in Calls : call[c].at \in {"trying", "pool"} => call'[c].fd = call[c].fd
    BY DEF Stays
  <2> QED
    BY <1>1, <2>1, <2>2 DEF FdInv, Guarded, Fd
<1>7. Registered'
  <2> SUFFICES ASSUME NEW c \in Calls, Pending(c)', ~OnFile(c)', open'[Fd(c)']
               PROVE  epoll'[Fd(c)'] = Owner(c)
    BY DEF Registered, Owner
  <2>1. CASE Stays(c)
    <3>1. Fd(c) \in Fds /\ Fd(c)' = Fd(c) /\ Pending(c) /\ ~OnFile(c) /\ class[Fd(c)] # "other"
      BY <1>1, <2>1 DEF Stays, Shapes, Shape, Pending, Fd, OnFile
    <3>2. epoll[Fd(c)] = Owner(c)
      BY <1>5, <3>1 DEF FdInv, Registered
    <3>3. CASE Fd(c) = fd
      <4>1. IsSocket(fd)
        BY <3>1, <3>3, ClassesAssumption DEF IsSocket, OnFile, FdTyped
      <4> QED
        BY <1>3, <3>1, <3>2, <3>3, <4>1, OwnerFacts DEF Registers
    <3> QED
      BY <1>2, <3>1, <3>2, <3>3
  <2>2. CASE ~Stays(c)
    <3>1. owner = Owner(c) /\ Fd(c)' = fd /\ Wraps(fd) /\ class[fd] # "file"
      BY <1>1, <2>2 DEF Fd, OnFile
    <3> QED
      BY <1>3, <3>1 DEF Wraps
  <2> QED
    BY <2>1, <2>2
<1>8. Remembered' /\ FlagsRestoredUnlessOverlapped'
  BY <1>1, <1>5 DEF FdInv, Remembered, FlagsRestoredUnlessOverlapped, FdTyped, GuardRecs
<1> QED
  BY <1>4, <1>6, <1>7, <1>8 DEF FdInv

(* The futures of some calls end: guards put back, streams forgotten. *)
LEMMA DropStep ==
    ASSUME FdTyped, Shapes, FdInv, NEW S \in SUBSET Calls,
           DropGuards({g \in guards : \E c \in S : g.owner = Owner(c)}),
           DropRubyIo({Owner(c) : c \in S}),
           UNCHANGED <<held, class, given, overlapped>>,
           \A c \in Calls : IF c \in S THEN call'[c].at = "none" /\ ~Pending(c)' ELSE Stays(c)
    PROVE  FdTyped' /\ FdInv'
<1> DEFINE dropped == {g \in guards : \E c \in S : g.owner = Owner(c)}
           owners == {Owner(c) : c \in S}
<1>1. guards' = guards \ dropped
  BY DEF DropGuards
<1>2. nonblock' \in [Fds -> BOOLEAN] /\ \A fd \in Fds : nonblock'[fd] \in FlagsAfter(fd, dropped)
  BY DEF DropGuards
<1>3. open' = open /\ epoll' = [fd \in Fds |-> IF epoll[fd] \in owners THEN Leaked ELSE epoll[fd]]
  BY DEF DropRubyIo
<1>4. FdTyped'
  BY <1>1, <1>2, <1>3 DEF FdTyped
<1>5. Guarded'
  <2>1. ASSUME NEW g \in guards'
        PROVE  \E c \in Calls : /\ g.owner = Owner(c) /\ g.fd = call'[c].fd
                                /\ call'[c].at \in {"trying", "pool"}
    <3>1. PICK c \in Calls : g.owner = Owner(c) /\ g.fd = Fd(c) /\ call[c].at \in {"trying", "pool"}
      BY <1>1 DEF FdInv, Guarded
    <3>2. c \notin S
      BY <1>1, <3>1
    <3> QED
      BY <3>1, <3>2 DEF Stays, Fd
  <2>2. ASSUME NEW c \in Calls, call'[c].at \in {"trying", "pool"}
        PROVE  \E g \in guards' : g.owner = Owner(c)
    <3>1. c \notin S /\ call[c].at \in {"trying", "pool"}
      BY <2>2 DEF Stays
    <3>2. PICK g \in guards : g.owner = Owner(c)
      BY <3>1 DEF FdInv, Guarded
    <3>3. g \notin dropped
      BY <3>1, <3>2, OwnerFacts
    <3> QED
      BY <1>1, <3>2, <3>3
  <2> QED
    BY <2>1, <2>2 DEF Guarded, Fd, Owner
<1>6. Registered'
  <2> SUFFICES ASSUME NEW c \in Calls, Pending(c)', ~OnFile(c)', open'[Fd(c)']
               PROVE  epoll'[Fd(c)'] = Owner(c)
    BY DEF Registered, Owner
  <2>1. c \notin S /\ Stays(c)
    OBVIOUS
  <2>2. Fd(c)' = Fd(c) /\ Pending(c) /\ ~OnFile(c) /\ open[Fd(c)]
    BY <1>3, <2>1 DEF Stays, Pending, Fd, OnFile
  <2>3. Fd(c) \in Fds
    BY <2>2 DEF Shapes, Shape, Pending
  <2>4. epoll[Fd(c)] = Owner(c)
    BY <2>2 DEF FdInv, Registered
  <2>5. Owner(c) \notin owners
    BY <2>1, OwnerFacts
  <2> QED
    BY <1>3, <2>2, <2>3, <2>4, <2>5
<1>7. Remembered'
  BY <1>1, <1>3 DEF FdInv, Remembered
<1>8. FlagsRestoredUnlessOverlapped'
  <2> SUFFICES ASSUME NEW fd \in Fds, open[fd], \A g \in guards' : g.fd # fd,
                      ~(class[fd] = "file" /\ overlapped[fd])
               PROVE  nonblock'[fd] = given[fd]
    BY <1>3 DEF FlagsRestoredUnlessOverlapped
  <2> DEFINE mine == {g \in dropped : g.fd = fd}
  <2>1. CASE mine = {}
    <3>1. \A g \in guards : g.fd # fd
      BY <1>1, <2>1
    <3>2. nonblock'[fd] = nonblock[fd]
      BY <1>2, <2>1 DEF FlagsAfter
    <3> QED
      BY <3>1, <3>2 DEF FdInv, FlagsRestoredUnlessOverlapped
  <2>2. CASE mine # {}
    <3>1. nonblock'[fd] \in {g.old_flags : g \in mine}
      BY <1>2, <2>2 DEF FlagsAfter
    <3>2. \A g \in mine : g.old_flags = given[fd]
      BY DEF FdInv, Remembered
    <3> QED
      BY <3>1, <3>2
  <2> QED
    BY <2>1, <2>2
<1> QED
  BY <1>4, <1>5, <1>6, <1>7, <1>8 DEF FdInv

(* The first poll takes the guard. Unless another call of the same file    *)
(* holds one, it reads the flags that the program gave.                    *)
LEMMA GuardStep ==
    ASSUME FdTyped, Shapes, FdInv, NEW c \in Calls, Pending(c), call[c].at = "made",
           WithNonblock(Fd(c), Owner(c)),
           overlapped' = [overlapped EXCEPT ![Fd(c)] = @ \/ \E g \in guards : g.fd = Fd(c)],
           UNCHANGED <<open, held, class, epoll, given>>,
           call'[c].state = call[c].state, call'[c].fd = call[c].fd,
           call'[c].at \in {"trying", "pool"},
           \A d \in Calls : d # c => Stays(d)
    PROVE  FdTyped' /\ FdInv'
<1>0. PICK fd \in Fds : fd = Fd(c)
  BY DEF Shapes, Shape, Pending
<1> DEFINE new == Guard(Owner(c), fd)
<1>1. open[fd] /\ guards' = guards \cup {new} /\ nonblock' = [nonblock EXCEPT ![fd] = TRUE]
  BY <1>0 DEF WithNonblock
<1>2. new \in GuardRecs /\ new.owner = Owner(c) /\ new.fd = fd /\ new.old_flags = nonblock[fd]
  BY <1>0 DEF Guard, GuardRecs, OwnerSet, FdTyped
<1> HIDE DEF new
<1>3. /\ \A f \in Fds : f # fd => overlapped'[f] = overlapped[f]
      /\ ~overlapped'[fd] => ~overlapped[fd] /\ \A g \in guards : g.fd # fd
      /\ overlapped' \in [Fds -> BOOLEAN]
  BY <1>0 DEF FdTyped
<1>4. FdTyped'
  BY <1>1, <1>2, <1>3 DEF FdTyped
<1>5. ASSUME ~(class[fd] = "file" /\ overlapped'[fd])
      PROVE  nonblock[fd] = given[fd]
  <2>1. \A g \in guards : g.fd # fd
    <3>1. CASE class[fd] = "file"
      BY <1>3, <1>5, <3>1
    <3>2. CASE class[fd] # "file"
      <4>1. epoll[fd] = Owner(c)
        BY <1>0, <1>1, <3>2 DEF FdInv, Registered, OnFile
      <4>2. ASSUME NEW g \in guards, g.fd = fd PROVE FALSE
        <5>1. PICK d \in Calls : g.owner = Owner(d) /\ Fd(d) = fd /\ call[d].at \in {"trying", "pool"}
          BY <4>2 DEF FdInv, Guarded
        <5>2. Pending(d)
          BY <5>1 DEF Shapes, Shape
        <5>3. epoll[fd] = Owner(d)
          BY <1>1, <3>2, <5>1, <5>2 DEF FdInv, Registered, OnFile
        <5> QED
          BY <4>1, <5>1, <5>3, OwnerFacts
      <4> QED
        BY <4>2
    <3> QED
      BY <3>1, <3>2
  <2> QED
    BY <1>1, <1>3, <1>5, <2>1 DEF FdInv, FlagsRestoredUnlessOverlapped, FdTyped
<1>6. Guarded'
  <2>1. ASSUME NEW g \in guards'
        PROVE  \E d \in Calls : /\ g.owner = Owner(d) /\ g.fd = call'[d].fd
                                /\ call'[d].at \in {"trying", "pool"}
    <3>1. CASE g = new
      BY <1>0, <1>2, <3>1 DEF Fd
    <3>2. CASE g \in guards
      <4>1. PICK d \in Calls : g.owner = Owner(d) /\ g.fd = Fd(d) /\ call[d].at \in {"trying", "pool"}
        BY <3>2 DEF FdInv, Guarded
      <4> QED
        BY <4>1 DEF Stays, Fd
    <3> QED
      BY <1>1, <3>1, <3>2
  <2>2. ASSUME NEW d \in Calls, call'[d].at \in {"trying", "pool"}
        PROVE  \E g \in guards' : g.owner = Owner(d)
    <3>1. CASE d = c
      BY <1>1, <1>2, <3>1
    <3>2. CASE d # c
      BY <1>1, <2>2, <3>2 DEF Stays, FdInv, Guarded
    <3> QED
      BY <3>1, <3>2
  <2> QED
    BY <2>1, <2>2 DEF Guarded, Fd, Owner
<1>7. Registered'
  <2>1. \A d \in Calls : call'[d].state = call[d].state /\ call'[d].fd = call[d].fd
    BY DEF Stays
  <2> QED
    BY <2>1 DEF FdInv, Registered, Pending, Fd, OnFile
<1>8. Remembered'
  <2> SUFFICES ASSUME NEW g \in guards', open[g.fd],
                      ~(class[g.fd] = "file" /\ overlapped'[g.fd])
               PROVE  g.old_flags = given[g.fd]
    BY DEF Remembered
  <2>1. CASE g = new
    BY <1>2, <1>5, <2>1
  <2>2. CASE g \in guards
    <3>1. g.fd \in Fds
      BY <2>2 DEF FdTyped, GuardRecs
    <3>2. ~(class[g.fd] = "file" /\ overlapped[g.fd])
      BY <1>3, <2>2, <3>1
    <3> QED
      BY <2>2, <3>2 DEF FdInv, Remembered
  <2> QED
    BY <1>1, <2>1, <2>2
<1>9. FlagsRestoredUnlessOverlapped'
  BY <1>1, <1>2, <1>3 DEF FdInv, FlagsRestoredUnlessOverlapped, FdTyped
<1> QED
  BY <1>4, <1>6, <1>7, <1>8, <1>9 DEF FdInv

-----------------------------------------------------------------------------
(* The calls.                                                              *)

(* what ReadTakesNoMore and WriteReturnsWhenWritten say of one call *)
ReadOK(c) ==
    LET got == call[c].result.got
    IN /\ ~Pending(c) /\ ~OnFile(c) /\ call[c].result.kind # "returned" => took[c] = {}
       /\ call[c].result.kind = "returned" /\ call[c].hook = "io_read" =>
            /\ got \subseteq took[c]
            /\ \A b \in got, m \in took[c] \ got : b < m
            /\ Cardinality(took[c] \ got) <= Most(0, Capacity - Amount(c))

WriteOK(c) ==
    call[c].hook = "io_write" /\ call[c].result.kind = "returned" =>
        put[c] = call[c].len /\ call[c].result.n = put[c]

CallInv(c) == Shape(c) /\ ReadOK(c) /\ WriteOK(c)

(* The invariants of the calls, taken call by call. *)
LEMMA CallInvs == (Shapes /\ ReadTakesNoMore /\ WriteReturnsWhenWritten) <=> \A c \in Calls : CallInv(c)
BY DEF Shapes, ReadTakesNoMore, WriteReturnsWhenWritten, CallInv, ReadOK, WriteOK

(* The invariant, taken apart. *)
LEMMA IInvSplit == IInv <=> (FdTyped /\ Counts /\ CallsTyped /\ FdInv /\ \A c \in Calls : CallInv(c))
BY CallInvs DEF IInv, Typed

(* How much a read wants depends on its arguments and on what it reads. *)
LEMMA WantFrame ==
    ASSUME NEW c \in Calls, call'[c].len = call[c].len, call'[c].min = call[c].min,
           call'[c].fd = call[c].fd, class' = class
    PROVE  Want(c)' = Want(c) /\ Amount(c)' = Amount(c)
BY DEF Want, Amount, OnFile, Fd

(* The descriptors only ever give more bytes, and keep their class. *)
Flows == class' = class /\ \A fd \in Fds : taken[fd] <= taken'[fd]

(* A call that a step does not concern keeps its invariant. *)
LEMMA CallFrame ==
    ASSUME Counts, Counts', Flows, NEW c \in Calls, CallInv(c),
           call'[c] = call[c], op'[c] = op[c], took'[c] = took[c], put'[c] = put[c]
    PROVE  CallInv(c)'
<1>1. /\ Pending(c)' = Pending(c) /\ Fd(c)' = Fd(c) /\ OnFile(c)' = OnFile(c)
      /\ Want(c)' = Want(c) /\ Amount(c)' = Amount(c)
  BY WantFrame DEF Pending, Fd, OnFile, Flows
<1>2. ReadOK(c)' /\ WriteOK(c)'
  BY <1>1 DEF CallInv, ReadOK, WriteOK
<1>3. Run(c, took[c])'
  BY <1>1 DEF CallInv, Shape, Run
<1>4. ASSUME call[c].state # "idle" PROVE took'[c] \subseteq 1 .. taken'[Fd(c)]
  <2>1. Fd(c) \in Fds /\ took[c] \subseteq 1 .. taken[Fd(c)]
    BY <1>4 DEF CallInv, Shape
  <2>2. taken[Fd(c)] \in Nat /\ taken'[Fd(c)] \in Nat /\ taken[Fd(c)] <= taken'[Fd(c)]
    BY <2>1 DEF Counts, Flows
  <2> QED
    BY <2>1, <2>2
<1>5. Shape(c)'
  BY <1>1, <1>3, <1>4 DEF CallInv, Shape, Flows
<1> QED
  BY <1>2, <1>5 DEF CallInv

(* A step of one call. *)
LEMMA OneCall ==
    ASSUME IInv, NEW c \in Calls, FdTyped', FdInv', Counts', CallsTyped', Flows,
           \A d \in Calls : d # c => /\ call'[d] = call[d] /\ op'[d] = op[d]
                                    /\ took'[d] = took[d] /\ put'[d] = put[d],
           CallInv(c)'
    PROVE  IInv'
<1>1. \A d \in Calls : CallInv(d)'
  <2> SUFFICES ASSUME NEW d \in Calls, d # c PROVE CallInv(d)'
    OBVIOUS
  <2>1. Counts /\ CallInv(d)
    BY IInvSplit
  <2> QED
    BY <2>1, CallFrame
<1>2. Shapes' /\ ReadTakesNoMore' /\ WriteReturnsWhenWritten'
  BY <1>1 DEF Shapes, ReadTakesNoMore, WriteReturnsWhenWritten, CallInv, ReadOK, WriteOK
<1> QED
  BY <1>2 DEF IInv, Typed

(* A call that ends without an answer: it has taken nothing from a socket, *)
(* and leaves at most a running operation behind.                          *)
LEMMA GivenUp ==
    ASSUME Typed, Flows, NEW c \in Calls, CallInv(c), Pending(c),
           NEW state \in {"done", "panicked"}, NEW o \in Outcomes, o.kind # "returned",
           call'[c] = Over(c, state, o), took'[c] = took[c], put'[c] = put[c], taken' = taken,
           op'[c] = "none" \/ (op'[c] = op[c] /\ op[c] \in {"none", "running"})
    PROVE  CallInv(c)'
<1> DEFINE r == Over(c, state, o)
<1>1. /\ r \in CallRecs /\ r.state = state /\ r.at = "none" /\ r.result = o
      /\ r.hook = call[c].hook /\ r.fd = call[c].fd
      /\ r.len = call[c].len /\ r.min = call[c].min
  BY OverFacts DEF Typed
<1> HIDE DEF r
<1>2. call'[c] = r
  BY DEF r
<1>3. /\ ~Pending(c)' /\ Fd(c)' = Fd(c) /\ OnFile(c)' = OnFile(c)
      /\ Want(c)' = Want(c) /\ Amount(c)' = Amount(c)
  BY <1>1, <1>2, WantFrame DEF Pending, Fd, OnFile, Flows
<1>4. Shape(c) /\ call[c].state # "idle"
  BY DEF CallInv, Pending
<1>5. Run(c, took[c])'
  BY <1>3, <1>4 DEF Shape, Run
<1>6. Shape(c)'
  BY <1>1, <1>2, <1>3, <1>4, <1>5 DEF Shape
<1>7. ReadOK(c)'
  <2>1. ASSUME ~OnFile(c) PROVE took[c] = {}
    <3>1. call[c] \in CallRecs
      BY DEF Typed, CallsTyped
    <3> QED
      BY <1>4, <2>1, <3>1 DEF Shape, CallRecs
  <2> QED
    BY <1>1, <1>2, <1>3, <2>1 DEF ReadOK
<1>8. WriteOK(c)'
  BY <1>1, <1>2 DEF WriteOK
<1> QED
  BY <1>6, <1>7, <1>8 DEF CallInv

(* Ends drops the guard and the stream of one call. *)
LEMMA EndsFd ==
    ASSUME IInv, NEW c \in Calls, NEW state \in {"done", "panicked"}, NEW o \in Outcomes,
           Ends(c, state, o)
    PROVE  /\ FdTyped' /\ FdInv' /\ class' = class
           /\ call' \in [Calls -> CallRecs] /\ call'[c] = Over(c, state, o)
           /\ \A d \in Calls : d # c => call'[d] = call[d]
<1>1. Over(c, state, o) \in CallRecs /\ Over(c, state, o).at = "none" /\ Over(c, state, o).state = state
  BY OverFacts DEF IInv, Typed
<1>2. /\ call' \in [Calls -> CallRecs] /\ call'[c] = Over(c, state, o)
      /\ \A d \in Calls : d # c => call'[d] = call[d]
  BY <1>1 DEF Ends, IInv, Typed, CallsTyped
<1>3. GuardsOf(c) = {g \in guards : \E d \in {c} : g.owner = Owner(d)}
  BY DEF GuardsOf
<1>4. {Owner(c)} = {Owner(d) : d \in {c}}
  OBVIOUS
<1>5. /\ DropGuards({g \in guards : \E d \in {c} : g.owner = Owner(d)})
      /\ DropRubyIo({Owner(d) : d \in {c}})
      /\ UNCHANGED <<held, class, given, overlapped>>
  BY <1>3, <1>4 DEF Ends
<1>6. \A d \in Calls : IF d \in {c} THEN call'[d].at = "none" /\ ~Pending(d)' ELSE Stays(d)
  BY <1>1, <1>2 DEF Stays, Pending
<1>7. FdTyped' /\ FdInv'
  BY <1>5, <1>6, DropStep DEF IInv, Typed
<1> QED
  BY <1>2, <1>5, <1>7

(* Every way to end without an answer. *)
LEMMA EndsNothing ==
    ASSUME IInv, NEW c \in Calls, Pending(c), NEW state \in {"done", "panicked"},
           NEW kind \in {"none", "errno", "raised"}, Ends(c, state, Nothing(kind)),
           op[c] \in {"none", "running"}, UNCHANGED <<op, taken, room, took, put>>
    PROVE  IInv'
<1>1. Nothing(kind) \in Outcomes /\ Nothing(kind).kind # "returned"
  BY NothingFacts
<1>2. /\ FdTyped' /\ FdInv' /\ class' = class
      /\ call' \in [Calls -> CallRecs] /\ call'[c] = Over(c, state, Nothing(kind))
      /\ \A d \in Calls : d # c => call'[d] = call[d]
  BY <1>1, EndsFd
<1>3. Counts' /\ Flows
  BY <1>2 DEF IInv, Typed, Counts, Flows, Ends
<1>4. CallsTyped'
  BY <1>2 DEF IInv, Typed, CallsTyped
<1>5. Typed /\ CallInv(c)
  BY IInvSplit DEF IInv
<1>6. CallInv(c)'
  BY <1>1, <1>2, <1>3, <1>5, GivenUp
<1> QED
  BY <1>2, <1>3, <1>4, <1>6, OneCall

-----------------------------------------------------------------------------
(* The actions.                                                            *)

(* The peer sends, ends its stream, or reads; or Ruby closes the number. *)
LEMMA OutsideStep ==
    ASSUME IInv, NEW fd \in Fds, Peer(fd) \/ (Close(fd) /\ UNCHANGED rwVars)
    PROVE  IInv'
<1> USE DEF IInv, Typed
<1>1. /\ call' = call /\ op' = op /\ took' = took /\ put' = put /\ taken' = taken
      /\ overlapped' = overlapped
  BY DEF Peer, PeerSends, PeerEnds, PeerReads, rwVars
<1>2. class' = class
  BY DEF Peer, PeerSends, PeerEnds, PeerReads, fdVars, Close
<1>3. FdTyped' /\ FdInv'
  <2>1. CASE Peer(fd)
    <3>1. UNCHANGED <<fdVars, overlapped>>
      BY <2>1 DEF Peer, PeerSends, PeerEnds, PeerReads
    <3>2. FdTyped'
      BY <3>1 DEF FdTyped, fdVars
    <3> QED
      BY <1>1, <3>1, <3>2, FdFrame DEF Stays
  <2>2. CASE Close(fd) /\ UNCHANGED rwVars
    BY <2>2, CloseStep
  <2> QED
    BY <2>1, <2>2
<1>4. Counts'
  <2>1. CASE PeerSends(fd)
    <3>1. PICK n \in 1 .. MaxBytes - sent[fd] : sent' = [sent EXCEPT ![fd] = @ + n]
      BY <2>1 DEF PeerSends
    <3>2. MaxBytes \in Nat /\ sent[fd] \in 0 .. MaxBytes
      BY SizesAssumption DEF Counts
    <3>3. sent[fd] + n \in 0 .. MaxBytes /\ sent[fd] <= sent[fd] + n
      BY <3>1, <3>2
    <3>4. sent' \in [Fds -> 0 .. MaxBytes] /\ \A f \in Fds : sent[f] <= sent'[f]
      BY <3>1, <3>2, <3>3 DEF Counts
    <3>5. \A f \in Fds : taken'[f] <= sent'[f]
      BY <1>1, <3>4, <3>2 DEF Counts
    <3> QED
      BY <1>1, <2>1, <3>4, <3>5 DEF PeerSends, Counts
  <2>2. CASE PeerEnds(fd)
    BY <2>2 DEF PeerEnds, Counts
  <2>3. CASE PeerReads(fd)
    BY <2>3, SizesAssumption DEF PeerReads, Counts
  <2>4. CASE Close(fd) /\ UNCHANGED rwVars
    BY <2>4 DEF rwVars, Counts
  <2> QED
    BY <2>1, <2>2, <2>3, <2>4 DEF Peer
<1>5. CallsTyped' /\ Flows
  BY <1>1, <1>2 DEF CallsTyped, Flows, Counts
<1>6. \A c \in Calls : CallInv(c)'
  <2> SUFFICES ASSUME NEW c \in Calls PROVE CallInv(c)'
    OBVIOUS
  <2>1. CallInv(c)
    BY IInvSplit
  <2> QED
    BY <1>1, <1>4, <1>5, <2>1, CallFrame
<1>7. Shapes' /\ ReadTakesNoMore' /\ WriteReturnsWhenWritten'
  BY <1>6 DEF Shapes, ReadTakesNoMore, WriteReturnsWhenWritten, CallInv, ReadOK, WriteOK
<1> QED
  BY <1>3, <1>4, <1>5, <1>7

(* io_read and io_write begin. *)
LEMMA BeginsStep ==
    ASSUME IInv, NEW c \in Calls, NEW hook \in {"io_read", "io_write"}, Begins(c, hook)
    PROVE  IInv'
<1> USE DEF IInv, Typed
<1>1. PICK fd \in Fds, len \in Lens, min \in Mins :
        /\ Wraps(fd) /\ FromValueAndRawFd(fd, Owner(c))
        /\ call' = [call EXCEPT ![c] =
             [Idle EXCEPT !.state = "pending", !.hook = hook, !.fd = fd, !.len = len,
                          !.min = min, !.at = "made"]]
  BY DEF Begins
<1> DEFINE r == [Idle EXCEPT !.state = "pending", !.hook = hook, !.fd = fd, !.len = len,
                             !.min = min, !.at = "made"]
<1>2. len \in Nat /\ min \in Nat
  BY SizesAssumption
<1>3. /\ r.state = "pending" /\ r.hook = hook /\ r.fd = fd /\ r.len = len /\ r.min = min
      /\ r.at = "made" /\ r.result = Nothing("none")
  BY DEF Idle
<1>4. Nothing("none") \in Outcomes /\ Nothing("none").kind = "none"
  BY NothingFacts
<1>5. r \in CallRecs
  BY <1>2, <1>4 DEF Idle, CallRecs
<1>6. call' = [call EXCEPT ![c] = r]
  BY <1>1
<1> HIDE DEF r
<1>7. call' \in [Calls -> CallRecs] /\ call'[c] = r /\ \A d \in Calls : d # c => call'[d] = call[d]
  BY <1>5, <1>6 DEF CallsTyped
<1>8. /\ op' = op /\ sent' = sent /\ taken' = taken /\ eof' = eof /\ room' = room
      /\ took' = took /\ put' = put /\ overlapped' = overlapped /\ class' = class
  BY <1>1 DEF Begins, FromValueAndRawFd
<1>9. call[c].state = "idle" /\ Shape(c)
  BY DEF Begins, Shapes
<1>10. FdTyped' /\ FdInv'
  <2>1. call[c].at = "none"
    BY <1>9 DEF Shape, Pending
  <2>2. \A d \in Calls : \/ Stays(d)
                         \/ /\ Owner(c) = Owner(d) /\ call[d].at = "none"
                            /\ call'[d].at = "made" /\ call'[d].fd = fd /\ Wraps(fd)
    BY <1>1, <1>3, <1>7, <2>1 DEF Stays
  <2>3. Owner(c) \in OwnerSet
    BY DEF OwnerSet
  <2> QED
    BY <1>1, <1>8, <2>2, <2>3, WrapStep
<1>11. Counts' /\ Flows /\ CallsTyped'
  BY <1>7, <1>8 DEF Counts, Flows, CallsTyped
<1>12. took[c] = {} /\ put[c] = 0 /\ op[c] = "none"
  BY <1>9 DEF Shape
<1>13. Run(c, took[c])'
  <2>1. Want(c)' \in Nat
    BY <1>2, <1>3, <1>7, SizesAssumption DEF Want, Amount, Most, Least
  <2>2. took'[c] = (0 + 1) .. (0 + 0)
    BY <1>8, <1>12
  <2> QED
    BY <2>1, <2>2 DEF Run
<1>14. class[fd] # "other"
  BY <1>1 DEF Wraps, IsSocket
<1>15. Shape(c)'
  BY <1>2, <1>3, <1>4, <1>7, <1>8, <1>12, <1>13, <1>14 DEF Shape, Pending, Fd, OnFile
<1>16. ReadOK(c)' /\ WriteOK(c)'
  BY <1>3, <1>4, <1>7 DEF ReadOK, WriteOK, Pending
<1> QED
  BY <1>7, <1>8, <1>10, <1>11, <1>15, <1>16, OneCall DEF CallInv

(* A hook raises; its descriptor may have been wrapped. *)
LEMMA HookRaisesStep ==
    ASSUME IInv, NEW c \in Calls, HookRaises(c)
    PROVE  IInv'
<1> USE DEF IInv, Typed
<1>1. PICK fd \in Fds : UNCHANGED fdVars \/ FromValueAndRawFd(fd, Leaked)
  BY DEF HookRaises
<1>2. /\ call' = call /\ op' = op /\ sent' = sent /\ taken' = taken /\ eof' = eof /\ room' = room
      /\ took' = took /\ put' = put /\ overlapped' = overlapped
  BY DEF HookRaises, rwVars
<1>3. class' = class
  BY <1>1 DEF fdVars, FromValueAndRawFd
<1>4. FdTyped' /\ FdInv'
  <2>1. \A d \in Calls : Stays(d)
    BY <1>2 DEF Stays
  <2>2. CASE UNCHANGED fdVars
    <3>1. FdTyped'
      BY <1>2, <2>2 DEF FdTyped, fdVars
    <3> QED
      BY <1>2, <2>1, <2>2, <3>1, FdFrame
  <2>3. CASE FromValueAndRawFd(fd, Leaked)
    BY <1>2, <2>1, <2>3, WrapStep
  <2> QED
    BY <1>1, <2>2, <2>3
<1>5. Counts' /\ Flows /\ CallsTyped'
  BY <1>2, <1>3 DEF Counts, Flows, CallsTyped
<1>6. CallInv(c)'
  <2>1. CallInv(c)
    BY IInvSplit
  <2> QED
    BY <1>2, <1>5, <2>1, CallFrame
<1> QED
  BY <1>2, <1>4, <1>5, <1>6, OneCall

(* The first poll of a call that can go on. *)
LEMMA PollStartsStep ==
    ASSUME IInv, NEW c \in Calls, PollStarts(c)
    PROVE  IInv'
<1> USE DEF IInv, Typed
<1>1. Pending(c) /\ call[c].at = "made" /\ class[Fd(c)] # "udp" /\ Shape(c) /\ CallInv(c)
  BY IInvSplit DEF PollStarts, CallInv
<1> DEFINE at == IF OnFile(c) THEN "pool" ELSE "trying"
           r == [call[c] EXCEPT !.at = at]
<1>2. call' = [call EXCEPT ![c] = r]
  BY DEF PollStarts, Moves
<1>3. call[c] \in CallRecs
  BY DEF CallsTyped
<1>4. /\ r \in CallRecs /\ r.state = call[c].state /\ r.hook = call[c].hook /\ r.fd = call[c].fd
      /\ r.len = call[c].len /\ r.min = call[c].min /\ r.result = call[c].result
      /\ r.at = IF OnFile(c) THEN "pool" ELSE "trying"
  BY <1>3 DEF CallRecs
<1> HIDE DEF r
<1>5. call' \in [Calls -> CallRecs] /\ call'[c] = r /\ \A d \in Calls : d # c => call'[d] = call[d]
  BY <1>2, <1>4 DEF CallsTyped
<1>6. /\ sent' = sent /\ taken' = taken /\ eof' = eof /\ room' = room /\ took' = took
      /\ put' = put /\ class' = class
      /\ op' = [op EXCEPT ![c] = IF OnFile(c) THEN "running" ELSE "none"]
  BY DEF PollStarts
<1>7. FdTyped' /\ FdInv'
  <2>1. \A d \in Calls : d # c => Stays(d)
    BY <1>5 DEF Stays
  <2>2. /\ WithNonblock(Fd(c), Owner(c)) /\ UNCHANGED <<open, held, class, epoll, given>>
        /\ overlapped' = [overlapped EXCEPT ![Fd(c)] = @ \/ \E g \in guards : g.fd = Fd(c)]
    BY DEF PollStarts
  <2> QED
    BY <1>1, <1>4, <1>5, <2>1, <2>2, GuardStep
<1>8. Counts' /\ Flows /\ CallsTyped'
  BY <1>5, <1>6 DEF Counts, Flows, CallsTyped
<1>9. /\ Pending(c)' /\ Fd(c)' = Fd(c) /\ OnFile(c)' = OnFile(c)
      /\ Want(c)' = Want(c) /\ Amount(c)' = Amount(c)
  BY <1>1, <1>4, <1>5, <1>6, WantFrame DEF Pending, Fd, OnFile
<1>10. Run(c, took[c])'
  BY <1>1, <1>6, <1>9 DEF Shape, Run
<1>11. op'[c] = IF OnFile(c) THEN "running" ELSE "none"
  BY <1>6 DEF CallsTyped
<1>12. Shape(c)'
  BY <1>1, <1>4, <1>5, <1>6, <1>9, <1>10, <1>11 DEF Shape, Pending
<1>13. ReadOK(c)' /\ WriteOK(c)'
  BY <1>1, <1>4, <1>5, <1>9 DEF Shape, ReadOK, WriteOK
<1>14. \A d \in Calls : d # c => op'[d] = op[d]
  BY <1>6 DEF CallsTyped
<1> QED
  BY <1>5, <1>6, <1>7, <1>8, <1>12, <1>13, <1>14, OneCall DEF CallInv

(* One read(2): the next bytes of the descriptor, at most Want(c). *)
LEMMA ReadsFacts ==
    ASSUME Typed, NEW c \in Calls, Fd(c) \in Fds, Reads(c)
    PROVE  /\ taken' \in [Fds -> Nat] /\ \A fd \in Fds : taken[fd] <= taken'[fd] /\ taken'[fd] <= sent[fd]
           /\ took' \in [Calls -> SUBSET Nat] /\ \A d \in Calls : d # c => took'[d] = took[d]
           /\ took'[c] \subseteq 1 .. taken'[Fd(c)]
           /\ Run(c, took'[c])
<1> USE DEF Typed
<1>1. PICK fd \in Fds : fd = Fd(c)
  OBVIOUS
<1> DEFINE k == Least(Want(c), sent[fd] - taken[fd])
<1>2. Want(c) \in Nat /\ sent[fd] \in Nat /\ taken[fd] \in Nat /\ taken[fd] <= sent[fd]
  BY SizeTypes DEF Counts
<1>3. k \in Nat /\ k <= Want(c) /\ taken[fd] + k <= sent[fd]
  BY <1>2 DEF Least
<1>4. /\ taken' = [taken EXCEPT ![fd] = @ + k]
      /\ took' = [took EXCEPT ![c] = taken[fd] + 1 .. taken[fd] + k]
  BY <1>1 DEF Reads
<1> HIDE DEF k
<1>5. taken'[fd] = taken[fd] + k /\ took'[c] = (taken[fd] + 1) .. (taken[fd] + k)
  BY <1>4 DEF Counts, CallsTyped
<1>6. taken' \in [Fds -> Nat] /\ \A f \in Fds : taken[f] <= taken'[f] /\ taken'[f] <= sent[f]
  BY <1>2, <1>3, <1>4 DEF Counts
<1>7. (taken[fd] + 1) .. (taken[fd] + k) \in SUBSET Nat
  BY <1>2, <1>3
<1>8. took' \in [Calls -> SUBSET Nat] /\ \A d \in Calls : d # c => took'[d] = took[d]
  BY <1>4, <1>7 DEF CallsTyped
<1>9. took'[c] \subseteq 1 .. taken'[fd]
  BY <1>2, <1>3, <1>5
<1>10. Run(c, took'[c])
  BY <1>2, <1>3, <1>5 DEF Run
<1> QED
  BY <1>1, <1>6, <1>8, <1>9, <1>10

(* One write(2): what the kernel has room for, and no more than is left. *)
LEMMA WritesFacts ==
    ASSUME Typed, NEW c \in Calls, Fd(c) \in Fds, NEW n \in Int, put[c] + n <= call[c].len,
           Writes(c, n)
    PROVE  /\ room' \in [Fds -> 0 .. Room]
           /\ put' \in [Calls -> Nat] /\ \A d \in Calls : d # c => put'[d] = put[d]
           /\ put'[c] <= call[c].len
<1> USE DEF Typed
<1>1. PICK fd \in Fds : fd = Fd(c)
  OBVIOUS
<1> DEFINE k == Least(room[fd], n)
<1>2. room[fd] \in 0 .. Room /\ Room \in Nat /\ put[c] \in Nat /\ call[c].len \in Nat
  BY SizesAssumption, SizeTypes DEF Counts, CallsTyped
<1>3. k > 0 /\ room' = [room EXCEPT ![fd] = @ - k] /\ put' = [put EXCEPT ![c] = @ + k]
  BY <1>1 DEF Writes
<1>4. k \in Nat /\ k <= room[fd] /\ k <= n
  BY <1>2, <1>3 DEF Least
<1> HIDE DEF k
<1>5. room[fd] - k \in 0 .. Room /\ put[c] + k \in Nat /\ put[c] + k <= call[c].len
  BY <1>2, <1>4
<1> QED
  BY <1>3, <1>5 DEF Counts, CallsTyped

(* A call that ends with an answer. *)
LEMMA Answered ==
    ASSUME Typed, NEW c \in Calls, CallInv(c), Pending(c), class' = class,
           NEW o \in Outcomes, o.kind = "returned", call'[c] = Over(c, "done", o),
           op'[c] = "none", put'[c] <= call[c].len,
           Run(c, took'[c]), took'[c] \subseteq 1 .. taken'[Fd(c)],
           call[c].hook = "io_read" =>
               /\ o.got \subseteq took'[c]
               /\ \A b \in o.got, m \in took'[c] \ o.got : b < m
               /\ Cardinality(took'[c] \ o.got) <= Most(0, Capacity - Amount(c)),
           call[c].hook = "io_write" => put'[c] = call[c].len /\ o.n = put'[c]
    PROVE  CallInv(c)'
<1> DEFINE r == Over(c, "done", o)
<1>1. /\ r \in CallRecs /\ r.state = "done" /\ r.at = "none" /\ r.result = o
      /\ r.hook = call[c].hook /\ r.fd = call[c].fd
      /\ r.len = call[c].len /\ r.min = call[c].min
  BY OverFacts DEF Typed
<1> HIDE DEF r
<1>2. call'[c] = r
  BY DEF r
<1>3. /\ ~Pending(c)' /\ Fd(c)' = Fd(c) /\ OnFile(c)' = OnFile(c)
      /\ Want(c)' = Want(c) /\ Amount(c)' = Amount(c)
  BY <1>1, <1>2, WantFrame DEF Pending, Fd, OnFile
<1>4. Shape(c) /\ call[c].state # "idle"
  BY DEF CallInv, Pending
<1>5. Run(c, took[c])'
  BY <1>3 DEF Run
<1>6. Shape(c)'
  BY <1>1, <1>2, <1>3, <1>4, <1>5 DEF Shape
<1>7. ReadOK(c)' /\ WriteOK(c)'
  BY <1>1, <1>2, <1>3 DEF ReadOK, WriteOK
<1> QED
  BY <1>6, <1>7 DEF CallInv

(* A call whose bytes or operation go on while it stands where it is. *)
LEMMA GoesOn ==
    ASSUME NEW c \in Calls, CallInv(c), class' = class,
           call'[c] = call[c], call[c].state # "idle", call[c].at # "made",
           call[c].result.kind # "returned", put'[c] <= call[c].len,
           Run(c, took'[c]), took'[c] \subseteq 1 .. taken'[Fd(c)],
           call[c].at = "trying" => op'[c] = "none" /\ took'[c] = {},
           call[c].at = "pool" => op'[c] # "none",
           op'[c] # "none" => OnFile(c) /\ (Pending(c) \/ op'[c] = "running"),
           ~Pending(c) /\ ~OnFile(c) => took'[c] = {}
    PROVE  CallInv(c)'
<1>1. /\ Pending(c)' = Pending(c) /\ Fd(c)' = Fd(c) /\ OnFile(c)' = OnFile(c)
      /\ Want(c)' = Want(c) /\ Amount(c)' = Amount(c)
  BY WantFrame DEF Pending, Fd, OnFile
<1>2. Run(c, took[c])'
  BY <1>1 DEF Run
<1>3. Shape(c)'
  BY <1>1, <1>2 DEF CallInv, Shape
<1>4. ReadOK(c)' /\ WriteOK(c)'
  BY <1>1 DEF ReadOK, WriteOK
<1> QED
  BY <1>3, <1>4 DEF CallInv

(* A socket is read by the poll, which returns what it gets. *)
LEMMA PollSocketReadStep ==
    ASSUME IInv, NEW c \in Calls, PollSocketRead(c)
    PROVE  IInv'
<1>1. /\ Pending(c) /\ call[c].hook = "io_read" /\ call[c].at = "trying" /\ Reads(c)
      /\ op' = op /\ room' = room /\ put' = put
  BY DEF PollSocketRead, Stands
<1>2. Typed /\ CallsTyped /\ Counts /\ CallInv(c) /\ Shape(c) /\ Fd(c) \in Fds /\ op[c] = "none"
  BY <1>1, IInvSplit DEF IInv, Typed, CallInv, Shape, Pending
<1>3. /\ taken' \in [Fds -> Nat] /\ \A fd \in Fds : taken[fd] <= taken'[fd] /\ taken'[fd] <= sent[fd]
      /\ took' \in [Calls -> SUBSET Nat] /\ \A d \in Calls : d # c => took'[d] = took[d]
      /\ took'[c] \subseteq 1 .. taken'[Fd(c)] /\ Run(c, took'[c])
  BY <1>1, <1>2, ReadsFacts
<1>4. PICK bytes : bytes = took'[c]
  OBVIOUS
<1>5. PICK o : o = Delivers(c, bytes)
  OBVIOUS
<1>6. /\ o \in Outcomes /\ o.kind = "returned" /\ o.got \subseteq bytes
      /\ \A b \in o.got, m \in bytes \ o.got : b < m
      /\ Cardinality(bytes \ o.got) <= Most(0, Capacity - Amount(c))
  BY <1>2, <1>3, <1>4, <1>5, DeliversFacts
<1>7. Ends(c, "done", o)
  BY <1>4, <1>5 DEF PollSocketRead
<1>8. /\ FdTyped' /\ FdInv' /\ class' = class
      /\ call' \in [Calls -> CallRecs] /\ call'[c] = Over(c, "done", o)
      /\ \A d \in Calls : d # c => call'[d] = call[d]
  BY <1>6, <1>7, EndsFd
<1>9. sent' = sent /\ eof' = eof
  BY <1>7 DEF Ends
<1>10. Counts' /\ Flows /\ CallsTyped'
  BY <1>1, <1>2, <1>3, <1>8, <1>9 DEF Counts, Flows, CallsTyped
<1>11. op'[c] = "none" /\ put'[c] <= call[c].len
  BY <1>1, <1>2 DEF Shape
<1>12. CallInv(c)'
  BY <1>1, <1>2, <1>3, <1>4, <1>6, <1>8, <1>11, Answered
<1> QED
  BY <1>1, <1>3, <1>8, <1>10, <1>12, OneCall

(* A socket is written by the polls, until all is written. *)
LEMMA PollSocketWriteStep ==
    ASSUME IInv, NEW c \in Calls, PollSocketWrite(c)
    PROVE  IInv'
<1>1. /\ Pending(c) /\ call[c].hook = "io_write" /\ call[c].at = "trying"
      /\ Writes(c, call[c].len - put[c])
      /\ op' = op /\ taken' = taken /\ took' = took
  BY DEF PollSocketWrite, Stands
<1>2. /\ Typed /\ CallsTyped /\ Counts /\ FdTyped /\ FdInv /\ CallInv(c) /\ Shape(c)
      /\ Fd(c) \in Fds /\ op[c] = "none" /\ call[c].state # "idle"
  BY <1>1, IInvSplit DEF IInv, Typed, CallInv, Shape, Pending
<1>3. call[c].len \in Nat /\ put[c] \in Nat
  BY <1>2, SizeTypes DEF CallsTyped
<1>4. /\ room' \in [Fds -> 0 .. Room]
      /\ put' \in [Calls -> Nat] /\ \A d \in Calls : d # c => put'[d] = put[d]
      /\ put'[c] <= call[c].len
  BY <1>1, <1>2, <1>3, WritesFacts
<1>5. Run(c, took'[c]) /\ took'[c] \subseteq 1 .. taken'[Fd(c)] /\ took'[c] = {}
  BY <1>1, <1>2 DEF Shape
<1>6. CASE put'[c] = call[c].len
  <2> DEFINE o == Outcome("returned", {}, call[c].len)
  <2>1. o \in Outcomes /\ o.kind = "returned" /\ o.n = call[c].len
    BY <1>3, NothingFacts
  <2>2. Ends(c, "done", o)
    BY <1>6 DEF PollSocketWrite
  <2> HIDE DEF o
  <2>3. PICK p : p = o
    OBVIOUS
  <2>4. /\ FdTyped' /\ FdInv' /\ class' = class
        /\ call' \in [Calls -> CallRecs] /\ call'[c] = Over(c, "done", p)
        /\ \A d \in Calls : d # c => call'[d] = call[d]
    BY <2>1, <2>2, <2>3, EndsFd
  <2>5. sent' = sent /\ eof' = eof
    BY <2>2 DEF Ends
  <2>6. Counts' /\ Flows /\ CallsTyped'
    BY <1>1, <1>2, <1>4, <2>4, <2>5 DEF Counts, Flows, CallsTyped
  <2>7. CallInv(c)'
    BY <1>1, <1>2, <1>4, <1>5, <1>6, <2>1, <2>3, <2>4, Answered
  <2> QED
    BY <1>1, <1>4, <2>4, <2>6, <2>7, OneCall
<1>7. CASE put'[c] # call[c].len
  <2>1. UNCHANGED <<fdVars, call, sent, eof, overlapped>>
    BY <1>7 DEF PollSocketWrite
  <2>2. FdTyped' /\ FdInv' /\ class' = class
    BY <1>2, <2>1, FdFrame DEF FdTyped, fdVars, Stays
  <2>3. Counts' /\ Flows /\ CallsTyped'
    BY <1>1, <1>2, <1>4, <2>1, <2>2 DEF Counts, Flows, CallsTyped
  <2>4. call[c].result.kind # "returned"
    BY <1>1, <1>2 DEF Shape
  <2>5. CallInv(c)'
    BY <1>1, <1>2, <1>4, <1>5, <2>1, <2>2, <2>4, GoesOn
  <2> QED
    BY <1>1, <1>4, <2>1, <2>2, <2>3, <2>5, OneCall
<1> QED
  BY <1>6, <1>7

(* A file's operation is over: so is the call, with its outcome, unless    *)
(* there is more to write.                                                 *)
LEMMA PollFileStep ==
    ASSUME IInv, NEW c \in Calls, PollFile(c)
    PROVE  IInv'
<1>1. /\ Pending(c) /\ call[c].at = "pool" /\ op[c] # "running"
      /\ taken' = taken /\ room' = room /\ took' = took /\ put' = put
  BY DEF PollFile
<1>2. /\ Typed /\ CallsTyped /\ Counts /\ FdTyped /\ FdInv /\ CallInv(c) /\ Shape(c)
      /\ Fd(c) \in Fds /\ op[c] \in {"done", "failed"} /\ call[c].state # "idle"
      /\ call[c].hook \in {"io_read", "io_write"}
  BY <1>1, IInvSplit DEF IInv, Typed, CallInv, Shape, Pending, CallsTyped
<1>3. call[c].len \in Nat /\ put[c] \in Nat /\ put[c] <= call[c].len
  BY <1>2, SizeTypes DEF CallsTyped, Shape
<1>4. Run(c, took'[c]) /\ took'[c] \subseteq 1 .. taken'[Fd(c)] /\ put'[c] <= call[c].len
  BY <1>1, <1>2 DEF Shape
<1>5. CASE op[c] = "done" /\ call[c].hook = "io_write" /\ put[c] < call[c].len
  <2>1. UNCHANGED <<fdVars, call, sent, eof, overlapped>> /\ op' = [op EXCEPT ![c] = "running"]
    BY <1>5 DEF PollFile
  <2>2. FdTyped' /\ FdInv' /\ class' = class
    BY <1>2, <2>1, FdFrame DEF FdTyped, fdVars, Stays
  <2>3. Counts' /\ Flows /\ CallsTyped'
    BY <1>1, <1>2, <2>1, <2>2 DEF Counts, Flows, CallsTyped
  <2>4. call[c].result.kind # "returned" /\ OnFile(c)
    BY <1>1, <1>2 DEF Shape
  <2>5. op'[c] = "running" /\ \A d \in Calls : d # c => op'[d] = op[d]
    BY <1>2, <2>1 DEF CallsTyped
  <2>6. CallInv(c)'
    BY <1>1, <1>2, <1>4, <2>1, <2>2, <2>4, <2>5, GoesOn
  <2> QED
    BY <1>1, <2>1, <2>2, <2>3, <2>5, <2>6, OneCall
<1>6. CASE ~(op[c] = "done" /\ call[c].hook = "io_write" /\ put[c] < call[c].len)
  <2>1. PICK o : o = FileOutcome(c)
    OBVIOUS
  <2>2. Ends(c, "done", o) /\ op' = [op EXCEPT ![c] = "none"]
    BY <1>6, <2>1 DEF PollFile
  <2>3. /\ op'[c] = "none" /\ \A d \in Calls : d # c => op'[d] = op[d]
        /\ op' \in [Calls -> {"none", "running", "done", "failed"}]
    BY <1>2, <2>2 DEF CallsTyped
  <2>4. /\ o \in Outcomes
        /\ \/ o.kind # "returned"
           \/ /\ o.kind = "returned" /\ call[c].hook = "io_read"
              /\ o.got \subseteq took'[c]
              /\ \A b \in o.got, m \in took'[c] \ o.got : b < m
              /\ Cardinality(took'[c] \ o.got) <= Most(0, Capacity - Amount(c))
           \/ /\ o.kind = "returned" /\ call[c].hook = "io_write"
              /\ put'[c] = call[c].len /\ o.n = put'[c]
    <3>1. CASE op[c] = "failed"
      BY <2>1, <3>1, NothingFacts DEF FileOutcome
    <3>2. CASE op[c] = "done" /\ call[c].hook = "io_read"
      <4>1. o = Delivers(c, took[c]) /\ Run(c, took[c])
        BY <1>2, <2>1, <3>2 DEF FileOutcome, Shape
      <4> QED
        BY <1>1, <1>2, <3>2, <4>1, DeliversFacts
    <3>3. CASE op[c] = "done" /\ call[c].hook = "io_write"
      <4>1. put[c] = call[c].len
        BY <1>3, <1>6, <3>3
      <4>2. o = Outcome("returned", {}, call[c].len)
        BY <2>1, <3>3 DEF FileOutcome
      <4> QED
        BY <1>1, <1>3, <3>3, <4>1, <4>2, NothingFacts
    <3> QED
      BY <1>2, <3>1, <3>2, <3>3
  <2>5. /\ FdTyped' /\ FdInv' /\ class' = class
        /\ call' \in [Calls -> CallRecs] /\ call'[c] = Over(c, "done", o)
        /\ \A d \in Calls : d # c => call'[d] = call[d]
    BY <2>2, <2>4, EndsFd
  <2>6. sent' = sent /\ eof' = eof
    BY <2>2 DEF Ends
  <2>7. Counts' /\ Flows /\ CallsTyped'
    <3>1. Counts' /\ Flows
      BY <1>1, <1>2, <2>5, <2>6 DEF Counts, Flows
    <3>2. CallsTyped'
      BY <1>1, <1>2, <2>3, <2>5 DEF CallsTyped
    <3> QED
      BY <3>1, <3>2
  <2>8. CASE o.kind # "returned"
    <3>1. CallInv(c)'
      BY <1>1, <1>2, <2>3, <2>4, <2>5, <2>7, <2>8, GivenUp
    <3> QED
      BY <1>1, <2>3, <2>5, <2>7, <3>1, OneCall
  <2>9. CASE o.kind = "returned"
    <3>1. CallInv(c)'
      BY <1>1, <1>2, <1>4, <2>3, <2>4, <2>5, <2>9, Answered
    <3> QED
      BY <1>1, <2>3, <2>5, <2>7, <3>1, OneCall
  <2> QED
    BY <2>8, <2>9
<1> QED
  BY <1>5, <1>6

(* An operation of the pool goes on, for a pending call or for nobody. *)
LEMMA PoolProgress ==
    ASSUME IInv, NEW c \in Calls, op[c] = "running",
           UNCHANGED <<fdVars, call, overlapped>>, Counts', CallsTyped', Flows,
           \A d \in Calls : d # c => op'[d] = op[d] /\ took'[d] = took[d] /\ put'[d] = put[d],
           Run(c, took'[c]), took'[c] \subseteq 1 .. taken'[Fd(c)], put'[c] <= call[c].len,
           IF Pending(c) THEN op'[c] # "none" ELSE op'[c] \in {"none", "running"}
    PROVE  IInv'
<1>1. /\ Typed /\ FdTyped /\ FdInv /\ CallInv(c) /\ Shape(c)
  BY IInvSplit DEF IInv, Typed, CallInv
<1>2. /\ call[c].state # "idle" /\ OnFile(c) /\ call[c].at \notin {"made", "trying"}
      /\ call[c].result.kind # "returned" /\ (call[c].at = "pool" => Pending(c))
  BY <1>1 DEF Shape
<1>3. FdTyped' /\ FdInv' /\ class' = class
  BY <1>1, FdFrame DEF FdTyped, fdVars, Stays
<1>4. CallInv(c)'
  BY <1>1, <1>2, <1>3, GoesOn
<1> QED
  BY <1>3, <1>4, OneCall

(* The operations of the pool. *)
LEMMA PoolStepStep ==
    ASSUME IInv, NEW c \in Calls, PoolStep(c) \/ PoolFails(c)
    PROVE  IInv'
<1>1. /\ op[c] = "running" /\ UNCHANGED <<fdVars, call, overlapped>>
      /\ sent' = sent /\ eof' = eof
  BY DEF PoolStep, PoolReads, PoolWrites, PoolRefused, PoolFails
<1>2. /\ Typed /\ CallsTyped /\ Counts /\ CallInv(c) /\ Shape(c) /\ Fd(c) \in Fds
      /\ class' = class
  BY <1>1, IInvSplit DEF IInv, Typed, CallInv, Shape, fdVars
<1>3. ASSUME NEW how \in {"done", "failed"}, OpEnds(c, how)
      PROVE  /\ op' \in [Calls -> {"none", "running", "done", "failed"}]
             /\ \A d \in Calls : d # c => op'[d] = op[d]
             /\ IF Pending(c) THEN op'[c] # "none" ELSE op'[c] \in {"none", "running"}
  BY <1>2, <1>3 DEF OpEnds, CallsTyped
<1>4. Run(c, took[c]) /\ took[c] \subseteq 1 .. taken[Fd(c)] /\ put[c] <= call[c].len
  BY <1>1, <1>2 DEF Shape
<1>5. CASE PoolReads(c)
  <2>1. Reads(c) /\ OpEnds(c, "done") /\ room' = room /\ put' = put
    BY <1>5 DEF PoolReads
  <2>2. /\ taken' \in [Fds -> Nat] /\ \A fd \in Fds : taken[fd] <= taken'[fd] /\ taken'[fd] <= sent[fd]
        /\ took' \in [Calls -> SUBSET Nat] /\ \A d \in Calls : d # c => took'[d] = took[d]
        /\ took'[c] \subseteq 1 .. taken'[Fd(c)] /\ Run(c, took'[c])
    BY <1>2, <2>1, ReadsFacts
  <2>3. Counts' /\ Flows /\ CallsTyped'
    BY <1>1, <1>2, <1>3, <2>1, <2>2 DEF Counts, Flows, CallsTyped
  <2> QED
    BY <1>1, <1>3, <1>4, <2>1, <2>2, <2>3, PoolProgress
<1>6. CASE PoolWrites(c)
  <2>1. /\ Writes(c, ChunkEnd(c) - put[c]) /\ taken' = taken /\ took' = took
        /\ OpEnds(c, "done") \/ op' = op
    BY <1>6 DEF PoolWrites
  <2>2. /\ ChunkEnd(c) - put[c] \in Int /\ put[c] + (ChunkEnd(c) - put[c]) <= call[c].len
    <3>1. ChunkEnd(c) \in Int /\ ChunkEnd(c) <= call[c].len
      BY <1>2, ChunkEndFacts
    <3>2. put[c] \in Nat /\ call[c].len \in Nat
      BY <1>2, SizeTypes DEF CallsTyped
    <3> QED
      BY <3>1, <3>2
  <2>3. /\ room' \in [Fds -> 0 .. Room]
        /\ put' \in [Calls -> Nat] /\ \A d \in Calls : d # c => put'[d] = put[d]
        /\ put'[c] <= call[c].len
    BY <1>2, <2>1, <2>2, WritesFacts
  <2>4. /\ op' \in [Calls -> {"none", "running", "done", "failed"}]
        /\ \A d \in Calls : d # c => op'[d] = op[d]
        /\ IF Pending(c) THEN op'[c] # "none" ELSE op'[c] \in {"none", "running"}
    BY <1>1, <1>2, <1>3, <2>1 DEF CallsTyped
  <2>5. Counts' /\ Flows /\ CallsTyped'
    BY <1>1, <1>2, <2>1, <2>3, <2>4 DEF Counts, Flows, CallsTyped
  <2> QED
    BY <1>1, <1>4, <2>1, <2>3, <2>4, <2>5, PoolProgress
<1>7. CASE PoolRefused(c) \/ PoolFails(c)
  <2>1. OpEnds(c, "failed") /\ taken' = taken /\ room' = room /\ took' = took /\ put' = put
    BY <1>7 DEF PoolRefused, PoolFails
  <2>2. Counts' /\ Flows /\ CallsTyped'
    BY <1>1, <1>2, <1>3, <2>1 DEF Counts, Flows, CallsTyped
  <2> QED
    BY <1>1, <1>3, <1>4, <2>1, <2>2, PoolProgress
<1> QED
  BY <1>5, <1>6, <1>7 DEF PoolStep

(* The runtime drops an aborted future, and leaves a running operation. *)
LEMMA DropAbortedStep ==
    ASSUME IInv, NEW c \in Calls, DropAborted(c)
    PROVE  IInv'
<1>1. PICK o : o = Nothing("none")
  OBVIOUS
<1>2. o \in Outcomes /\ o.kind # "returned"
  BY <1>1, NothingFacts
<1>3. /\ Pending(c) /\ Ends(c, "done", o)
      /\ op' = [op EXCEPT ![c] = IF op[c] = "running" THEN "running" ELSE "none"]
      /\ UNCHANGED <<taken, room, took, put>>
  BY <1>1 DEF DropAborted
<1>4. /\ FdTyped' /\ FdInv' /\ class' = class
      /\ call' \in [Calls -> CallRecs] /\ call'[c] = Over(c, "done", o)
      /\ \A d \in Calls : d # c => call'[d] = call[d]
  BY <1>2, <1>3, EndsFd
<1>5. Counts' /\ Flows
  BY <1>3, <1>4 DEF IInv, Typed, Counts, Flows, Ends
<1>6. CallsTyped'
  BY <1>3, <1>4 DEF IInv, Typed, CallsTyped
<1>7. Typed /\ CallInv(c) /\ op \in [Calls -> {"none", "running", "done", "failed"}]
  BY IInvSplit DEF IInv, Typed, CallsTyped
<1>8. /\ op'[c] = "none" \/ (op'[c] = op[c] /\ op[c] \in {"none", "running"})
      /\ \A d \in Calls : d # c => op'[d] = op[d]
  BY <1>3, <1>7
<1>9. CallInv(c)'
  BY <1>2, <1>3, <1>4, <1>5, <1>7, <1>8, GivenUp
<1> QED
  BY <1>3, <1>4, <1>5, <1>6, <1>8, <1>9, OneCall

-----------------------------------------------------------------------------
(* The initial state satisfies the invariant. *)
LEMMA InitIInv == Init => IInv
<1> SUFFICES ASSUME Init PROVE IInv
  OBVIOUS
<1> USE DEF Init, FdInit
<1>1. /\ Idle.state = "idle" /\ Idle.hook = "none" /\ Idle.at = "none" /\ Idle.len = 0
      /\ Idle.min = 0 /\ Idle.result = Nothing("none")
  BY DEF Idle
<1>2. Nothing("none") \in Outcomes /\ Nothing("none").kind = "none"
  BY NothingFacts
<1>3. Idle \in CallRecs
  BY <1>2 DEF Idle, CallRecs, AnyFd
<1>4. FdTyped /\ Counts /\ CallsTyped
  <2>1. FdTyped
    BY ModesAssumption DEF FdTyped
  <2>2. Counts
    BY SizesAssumption DEF Counts
  <2>3. CallsTyped
    BY <1>3 DEF CallsTyped
  <2> QED
    BY <2>1, <2>2, <2>3
<1>5. FdInv
  <2>1. Guarded
    BY <1>1 DEF Guarded
  <2>2. Registered
    BY <1>1 DEF Registered, Pending
  <2>3. Remembered /\ FlagsRestoredUnlessOverlapped
    BY DEF Remembered, FlagsRestoredUnlessOverlapped
  <2> QED
    BY <2>1, <2>2, <2>3 DEF FdInv
<1>6. ASSUME NEW c \in Calls PROVE CallInv(c)
  <2>1. call[c] = Idle /\ op[c] = "none" /\ took[c] = {} /\ put[c] = 0
    OBVIOUS
  <2>2. Run(c, took[c])
    <3>1. Want(c) \in Nat
      BY <1>4, SizeTypes
    <3>2. took[c] = (0 + 1) .. (0 + 0)
      BY <2>1
    <3> QED
      BY <3>1, <3>2 DEF Run
  <2>3. Shape(c)
    BY <1>1, <1>2, <2>1, <2>2 DEF Shape, Pending
  <2> QED
    BY <1>1, <1>2, <2>1, <2>3 DEF CallInv, ReadOK, WriteOK
<1> QED
  BY <1>4, <1>5, <1>6, IInvSplit

(* Every step keeps it. *)
LEMMA NextIInv == IInv /\ [Next]_vars => IInv'
<1> SUFFICES ASSUME IInv, [Next]_vars PROVE IInv'
  OBVIOUS
<1>1. ASSUME NEW fd \in Fds, Peer(fd) \/ (Close(fd) /\ UNCHANGED rwVars) PROVE IInv'
  BY <1>1, OutsideStep
<1>2. ASSUME NEW c \in Calls, IoRead(c) \/ IoWrite(c) PROVE IInv'
  BY <1>2, BeginsStep DEF IoRead, IoWrite
<1>3. ASSUME NEW c \in Calls, HookRaises(c) PROVE IInv'
  BY <1>3, HookRaisesStep
<1>4. ASSUME NEW c \in Calls,
             PollRefused(c) \/ PollBufferRaises(c) \/ PollUdp(c) \/ PollSocketFails(c) \/ TimesOut(c)
      PROVE  IInv'
  <2>1. Pending(c) /\ UNCHANGED <<op, taken, room, took, put>>
    BY <1>4 DEF PollRefused, PollBufferRaises, PollUdp, PollSocketFails, TimesOut
  <2>2. op[c] \in {"none", "running"}
    BY <1>4 DEF PollRefused, PollBufferRaises, PollUdp, PollSocketFails, TimesOut, IInv, Shapes, Shape
  <2>3. PICK state \in {"done", "panicked"}, kind \in {"none", "errno", "raised"} :
          Ends(c, state, Nothing(kind))
    BY <1>4 DEF PollRefused, PollBufferRaises, PollUdp, PollSocketFails, TimesOut
  <2> QED
    BY <2>1, <2>2, <2>3, EndsNothing
<1>5. ASSUME NEW c \in Calls, PollStarts(c) PROVE IInv'
  BY <1>5, PollStartsStep
<1>6. ASSUME NEW c \in Calls, PollSocketRead(c) \/ PollSocketWrite(c) \/ PollFile(c) PROVE IInv'
  BY <1>6, PollSocketReadStep, PollSocketWriteStep, PollFileStep
<1>7. ASSUME NEW c \in Calls, PoolStep(c) \/ PoolFails(c) PROVE IInv'
  BY <1>7, PoolStepStep
<1>8. ASSUME NEW c \in Calls, DropAborted(c) PROVE IInv'
  BY <1>8, DropAbortedStep
<1>9. CASE AbortAll \/ UNCHANGED vars
  <2>1. FdTyped /\ FdInv /\ Counts /\ CallsTyped /\ \A c \in Calls : CallInv(c)
    BY IInvSplit
  <2>2. FdTyped' /\ FdInv'
    BY <1>9, <2>1, FdFrame DEF AbortAll, FdTyped, vars, rwVars, fdVars, Stays
  <2>3. Counts' /\ CallsTyped' /\ Flows
    BY <1>9, <2>1 DEF AbortAll, vars, rwVars, fdVars, Counts, CallsTyped, Flows
  <2>4. \A c \in Calls : CallInv(c)'
    <3> SUFFICES ASSUME NEW c \in Calls PROVE CallInv(c)'
      OBVIOUS
    <3>1. call'[c] = call[c] /\ op'[c] = op[c] /\ took'[c] = took[c] /\ put'[c] = put[c]
      BY <1>9 DEF AbortAll, vars, rwVars
    <3> QED
      BY <2>1, <2>3, <3>1, CallFrame
  <2>5. Shapes' /\ ReadTakesNoMore' /\ WriteReturnsWhenWritten'
    BY <2>4 DEF Shapes, ReadTakesNoMore, WriteReturnsWhenWritten, CallInv, ReadOK, WriteOK
  <2> QED
    BY <2>2, <2>3, <2>5 DEF IInv, Typed
<1> QED
  BY <1>1, <1>2, <1>3, <1>4, <1>5, <1>6, <1>7, <1>8, <1>9 DEF Next, Poll, PollFails, Quiet

(* The inductive invariant of io_read and io_write. *)
THEOREM IoReadWriteInvariance == Spec => []IInv
BY InitIInv, NextIInv, PTL DEF Spec

Marks == aborted \subseteq Calls

(* The marks of run's interrupt arm are on calls. *)
LEMMA MarksInvariance == Spec => []Marks
<1>1. Init => Marks
  BY DEF Init, Marks
<1>2. Marks /\ [Next]_vars => Marks'
  <2> SUFFICES ASSUME Marks, [Next]_vars PROVE Marks'
    OBVIOUS
  <2>1. CASE AbortAll
    BY <2>1 DEF AbortAll, Marks
  <2>2. ASSUME NEW c \in Calls, NEW state, NEW o, Ends(c, state, o) PROVE Marks'
    BY <2>2 DEF Ends, Marks
  <2>3. ASSUME NEW c \in Calls,
               PollRefused(c) \/ PollUdp(c) \/ PollSocketRead(c) \/ PollFails(c) \/ DropAborted(c)
        PROVE  Marks'
    BY <2>2, <2>3 DEF PollRefused, PollUdp, PollSocketRead, PollFails, PollBufferRaises,
         PollSocketFails, TimesOut, DropAborted
  <2>4. ASSUME NEW c \in Calls, PollSocketWrite(c) \/ PollFile(c) PROVE Marks'
    BY <2>2, <2>4 DEF PollSocketWrite, PollFile, Marks
  <2>5. CASE UNCHANGED aborted
    BY <2>5 DEF Marks
  <2>6. ASSUME NEW c \in Calls, IoRead(c) \/ IoWrite(c) \/ HookRaises(c) \/ PollStarts(c)
        PROVE  UNCHANGED aborted
    BY <2>6 DEF IoRead, IoWrite, Begins, HookRaises, PollStarts, rwVars
  <2>7. ASSUME NEW c \in Calls, PoolStep(c) \/ PoolFails(c) PROVE UNCHANGED aborted
    BY <2>7 DEF PoolStep, PoolReads, PoolWrites, PoolRefused, PoolFails
  <2>8. ASSUME NEW fd \in Fds, Peer(fd) PROVE UNCHANGED aborted
    BY <2>8 DEF Peer, PeerSends, PeerEnds, PeerReads
  <2> QED
    BY <2>1, <2>3, <2>4, <2>5, <2>6, <2>7, <2>8 DEF Next, Poll, Quiet, vars, rwVars
<1> QED
  BY <1>1, <1>2, PTL DEF Spec

(* The state stays well formed, no byte is taken that was not sent, and a  *)
(* call has a guard exactly while its future is suspended.                 *)
THEOREM IoReadWriteTypes == Spec => []TypeOK
<1>1. IInv /\ Marks => TypeOK
  <2> SUFFICES ASSUME IInv, Marks PROVE TypeOK
    OBVIOUS
  <2> USE DEF IInv, Typed
  <2>1. ASSUME NEW c \in Calls
        PROVE  /\ call[c].state \in {"idle", "pending", "done", "panicked"}
               /\ call[c].at \in {"none", "made", "trying", "pool"}
               /\ op[c] \in {"none", "running", "done", "failed"}
               /\ took[c] \subseteq 1 .. taken[Fd(c)]
               /\ put[c] \in 0 .. call[c].len
               /\ (\E g \in guards : g.owner = Owner(c)) <=> call[c].at \in {"trying", "pool"}
    <3>1. call[c] \in CallRecs /\ Shape(c) /\ put[c] \in Nat /\ call[c].len \in Nat
      BY SizeTypes DEF CallsTyped, Shapes
    <3>2. /\ call[c].state \in {"idle", "pending", "done", "panicked"}
          /\ call[c].at \in {"none", "made", "trying", "pool"}
          /\ op[c] \in {"none", "running", "done", "failed"}
      BY <3>1 DEF CallRecs, CallsTyped
    <3>3. took[c] \subseteq 1 .. taken[Fd(c)] /\ put[c] \in 0 .. call[c].len
      BY <3>1 DEF Shape
    <3>4. (\E g \in guards : g.owner = Owner(c)) <=> call[c].at \in {"trying", "pool"}
      BY GuardOf DEF FdInv, Guarded
    <3> QED
      BY <3>2, <3>3, <3>4
  <2>2. \A fd \in Fds : /\ taken[fd] \in 0 .. sent[fd] /\ sent[fd] \in 0 .. MaxBytes
                        /\ room[fd] \in 0 .. Room
    BY SizesAssumption DEF Counts
  <2> QED
    BY <2>1, <2>2 DEF TypeOK, Marks
<1> QED
  BY <1>1, IoReadWriteInvariance, MarksInvariance, PTL

(* What a read costs the stream: nothing when it is given up on a socket,  *)
(* and beyond what it returns at most the rest of one BufReader            *)
(* (read_at_least).                                                        *)
THEOREM ReadTheorem == Spec => []ReadTakesNoMore
<1>1. IInv => ReadTakesNoMore
  BY DEF IInv
<1> QED
  BY <1>1, IoReadWriteInvariance, PTL

(* An io_write that returns has put all of its data into the kernel        *)
(* (write_at_least).                                                       *)
THEOREM WriteTheorem == Spec => []WriteReturnsWhenWritten
<1>1. IInv => WriteReturnsWhenWritten
  BY DEF IInv
<1> QED
  BY <1>1, IoReadWriteInvariance, PTL

(* O_NONBLOCK is put back, unless two calls overlapped on a file           *)
(* (NonBlockGuard).                                                        *)
THEOREM OverlapTheorem == Spec => []FlagsRestoredUnlessOverlapped
<1>1. IInv => FlagsRestoredUnlessOverlapped
  BY DEF IInv, FdInv
<1> QED
  BY <1>1, IoReadWriteInvariance, PTL
=============================================================================
