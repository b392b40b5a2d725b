---------------------------- MODULE IoReadWrite ----------------------------
(***************************************************************************)
(* io_read and io_write (io_read_write.rs) on the descriptors of RubyIo.   *)
(* A call makes its stream in the calling fiber; its future takes a        *)
(* NonBlockGuard and then reads or writes. A socket is read and written by *)
(* the poll itself. A file is read and written by an operation on tokio's  *)
(* blocking pool, which goes on when the call has been given up.           *)
(*                                                                         *)
(* Bytes are numbered in the order in which a peer sends them, so those in *)
(* the kernel are taken + 1 .. sent. Of what is written only the amount    *)
(* matters.                                                                *)
(***************************************************************************)
EXTENDS RubyIo

CONSTANTS
    Calls,      \* each is called once
    Lens,       \* the sizes of the IO::Buffers
    Mins,       \* the minimum lengths that are asked for
    Capacity,   \* of a BufReader (8 KiB)
    MaxBuf,     \* most bytes a tokio File hands to the pool at once (2 MiB)
    MaxBytes,   \* bound: bytes a peer sends on one descriptor
    Room        \* bytes the kernel buffers for a peer that does not read

ASSUME SizesAssumption ==
    /\ Lens \subseteq Nat \ {0} /\ Mins \subseteq Nat
    /\ {Capacity, MaxBuf, MaxBytes, Room} \subseteq Nat \ {0}

VARIABLES
    call,       \* the calls
    op,         \* the pool operation of each
    sent,       \* bytes the peer has sent
    taken,      \* bytes read from the kernel
    eof,        \* the peer will send no more
    room,       \* bytes the kernel would accept
    took,       \* history: the bytes read for each call
    put,        \* bytes the kernel has accepted from each call
    overlapped, \* history: two guards of the descriptor were live at once
    aborted     \* the calls whose future is aborted and not yet dropped

rwVars == <<call, op, sent, taken, eof, room, took, put, overlapped, aborted>>
vars == <<fdVars, rwVars>>

(* "returned" with the bytes it read, or how many it wrote; "errno" for a   *)
(* negative number; "raised", also by a timeout; "none" if it was aborted  *)
Outcome(kind, got, n) == [kind |-> kind, got |-> got, n |-> n]
Nothing(kind) == Outcome(kind, {}, 0)

(* at "made" before the first poll; then "trying" on a socket, "pool" on a file *)
Idle == [state |-> "idle", hook |-> "none", fd |-> CHOOSE fd \in Fds : TRUE, len |-> 0,
         min |-> 0, at |-> "none", result |-> Nothing("none")]

Init ==
    /\ FdInit
    /\ call = [c \in Calls |-> Idle]
    /\ op = [c \in Calls |-> "none"]
    /\ sent = [fd \in Fds |-> 0]
    /\ taken = [fd \in Fds |-> 0]
    /\ eof = [fd \in Fds |-> FALSE]
    /\ room = [fd \in Fds |-> Room]
    /\ took = [c \in Calls |-> {}]
    /\ put = [c \in Calls |-> 0]
    /\ overlapped = [fd \in Fds |-> FALSE]
    /\ aborted = {}

Least(m, n) == IF m <= n THEN m ELSE n
Most(m, n) == IF m <= n THEN n ELSE m

Pending(c) == call[c].state = "pending"
Fd(c) == call[c].fd
Owner(c) == <<c, "rw">>
GuardsOf(c) == {g \in guards : g.owner = Owner(c)}
OnFile(c) == class[Fd(c)] = "file"
Stands(c, hook, at) == Pending(c) /\ call[c].hook = hook /\ call[c].at = at
Moves(c, at) == call' = [call EXCEPT ![c].at = at]

-----------------------------------------------------------------------------
(* The peer of a descriptor (external).                                    *)

PeerSends(fd) ==
    /\ sent[fd] < MaxBytes /\ ~eof[fd]
    /\ \E n \in 1 .. MaxBytes - sent[fd] : sent' = [sent EXCEPT ![fd] = @ + n]
    /\ UNCHANGED <<fdVars, call, op, taken, eof, room, took, put, overlapped, aborted>>

PeerEnds(fd) ==
    /\ ~eof[fd]
    /\ eof' = [eof EXCEPT ![fd] = TRUE]
    /\ UNCHANGED <<fdVars, call, op, sent, taken, room, took, put, overlapped, aborted>>

PeerReads(fd) ==
    /\ room[fd] < Room
    /\ room' = [room EXCEPT ![fd] = Room]
    /\ UNCHANGED <<fdVars, call, op, sent, taken, eof, took, put, overlapped, aborted>>

-----------------------------------------------------------------------------
(* The hooks.                                                              *)

Begins(c, hook) ==
    /\ call[c].state = "idle"
    /\ \E fd \in Fds, len \in Lens, min \in Mins :
         /\ held[fd] /\ Wraps(fd)
         /\ FromValueAndRawFd(fd, Owner(c))
         /\ call' = [call EXCEPT ![c] =
              [Idle EXCEPT !.state = "pending", !.hook = hook, !.fd = fd, !.len = len,
                           !.min = min, !.at = "made"]]
    /\ UNCHANGED <<op, sent, taken, eof, room, took, put, overlapped, aborted>>

IoRead(c) == Begins(c, "io_read")

IoWrite(c) == Begins(c, "io_write")

(* The buffer is not an IO::Buffer, which io_write finds out after it has  *)
(* made its stream; or the descriptor, or the spawn, is refused. The call  *)
(* has not begun and may be made again.                                    *)
HookRaises(c) ==
    /\ call[c].state = "idle"
    /\ \E fd \in Fds : held[fd] /\ (UNCHANGED fdVars \/ FromValueAndRawFd(fd, Leaked))
    /\ UNCHANGED rwVars

-----------------------------------------------------------------------------
(* The futures.                                                            *)

Amount(c) == IF call[c].min = 0 THEN call[c].len ELSE call[c].min

Over(c, state, outcome) ==
    [call[c] EXCEPT !.state = state, !.at = "none", !.result = outcome]

(* the future ends or is dropped: the guard, then the stream *)
Ends(c, state, outcome) ==
    /\ DropGuards(GuardsOf(c))
    /\ DropRubyIo({Owner(c)})
    /\ call' = [call EXCEPT ![c] = Over(c, state, outcome)]
    /\ aborted' = aborted \ {c}
    /\ UNCHANGED <<held, class, ready, given, uses, recycled, sent, eof, overlapped>>

(* the first poll fails: fcntl does, or the buffer is smaller than the minimum *)
PollRefused(c) ==
    /\ Pending(c) /\ call[c].at = "made"
    /\ ~open[Fd(c)] \/ call[c].min > call[c].len
    /\ Ends(c, "done", Nothing("raised"))
    /\ UNCHANGED <<op, taken, room, took, put>>

(* as_slice, as_mut_slice: the buffer is locked, freed or read-only by now, *)
(* and Ruby raises                                                         *)
PollBufferRaises(c) ==
    /\ Pending(c) /\ call[c].at = "made" /\ open[Fd(c)]
    /\ Ends(c, "done", Nothing("raised"))
    /\ UNCHANGED <<op, taken, room, took, put>>

(* todo!(): the future panics, run logs the JoinError, nobody is resumed *)
PollUdp(c) ==
    /\ Pending(c) /\ call[c].at = "made"
    /\ open[Fd(c)] /\ call[c].min <= call[c].len
    /\ class[Fd(c)] = "udp"
    /\ Ends(c, "panicked", Nothing("none"))
    /\ UNCHANGED <<op, taken, room, took, put>>

(* The first poll: a socket that has just been registered is not ready     *)
(* before the driver is turned; a file's operation goes to the pool.       *)
PollStarts(c) ==
    /\ Pending(c) /\ call[c].at = "made"
    /\ open[Fd(c)] /\ call[c].min <= call[c].len
    /\ class[Fd(c)] # "udp"
    /\ WithNonblock(Fd(c), Owner(c))
    /\ overlapped' = [overlapped EXCEPT ![Fd(c)] = @ \/ \E g \in guards : g.fd = Fd(c)]
    /\ Moves(c, IF OnFile(c) THEN "pool" ELSE "trying")
    /\ op' = [op EXCEPT ![c] = IF OnFile(c) THEN "running" ELSE "none"]
    /\ UNCHANGED <<open, held, class, epoll, ready, given, uses, recycled,
                   sent, taken, eof, room, took, put, aborted>>

(* Variant: the reader fills its buffer beside what it was asked for *)
WantMore(c) == Capacity + Amount(c)

(* a BufReader reads a bufferful, or past its buffer if it is asked for    *)
(* more; of a File at most MaxBuf                                          *)
Want(c) ==
    LET asked == Most(Capacity, Amount(c))
    IN IF OnFile(c) THEN Least(asked, MaxBuf) ELSE asked

(* one read(2) for c, of what is there, is at most Want(c) bytes *)
Reads(c) ==
    LET fd == Fd(c)
        k == Least(Want(c), sent[fd] - taken[fd])
    IN /\ k > 0 \/ eof[fd]
       /\ taken' = [taken EXCEPT ![fd] = @ + k]
       /\ took' = [took EXCEPT ![c] = taken[fd] + 1 .. taken[fd] + k]

(* what read_at_least gives the caller; the rest goes with the BufReader *)
Delivers(c, bytes) ==
    LET got == {b \in bytes : \A low \in bytes : b < low + Amount(c)}
    IN Outcome("returned", got, 0)

(* Variant: read_exact, also where the minimum is 0 *)
PollSocketReadsAll(c) ==
    /\ Stands(c, "io_read", "trying")
    /\ open[Fd(c)]
    /\ sent[Fd(c)] - taken[Fd(c)] >= Amount(c) \/ eof[Fd(c)]
    /\ Reads(c)
    /\ Ends(c, "done", Delivers(c, took'[c]))
    /\ UNCHANGED <<op, room, put>>

PollSocketRead(c) ==
    /\ Stands(c, "io_read", "trying")
    /\ open[Fd(c)]
    /\ Reads(c)
    /\ Ends(c, "done", Delivers(c, took'[c]))
    /\ UNCHANGED <<op, room, put>>

(* one write(2), of what is left of n bytes *)
Writes(c, n) ==
    LET fd == Fd(c)
        k == Least(room[fd], n)
    IN /\ k > 0
       /\ room' = [room EXCEPT ![fd] = @ - k]
       /\ put' = [put EXCEPT ![c] = @ + k]

PollSocketWrite(c) ==
    /\ Stands(c, "io_write", "trying")
    /\ open[Fd(c)]
    /\ Writes(c, call[c].len - put[c])
    /\ IF put'[c] = call[c].len
         THEN Ends(c, "done", Outcome("returned", {}, call[c].len))
         ELSE UNCHANGED <<fdVars, call, sent, eof, overlapped, aborted>>
    /\ UNCHANGED <<op, taken, took>>

(* the result is -errno, whatever has been written by then *)
PollSocketFails(c) ==
    /\ Pending(c) /\ call[c].at = "trying"
    /\ Ends(c, "done", Nothing("errno"))
    /\ UNCHANGED <<op, taken, room, took, put>>

FileOutcome(c) ==
    IF op[c] = "failed" THEN Nothing("errno")
    ELSE IF call[c].hook = "io_read" THEN Delivers(c, took[c])
    ELSE Outcome("returned", {}, call[c].len)

(* Variant: write_at_least without the flush, which waits for the pool *)
PollFileUnflushed(c) ==
    /\ Pending(c) /\ call[c].at = "pool"
    /\ call[c].hook = "io_write" \/ op[c] # "running"
    /\ Ends(c, "done", FileOutcome(c))
    /\ UNCHANGED <<op, taken, room, took, put>>

(* The pool operation is over: so is the call, unless a File took only a   *)
(* part of the data and write_all hands it the next.                       *)
PollFile(c) ==
    /\ Pending(c) /\ call[c].at = "pool" /\ op[c] # "running"
    /\ IF op[c] = "done" /\ call[c].hook = "io_write" /\ put[c] < call[c].len
         THEN /\ op' = [op EXCEPT ![c] = "running"]
              /\ UNCHANGED <<fdVars, call, sent, eof, overlapped, aborted>>
         ELSE Ends(c, "done", FileOutcome(c)) /\ op' = [op EXCEPT ![c] = "none"]
    /\ UNCHANGED <<taken, room, took, put>>

(* with_timeout: the future is polled before the timer; it is pending for  *)
(* as long as the driver has not reported the socket, or the pool works.   *)
(* A call without a timeout is one whose timer does not elapse.            *)
TimesOut(c) ==
    /\ Pending(c)
    /\ call[c].at = "trying" \/ op[c] = "running"
    /\ Ends(c, "done", Nothing("raised"))
    /\ UNCHANGED <<op, taken, room, took, put>>

(* run's interrupt arm aborts every future *)
AbortAll ==
    /\ aborted' = {c \in Calls : Pending(c)}
    /\ aborted' # aborted
    /\ UNCHANGED <<fdVars, call, op, sent, taken, eof, room, took, put, overlapped>>

(* the runtime drops an aborted future when it runs again, if it does; a   *)
(* pool operation goes on                                                  *)
DropAborted(c) ==
    /\ Pending(c) /\ c \in aborted
    /\ Ends(c, "done", Nothing("none"))
    /\ op' = [op EXCEPT ![c] = IF @ = "running" THEN @ ELSE "none"]
    /\ UNCHANGED <<taken, room, took, put>>

-----------------------------------------------------------------------------
(* tokio's blocking pool (external): an operation runs to its end whether  *)
(* or not its call is still pending.                                       *)

(* the end of the chunk that is being written: a multiple of MaxBuf, or all *)
ChunkEnd(c) == Least(call[c].len, ((put[c] \div MaxBuf) + 1) * MaxBuf)

(* the outcome of an operation whose call was given up is dropped *)
OpEnds(c, how) == op' = [op EXCEPT ![c] = IF Pending(c) THEN how ELSE "none"]

PoolReads(c) ==
    /\ op[c] = "running" /\ call[c].hook = "io_read" /\ open[Fd(c)]
    /\ Reads(c)
    /\ OpEnds(c, "done")
    /\ UNCHANGED <<fdVars, call, sent, eof, room, put, overlapped, aborted>>

PoolWrites(c) ==
    /\ op[c] = "running" /\ call[c].hook = "io_write" /\ open[Fd(c)]
    /\ Writes(c, ChunkEnd(c) - put[c])
    /\ IF put'[c] = ChunkEnd(c) THEN OpEnds(c, "done") ELSE UNCHANGED op
    /\ UNCHANGED <<fdVars, call, sent, taken, eof, took, overlapped, aborted>>

(* EAGAIN: the operation does not wait for the peer; or EBADF *)
PoolRefused(c) ==
    /\ op[c] = "running"
    /\ \/ ~open[Fd(c)]
       \/ /\ nonblock[Fd(c)]
          /\ IF call[c].hook = "io_read" THEN sent[Fd(c)] = taken[Fd(c)] /\ ~eof[Fd(c)]
                                         ELSE room[Fd(c)] = 0
    /\ OpEnds(c, "failed")
    /\ UNCHANGED <<fdVars, call, sent, taken, eof, room, took, put, overlapped, aborted>>

(* EIO, ENOSPC, EPIPE *)
PoolFails(c) ==
    /\ op[c] = "running"
    /\ OpEnds(c, "failed")
    /\ UNCHANGED <<fdVars, call, sent, taken, eof, room, took, put, overlapped, aborted>>

-----------------------------------------------------------------------------
Peer(fd) == PeerSends(fd) \/ PeerEnds(fd) \/ PeerReads(fd)

(* what the polls of a future come to, and what may befall one *)
Poll(c) ==
    /\ c \notin aborted
    /\ \/ PollRefused(c) \/ PollStarts(c) \/ PollUdp(c)
       \/ PollSocketRead(c) \/ PollSocketWrite(c) \/ PollFile(c)

PollFails(c) ==
    /\ c \notin aborted
    /\ PollBufferRaises(c) \/ PollSocketFails(c) \/ TimesOut(c)

PoolStep(c) == PoolReads(c) \/ PoolWrites(c) \/ PoolRefused(c)

Quiet == (\A c \in Calls : ~Pending(c)) /\ UNCHANGED vars

Next ==
    \/ \E fd \in Fds : Peer(fd) \/ (Close(fd) /\ UNCHANGED rwVars)
    \/ \E c \in Calls : \/ IoRead(c) \/ IoWrite(c) \/ HookRaises(c)
                        \/ Poll(c) \/ PollFails(c) \/ DropAborted(c)
                        \/ PoolStep(c) \/ PoolFails(c)
    \/ AbortAll
    \/ Quiet

Spec == Init /\ [][Next]_vars

(* futures are polled, and pool operations that can go on do; peers owe nothing *)
FairSpec == Spec /\ \A c \in Calls : WF_vars(Poll(c)) /\ WF_vars(PoolStep(c))

-----------------------------------------------------------------------------
(* The state is well formed; a guard belongs to a call whose future has    *)
(* been polled and is not over.                                            *)
TypeOK ==
    /\ \A c \in Calls :
         /\ call[c].state \in {"idle", "pending", "done", "panicked"}
         /\ call[c].at \in {"none", "made", "trying", "pool"}
         /\ op[c] \in {"none", "running", "done", "failed"}
         /\ took[c] \subseteq 1 .. taken[Fd(c)]
         /\ put[c] \in 0 .. call[c].len
         /\ (\E g \in guards : g.owner = Owner(c)) <=> call[c].at \in {"trying", "pool"}
    /\ aborted \subseteq Calls
    /\ \A fd \in Fds : /\ taken[fd] \in 0 .. sent[fd] /\ sent[fd] \in 0 .. MaxBytes
                       /\ room[fd] \in 0 .. Room

(* What read_at_least costs the stream. A call that is given up has taken  *)
(* nothing from a socket. A call that returns has taken what it gives the  *)
(* caller and after it at most what is left of one BufReader.              *)
ReadTakesNoMore ==
    \A c \in Calls :
        LET got == call[c].result.got
        IN /\ ~Pending(c) /\ ~OnFile(c) /\ call[c].result.kind # "returned" => took[c] = {}
           /\ call[c].result.kind = "returned" /\ call[c].hook = "io_read" =>
                /\ got \subseteq took[c]
                /\ \A b \in got, m \in took[c] \ got : b < m
                /\ Cardinality(took[c] \ got) <= Most(0, Capacity - Amount(c))

(* An io_write that returns has put all of its data into the kernel and    *)
(* says so: the flush waits for the pool, which accepts data before it is  *)
(* written (write_at_least).                                               *)
WriteReturnsWhenWritten ==
    \A c \in Calls :
        call[c].hook = "io_write" /\ call[c].result.kind = "returned" =>
            put[c] = call[c].len /\ call[c].result.n = put[c]

(* When no guard of a descriptor is live, O_NONBLOCK is what the program   *)
(* gave it, through errors, timeouts, aborts, panics and operations left   *)
(* on the pool. The exception is a file on which two calls overlapped:     *)
(* their guards may be dropped in the order in which they were taken       *)
(* (NonBlockGuard). Sockets do not have it, for the second stream of one   *)
(* is refused.                                                             *)
FlagsRestoredUnlessOverlapped ==
    \A fd \in Fds :
        open[fd] /\ (\A g \in guards : g.fd # fd) =>
            nonblock[fd] = given[fd] \/ (class[fd] = "file" /\ overlapped[fd])

(* A call on a file ends whatever the peer does, if it is not aborted and  *)
(* no other call on the file has overlapped: the guard makes the pool      *)
(* operation give up with EAGAIN instead of blocking (with_nonblock).      *)
FileCallEnds ==
    \A c \in Calls :
        []<>~(Pending(c) /\ OnFile(c) /\ c \notin aborted /\ ~overlapped[Fd(c)])

(* the bytes for which an io_read should be answered: any, if the minimum  *)
(* is 0, "return any available data"; else as many as the minimum          *)
Due(c) == Most(1, call[c].min)

(* An io_read of a stream socket does not stay pending when what it waits  *)
(* for is there, or when the peer has ended, however the bytes came        *)
(* (read_at_least).                                                        *)
SocketReadAnswered ==
    \A c \in Calls : []<>~(/\ Stands(c, "io_read", "trying") /\ c \notin aborted
                           /\ open[Fd(c)]
                           /\ sent[Fd(c)] - taken[Fd(c)] >= Due(c) \/ eof[Fd(c)])

-----------------------------------------------------------------------------
(* What the repository says of io_read and the code does not do.           *)

(* "Expected to return number of bytes read" (io_read_write.rs): what was  *)
(* read from the descriptor is what the caller gets.                       *)
ReturnsBytesRead ==
    \A c \in Calls :
        call[c].hook = "io_read" /\ call[c].result.kind = "returned" =>
            took[c] = call[c].result.got
=============================================================================
