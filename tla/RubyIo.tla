------------------------------- MODULE RubyIo -------------------------------
(***************************************************************************)
(* The file descriptors that the I/O hooks borrow from Ruby (ruby_io.rs):  *)
(* what wrapping one in a tokio stream does to it, its O_NONBLOCK bit      *)
(* under NonBlockGuard, and its entry in the runtime's epoll set. A task   *)
(* that wraps a descriptor is an owner; the modules of the hooks say which *)
(* tasks there are and when they take the steps defined here.              *)
(***************************************************************************)
EXTENDS Naturals, FiniteSets

CONSTANTS
    Fds,        \* descriptor numbers
    Classes,    \* the classes of IO objects that occur
    Modes       \* O_NONBLOCK, as the program may open a file

ASSUME ClassesAssumption == Classes \subseteq {"socket", "udp", "file", "other"}
ASSUME ModesAssumption == Modes \subseteq BOOLEAN

Events == {"R", "W"}

VARIABLES
    open,       \* the kernel has a file at the number
    held,       \* a Ruby IO object takes the number for its own
    class,      \* the class of that object
    nonblock,   \* O_NONBLOCK
    epoll,      \* the owner whose registration the epoll set holds
    ready,      \* the events the kernel would report
    guards,     \* the live NonBlockGuards
    given,      \* history: O_NONBLOCK as the program opened it
    uses,       \* history: streams made of it since then (2: at least 2)
    recycled    \* history: opened while a call on its number was pending

fdVars == <<open, held, class, nonblock, epoll, ready, guards, given, uses, recycled>>

NoOwner == <<>>
Leaked == <<"leaked">>     \* registered for a stream that mem::forget dropped

Guard(owner, fd) == [owner |-> owner, fd |-> fd, old_flags |-> nonblock[fd]]

(* "UNIXSocket", "Socket", "TCPServer", "TCPSocket"; "UDPSocket"; "IO",    *)
(* "File"; any other class                                                 *)
FdInit ==
    /\ open = [fd \in Fds |-> TRUE]
    /\ held = [fd \in Fds |-> TRUE]
    /\ class \in [Fds -> Classes]
    /\ nonblock \in [Fds -> Modes]
    /\ epoll = [fd \in Fds |-> NoOwner]
    /\ ready = [fd \in Fds |-> {}]
    /\ guards = {}
    /\ given = nonblock
    /\ uses = [fd \in Fds |-> 0]
    /\ recycled = [fd \in Fds |-> FALSE]

-----------------------------------------------------------------------------
(* The program and its peers (external).                                   *)

(* open(2), socket(2), ...: the kernel reuses a free number, which a       *)
(* pending call may still use                                              *)
Open(fd, used) ==
    /\ ~open[fd]
    /\ open' = [open EXCEPT ![fd] = TRUE]
    /\ held' = [held EXCEPT ![fd] = TRUE]
    /\ \E c \in Classes : class' = [class EXCEPT ![fd] = c]
    /\ \E b \in Modes : /\ nonblock' = [nonblock EXCEPT ![fd] = b]
                        /\ given' = [given EXCEPT ![fd] = b]
    /\ ready' = [ready EXCEPT ![fd] = {}]
    /\ uses' = [uses EXCEPT ![fd] = 0]
    /\ recycled' = [recycled EXCEPT ![fd] = used]
    /\ UNCHANGED <<epoll, guards>>

(* IO#close; the kernel drops a closed file from the epoll set *)
Close(fd) ==
    /\ held[fd]
    /\ held' = [held EXCEPT ![fd] = FALSE]
    /\ open' = [open EXCEPT ![fd] = FALSE]
    /\ epoll' = [epoll EXCEPT ![fd] = NoOwner]
    /\ ready' = [ready EXCEPT ![fd] = {}]
    /\ UNCHANGED <<class, nonblock, guards, given, uses, recycled>>

PeerActs(fd) ==
    /\ open[fd]
    /\ \E E \in SUBSET Events : ready' = [ready EXCEPT ![fd] = E]
    /\ UNCHANGED <<open, held, class, nonblock, epoll, guards, given, uses, recycled>>

-----------------------------------------------------------------------------
(* epoll_ctl adds a file once: EEXIST, or EBADF for a number that is free *)
Registers(fd) == open[fd] /\ epoll[fd] = NoOwner

IsSocket(fd) == class[fd] \in {"socket", "udp"}

(* a tokio File is made of any number, without a system call *)
Wraps(fd) ==
    \/ class[fd] = "file"
    \/ IsSocket(fd) /\ Registers(fd)

(* from_std owns the socket: when it fails, it closes it *)
FromValueAndRawFd(fd, owner) ==
    /\ IF ~IsSocket(fd)
         THEN UNCHANGED <<open, epoll, uses>>
         ELSE /\ open' = [open EXCEPT ![fd] = Registers(fd)]
              /\ epoll' = [epoll EXCEPT ![fd] = IF Registers(fd) THEN owner ELSE NoOwner]
              /\ uses' = [uses EXCEPT ![fd] = IF @ = 0 THEN 1 ELSE 2]
    /\ UNCHANGED <<held, class, nonblock, ready, guards, given, recycled>>

(* Variant: the flags are read and not set *)
WithNonblockUnset(fd, owner) ==
    /\ open[fd]
    /\ guards' = guards \cup {Guard(owner, fd)}
    /\ UNCHANGED nonblock

(* NonBlockGuard::new; fcntl fails on a closed descriptor *)
WithNonblock(fd, owner) ==
    /\ open[fd]
    /\ guards' = guards \cup {Guard(owner, fd)}
    /\ nonblock' = [nonblock EXCEPT ![fd] = TRUE]

(* the old_flags a drop of these guards may leave on a descriptor: theirs, *)
(* in some order, whatever file has the number by now                      *)
FlagsAfter(fd, dropped) ==
    LET mine == {g \in dropped : g.fd = fd}
    IN IF mine = {} \/ ~open[fd] THEN {nonblock[fd]} ELSE {g.old_flags : g \in mine}

(* Variant: the guard is forgotten like the stream *)
DropGuardsForgotten(dropped) ==
    UNCHANGED <<guards, nonblock>>

(* Variant: the new flags are kept instead of the old ones *)
DropGuardsNewFlags(dropped) ==
    /\ guards' = guards \ dropped
    /\ UNCHANGED nonblock

DropGuards(dropped) ==
    /\ guards' = guards \ dropped
    /\ nonblock' \in {f \in [Fds -> BOOLEAN] : \A fd \in Fds : f[fd] \in FlagsAfter(fd, dropped)}

(* Variant: the stream is dropped, which deregisters and closes *)
DropRubyIoCloses(owners) ==
    /\ epoll' = [fd \in Fds |-> IF epoll[fd] \in owners THEN NoOwner ELSE epoll[fd]]
    /\ open' = [fd \in Fds |-> open[fd] /\ epoll[fd] \notin owners]

(* Drop of RubyIo forgets the stream: the file stays open and registered *)
DropRubyIo(owners) ==
    /\ epoll' = [fd \in Fds |-> IF epoll[fd] \in owners THEN Leaked ELSE epoll[fd]]
    /\ UNCHANGED open
=============================================================================
