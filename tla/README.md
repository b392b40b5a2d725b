# TLA+ models of shredular

shredular is a Ruby *fiber scheduler* written in Rust (`ext/shreduler/src`): Ruby
calls its hooks (`kernel_sleep`, `block`, `io_wait`, ...) when a non-blocking fiber
would block; the hook turns the wait into a Rust future, suspends the fiber and
lets tokio's current-thread runtime poll the futures; the event loop switches back
to a fiber when its future is ready. Everything happens on one Ruby thread, except
`unblock`, which may come from any thread, and the pool behind file I/O.

Paths below are relative to `ext/shreduler/src`.

## Inventory

| Part | State | Operations | Module |
|---|---|---|---|
| Event loop (`tokio_scheduler/close.rs`, `thread.rs`) | the `JoinSet` `futures_to_run` and its borrow, `runtime` | `run`, `close`, the interrupt check | `TokioScheduler` |
| Fibers and futures (`fiber.rs`, `fiber_future.rs`, `spawn`, `spawn_and_transfer` of `tokio_scheduler.rs`) | the current fiber, where every other one is suspended; fiber and output of each future | `transfer`, `raise`, `FiberFuture::poll`, `resume_if_alive` | `TokioScheduler` |
| `fiber` (`fiber_spawn.rs`) | `transfer_back_to` of each nested fiber | create and switch, wrapper, switch back | `TokioScheduler` |
| `block`/`unblock` (`block_unblock.rs`) | `blockers`: fiber -> oneshot sender | `block`, its future, `unblock` | `TokioScheduler` |
| `kernel_sleep`, `address_resolve` | - | the hook and its future | `TokioScheduler` |
| `timeout_after` (`timeout_after.rs`) | the timers in the JoinSet | the hook, its future, the end of its block | `TokioScheduler` |
| `GcCell` (`gc_cell.rs`) | `read_count`, `write_count` | `try_borrow`, `try_borrow_mut`, drops | `GcCell` |
| `process_wait` (`process_wait.rs`) | pid, flags and SIGCHLD stream of each wait | the hook, `PidWaiter::new`, `poll`, `try_wait` | `ProcessWait` |
| `RubyIo` (`ruby_io.rs`) | descriptor flags, epoll registrations | wrap, `NonBlockGuard`, `ready`, drop | `RubyIo` |
| `io_wait`, `io_select` | their tasks | the hooks, the polls, timeout, abort | `IoWait` |
| `io_read`, `io_write` (`io_read_write.rs`, `io_buffer.rs`) | bytes in the kernel, in the call, on the pool | the hooks, the polls, pool operations, timeout, abort | `IoReadWrite` |
| GC marking (`mark`, `borrow_for_gc`) | which fibers are reachable, which memory was freed | mark, collect, use of a freed fiber | `GcMark` |
| what a fiber is promised | phase of each fiber, result of each call | call, complete, deliver, raise, end | `FiberHooks` (abstract) |
| errors, interned names, `Nilable`, init, logging | - | - | not modelled: nothing a property tells apart |

**How the parts interact.** A hook spawns a future into `futures_to_run` and
transfers to the root fiber. There `run` sits in `select!`, *holding the JoinSet
mutably borrowed* while tokio polls the futures. A finished future is taken out,
the borrow is dropped, and `resume_if_alive` transfers to (or raises in) the fiber
that called the hook. `timeout_after` is the exception: its future raises in the
fiber *from inside its poll*, so the rest of that fiber runs nested in the poll,
with the JoinSet borrowed, and every hook it calls is refused with
`PoisonedCellError`. A fiber that ends returns to the thread's root fiber; a nested
one first hands control to the fiber that scheduled it.

**What is hard here**: the borrow across an await, exceptions raised from a poll,
futures that outlive the hook call they belong to, senders that outlive theirs,
nested fibers whose parent is gone, interrupts that abort futures but not fibers,
signals that race `waitpid`, a descriptor that Ruby and tokio both believe they
own, operations on the pool that outlive their call, fibers that only a future
knows and the collector does not see. `PROJECT.json` lists these as hazards, each at its line with its properties.

## The modules

### TokioScheduler

One Ruby thread. `at[f]` says where the stack of a fiber stands (`user`, in a
`hook`, in `schedule`, in the wrapper `back`, ...; for the root fiber `select`,
`resume`, `poll`). A fiber switch is two steps: `SwitchTo` makes the target current
and puts a value or an exception in `carried`; then `HookReturns`, `FiberReturns`,
`WrapperReturns`, `ResumeReturns` or `RaiseReturns` is what the target does where it
was suspended. A future is a task number; `state` takes it from `pending` to
`ready` or `cancelled` to `joined`. A oneshot sender is named by the task that holds
its receiver, so `blockers[f] = t` reads "an unblock of f reaches task t"; `Severed`
is a sender whose receiver died in a refused spawn. `waits` and `interrupted` are
history variables. Time is abstracted: a timer may fire at any poll.

Not in the model: `run` called from a fiber other than the root, or inside
itself (tokio panics), the `Error::Jump` arm of `raise` (`fiber.rs:182`: Ruby unwinds for
the VM's own reasons and no switch happens), futures of the I/O hooks and of `process_wait` (for the
loop they are futures that end with a value or an error, as `resolve` is; their
own modules say how they end), and panics of futures, whose effect (a JoinError)
is there for aborted futures only.

### FiberHooks and TokioSchedulerHooks

`FiberHooks` is the promise, with no futures, borrows or event loop: a fiber that
calls a hook waits for the result of *that* call, which is delivered once (`Deliver`) or
dropped when nobody waits for it (`Drop`); before that only a timeout of its own takes
the fiber out (`Raise`); a fiber that schedules another waits for it to end (`End`); one
fiber runs at a time (`Idle`); only after an interrupt may a result be taken away
(`Cancel`). `TokioSchedulerHooks` holds the refinement mapping: a fiber runs from the
moment it is switched to, so `HookReturns` and `FiberReturns` are stuttering steps and
the switch itself (`JoinNext`, `PollTimeout`, `BlockEnds`) is the abstract step; a fiber in
the wrapper of its block has ended; the result of a future is gone when `run` has
joined it, that of a timer when its poll has begun to raise. `ImplementsHooks` is the
abstract specification under this mapping.

### GcMark

The scheduler with Ruby's collector beside it. A member of `Fibers` is an *address*:
`Collect` may free any fiber that is not `Marked`, after which its address is free for the
next `Fiber.schedule`. `Mark` is `TokioScheduler::mark`; what Ruby marks by itself (the
running fiber, and fibers in the frames of marked ones) is external. The program is
assumed to keep no reference to the fibers it schedules, which is the usual way to
call `Fiber.schedule`. A step that would look at a freed fiber is undefined behaviour:
`undefined` becomes TRUE and the behaviour stops there.

### GcCell

The counters of one cell, one step per atomic operation; a borrower is a frame that
calls `try_borrow(_mut)` and later drops what it got. Several frames of one thread
may be between borrow and drop at once (a suspended fiber holds its stack). That no
other borrower runs between the test and the increment is the guarantee of the GVL
(`Switch`, external): native code gives it up only when it calls Ruby.

### ProcessWait

The futures of `process_wait`, poll step by poll step (`PollRecv`, `TryWaitReady`,
`TryWaitPending`), against children that exit between any two of them and a SIGCHLD
that reaches all streams at once and coalesces. Pids are two's complement
integers up to `MaxPid`, and `WrappingNeg` is the code's `wrapping_neg`. The flag `none` makes `waitpid` block the
poll, and with it the loop, until a child it matches can be reaped or a signal
interrupts it (`WaitpidInterrupted`, EINTR). `Own` are the children in the process group
of the caller, which `waitpid(0)` matches.

### RubyIo and IoWait

`RubyIo` is the table of descriptors: the kernel's view (`open`, `nonblock`, `epoll`,
`ready`), Ruby's (`held`, `class`), and the live `NonBlockGuard`s. The operators are
the steps by which hooks touch it: `FromValueAndRawFd` (registers a socket with
epoll, or fails with EEXIST/EBADF, in which case `from_std` drops the socket and so
closes it), `WithNonblock`, `DropGuards`, `DropRubyIo` (forgets the stream: the
descriptor stays open and registered). `Open`, `Close`, `PeerActs` are the program
and its peers; closed numbers are reused. `Modes` are the values of O_NONBLOCK with which
the program may open a file.

`IoWait` extends it with `io_wait` and `io_select`. A call has tasks: `io_wait` one, whose
stream is made in the calling fiber; `io_select` one per IO and interest, whose
stream is made on its first poll, or not at all if the program has closed the IO by
then (`gone`: `fileno` raises). `Notice` is tokio's I/O driver. `abort_all` only marks the
futures (`AbortAll`, `aborted`); their guards and streams are dropped when the runtime
runs again, if it does (`DropAborted`). `given`, `uses`, `recycled` are history variables.

### IoReadWrite

Also on `RubyIo`: `io_read` and `io_write`. The bytes a peer sends are numbered, so the
kernel holds `taken + 1 .. sent`; `took` is what was read for a call and `result.got` what
the caller was given; of written data only the amounts count (`put`). A socket is read
and written in the poll; for a file the poll starts an operation on tokio's pool (`op`),
which runs on when its call is timed out or aborted (in two steps, as in `IoWait`).
`Want` is the read-ahead of the `BufReader`, on a file at most `MaxBuf`, the size of
one pool operation; `ChunkEnd` is where the next piece of a write ends, `Room` what the
kernel takes from a writer before its peer reads. Each call is made once; the program
may close the descriptor meanwhile but does not reopen it (`IoWait` covers reuse). The
contents and the locking of an `IO::Buffer` are abstracted to "Ruby raises"
(`PollBufferRaises`).

The modules named `MC...` give the constants their values.
Definitions marked *Variant* are wrong versions of the definition that follows them;
no specification uses them. They record, for each property, a mistake that the
property catches.

## Runs

| Run | Checks | Instance |
|---|---|---|
| `fibers` | `TypeOK`, `NoSpuriousWakeup`, `NoLostUnblock`, `HookHasFuture`, `ScheduleHasChild`, `SpawnRefusedOnlyUnderRaise`, `RunDrains` | 3 fibers, 3 futures; timed block, unblock, timeout, nested, raise, `run` repeated, one interrupt |
| `liveness` | `CloseReturns`, `RunEndsWithFibers` (FairSpec), `ImplementsHooks` | 2 fibers, 3 futures; every operation except a `run` before `close` |
| `gc` | `BlockedKept`, `NewFiberHasNoSender` | 2 addresses, 3 futures; timed block, unblock, timeout, nested |
| `gc_cell` | `Exclusion`, `CountsMatch` | 6 borrowers |
| `waits` | `TypeOK`, `NoLostSignal`, `EchildMeansTaken`, `WaitServed` (FairSpec) | 2 waiters, 3 children, two of them in the process group, 4-bit pids, all flags |
| `io_waits` | `TypeOK`, `FlagsRestored`, `OpenUnlessReused`, `TimedCallEnds`, `ReadyAnswered` (FairSpec) | 2 calls on 1 number, one of which may select; stream sockets, files and other classes, every event mask |
| `io_rw` | `TypeOK`, `ReadTakesNoMore`, `WriteReturnsWhenWritten`, `FlagsRestoredUnlessOverlapped`, `FileCallEnds`, `SocketReadAnswered` (FairSpec) | 2 calls on 1 number, all classes, 3 bytes, a buffer of 2 and every minimum up to 3, which is refused |

What the passing runs show, beyond the sentence with each property: stale futures do
exist (a fiber raised out of a hook leaves one), and the only thing that keeps them
from waking the fiber in a later hook is that hooks called under the raise are
refused, so that the fiber can only end. `NoSpuriousWakeup` fails at once when that
refusal is taken away (its variant, `BorrowableAlways`), and so does the refinement.
`RunEndsWithFibers` names the one case in which `run` outlives its fibers: a fiber raised
out of an untimed `block` leaves a future that nobody can complete. `BlockedKept` and
`WaiterKept` together say what `mark` achieves: a fiber in `block` is kept, but only until
the unblock has been sent; from then on, and in every other hook, nothing keeps it.
`WaitServed` has two exceptions, and both happen in the run: another waiter takes the
status that a wait for the process group had, with no further child to exit, and a
`waitpid` without WNOHANG holds the whole loop. `ReadyAnswered` counts for an `io_wait`
one event only when both were asked for (`AnsweredFor`), since the code waits for
READABLE alone then. `SocketReadAnswered` asks for an answer once the minimum is there;
the code answers earlier, with less.

These runs end in a counterexample; what the repository says is quoted in
`PROJECT.json` under findings:

| Run | What the code does |
|---|---|
| `timeout_scope` | a `timeout_after` that was not exceeded still raises, later |
| `any` | `process_wait(-1)` waits for the pid `RawPid::MAX` and gets ECHILD |
| `io_reuse` | the second stream made of a socket cannot register it, and closes it under Ruby |
| `rw_lost` | `io_read` takes up to a bufferful from the socket and drops what was not asked for |
| `gc_kept` | a fiber suspended in `kernel_sleep` is freed while its future still names it |

The models show further disagreements with the comments, for which no run is kept:
one failing fiber makes `run`, and so `close`, return with the other fibers suspended
(`ResumeReturns`; `close.rs:8-10` has all waiting fibers finalize); a fiber timed out of
an untimed `block` leaves a future that keeps `run` going although no fiber is left (the
`Abandoned` disjunct of `RunEndsWithFibers`; `close.rs:26`); a timed-out `block` raises (`PollBlock`) where `block_unblock.rs:15` expects a boolean;
a `run` after an interrupt returns Ok with fibers that never completed (the
`interrupted` disjunct of `RunDrains`; `close.rs:26`); a process group is waited for
endlessly, since the error is only logged (`NothingYet`; `process_wait.rs:63`);
without WNOHANG one wait holds up all fibers (`BlockedInWaitpid`); an `io_wait` for both
events on a socket that can be written never returns, since the WRITABLE of line 91 is
computed and dropped (`InterestOf`; `io_wait.rs:91`), and the answer of `io_wait` is READABLE whatever
was asked (`PollWaitEnds`; `io_wait.rs:45`); `io_select` returns one IO when several are ready (`PollSelect`;
`io_select.rs:86`); `io_read` returns after the first piece of data, with less than the
minimum (`Delivers`; `io_read_write.rs:13-17`), and never returns more than the minimum
although the buffer has room; `io_read` and `io_write` of a UDP socket panic, and the
fiber is never resumed (`PollUdp`).

### Bounds

- `MaxTasks`: futures spawned in a behaviour. A stale future, the future of the hook
  that follows it and a timer need three. What TLAPS proves has no such bound.
- `Fibers`: three give a chain of nested fibers and a sibling.
- one interrupt per behaviour (`Interrupt` requires `~interrupted`): a second one
  aborts futures the same way.
- `MaxPid = 7`: four bits; the smallest pid, which wraps, is -8. Three children, two of
  them in the process group: one may be taken by another waiter while the other runs on.
- `uses` counts streams to two: at the second the registration is refused.
- in `GcMark`, two addresses: one fiber whose future or sender is left behind, and one
  that runs, or is created where the first one was. Addresses are reused without bound.
- `Capacity = 2` against amounts of 1 and 2, with 3 bytes to come: a read ahead that is
  lost, one that is not, a minimum of 2 that comes in pieces, and bytes that stay in the
  kernel. `MaxBuf = 1` and `Room = 1` make a write of 2 bytes take two chunks and wait for
  the peer. A read of more than a `BufReader` holds is in the proofs only.
- `Modes = {FALSE}` in the passing runs: a descriptor that the program itself made non-blocking
  blocks no pool operation, and a guard on it changes nothing. The proofs have both.
- `Calls`, `Fds`: two calls are enough for guards and registrations to meet, and one
  number for reuse; an `io_select` of the same IO twice has two tasks that race.

### Fairness

- `TokioScheduler`: `FiberProgress` and `RootProgress` are fair because Ruby code that
  runs is assumed to end and the thread calls `close`; `TaskProgress` because
  `FiberFuture::poll` wakes its own task whenever it is pending, so the current-thread
  runtime polls it again in every round, clocks advance and look-ups answer;
  `Unblock` because a program releases what it blocks on (a program that never does
  hangs by its own doing).
- `ProcessWait`: the runtime's queue is first-in first-out, so a woken future is
  polled although others keep being polled (strong fairness of the start of a
  poll). No child need exit and no signal need be delivered: `FiberFuture::poll` wakes
  its own task, so that the runtime polls a waiter whether or not SIGCHLD came.
- `IoReadWrite`: futures are polled, and a pool operation that can go on does. Peers
  owe nothing: they may never send or read. No timer has to elapse; a call without a
  timeout is one whose timer does not. Nothing says that the runtime runs again after an
  interrupt, so `DropAborted` is not fair and aborted calls are exempt.
- `IoWait`: the driver is turned again and again while the loop is busy, and a task
  that has been woken is polled; timers elapse. `DropAborted` is not fair here either.

## Proofs

Eight modules of theorems, checked by TLAPS. They hold for every value of the
constants that satisfies the ASSUMEs: any fibers and any number of futures
(`Root \notin Fibers`, `MaxTasks \in Nat`), a finite non-empty set of borrowers, any
waiters and children (pids are of one width, children's pids lie strictly between 0
and `RawPid::MAX`), any descriptors and calls (`Classes` are the four the code tells
apart, `Modes` are Booleans, interests are non-empty, sizes are positive). TLC evaluates these ASSUMEs on
each run. Every invariant property and every action property of the passing runs,
and the refinement, is a theorem.

| Module | Theorem | Says |
|---|---|---|
| `TokioSchedulerProofs` | `TypeCorrect` | `Spec => []TypeOK` |
| | `RefusalTheorem` | `Spec => []SpawnRefusedOnlyUnderRaise` |
| | `UnblockTheorem` | `Spec => []NoLostUnblock` |
| | `HookTheorem` | `Spec => []HookHasFuture` |
| `WakeupProofs` | `WakeupTheorem` | `Spec => []NoSpuriousWakeup` |
| | `ScheduleTheorem` | `Spec => []ScheduleHasChild` |
| | `RunDrainsTheorem` | `Spec => RunDrains`, an action property |
| `HooksProofs` | `RefinementTheorem` | `Spec => ImplementsHooks` |
| `GcMarkProofs` | `NewFiberTheorem` | `GcSpec => []NewFiberHasNoSender` |
| | `BlockedKeptTheorem` | `GcSpec => BlockedKept`, an action property |
| `GcCellProofs` | `ExclusionTheorem`, `CountsTheorem` | `Exclusion`, `CountsMatch` |
| `ProcessWaitProofs` | `ProcessWaitTypes`, `NoLostSignalTheorem`, `EchildTheorem` | `TypeOK`, `NoLostSignal`, `EchildMeansTaken` |
| `IoWaitProofs` | `IoWaitTypes`, `FlagsRestoredTheorem`, `OpenTheorem` | `TypeOK`, `FlagsRestored`, `OpenUnlessReused` |
| `IoReadWriteProofs` | `IoReadWriteTypes`, `ReadTheorem`, `WriteTheorem`, `OverlapTheorem` | `TypeOK`, `ReadTakesNoMore`, `WriteReturnsWhenWritten`, `FlagsRestoredUnlessOverlapped` |

Almost none of these is inductive alone. Each module has an inductive invariant,
also model-checked on the instance of a run, and about one lemma per action.

**The event loop** (`IInv` of `TokioSchedulerProofs`):

- `Control`: which points the current fiber and the root fiber can be at together,
  and what is in flight between them. Without it a fiber could arrive at a hook
  while the root is elsewhere.
- `Borrow`: `write_count` is 1 exactly while the root is at `select` or `poll`, and 0
  otherwise. This is what makes `SpawnRefusedOnlyUnderRaise` true and lets `EnterSelect`
  always succeed.
- `Spawned` and `HookFutures`: futures are numbered in the order of spawning, and the
  future a suspended fiber waits for was spawned, is owned by that fiber and is of
  a hook's kind. This ties a join to the fiber it wakes, which `NoLostUnblock` and
  `HookHasFuture` need in every step.

**Wake-ups** (`Nesting` and `Order` of `WakeupProofs`). The question is why a future
that a fiber left behind, raised out of its hook, never finds it in a later hook.

- `Nesting`: a fiber is created by one created before it, so that in every set of
  fibers there is one that created none of the others (`WellNested`; this takes the
  place of an induction over the chain of children), and a fiber in `schedule` has an
  active child. `RunDrainsTheorem` takes the set of fibers in `schedule`: the active
  child of the one that created none of the others would have to be in a hook, and
  then its future would be in the JoinSet that `JoinNone` found empty.
- `Order`: a fiber with a stray future (`Displaced`) runs, or waits for a fiber it
  started, only inside the poll that raised in it, where every hook is refused
  (`DisplacedEnds`); a displaced fiber that is suspended in `schedule` is a caller of the
  running fiber, directly or through others (`DisplacedEncloses`), so it gets control
  back, and ends, before the poll does; a fiber that was not displaced has one active
  child at most (`OneChild`).

**The refinement** (`HooksProofs`). `InitMaps` and `NextMaps` show that initial states map
to an initial state and each action to a step of `FiberHooks` or a stutter; one lemma
per action names which. It needs all of the above, since "the result is delivered to
the fiber that waits for it" is `NoSpuriousWakeup`, and `AbortedByInterrupt`: only after an
interrupt is a result taken away.

**The collector** (`GcMarkProofs`). `Collect` preserves the `IInv` of the loop although futures
of a freed fiber are still in the JoinSet when its address is used again. A fiber in
`blockers` is marked and so not collected; that is `NewFiberHasNoSender`, and with
`NoLostUnblock` it is `BlockedKept`.

**GcCell**: only the running borrower is between a test and its increment, and what it
tested still holds.

**process_wait** (`ProcessWaitProofs`). `Subscribed`: a suspended waiter has its waker in the
signal stream or has been woken, and one that is being polled and was told "no signal"
is registered before it calls `waitpid`; so the exit of a child between the two steps
finds a waker. `Reaped`: a reaped child has a reaper, and that waiter was answered with
the child's status, so it is not the one that was told ECHILD.

**io_wait and io_select** (`IoWaitProofs`). `Registered` carries the proof: a task that waits
on a socket is the one whose registration the epoll set holds. So a second stream of the
socket is refused before it takes a guard, guards do not overlap, and a guard remembers
the flags the program gave (`Remembered`). `EpollOpen` and `uses` say that the refusal,
which closes the descriptor, needs an earlier stream. `Stages` says how far the tasks
of a call can be, so that a task which holds a guard or a registration is one of a
pending call.

**io_read and io_write** (`IoReadWriteProofs`). The same three invariants of descriptors,
with overlapping guards on files as the exception; and `Shapes`, which relates how far a
call is, its operation on the pool and its bytes: what was taken for a call is one
run of at most `Want(c)` bytes, nothing is taken before the last step of a socket read, and a call
that returned has no operation left on the pool.

**Only model-checked**: the liveness properties `CloseReturns`, `RunEndsWithFibers`,
`WaitServed`, `TimedCallEnds`, `ReadyAnswered`, `FileCallEnds` and `SocketReadAnswered`, for
fairness and ENABLED are out of the prover's reach; and the five runs that end in a
counterexample, which a theorem cannot state.

## Not modelled

- Errors, interned names, `Nilable`, the prelude, initialisation and logging:
  constructors and registrations, with no state that a property tells apart.
- The conversion of Ruby numbers to durations (`timeout_duration.rs`) and its overflow:
  timers may fire at any time or never, so no property depends on a duration.
- Futures that panic (`close.rs:58-60`), and a process status that cannot be allocated
  after its child was reaped (`process_wait.rs:175`, only logged): failures of tokio or of
  Ruby's allocator, which no property covers. A panic of a UDP read or write is in
  `IoReadWrite`, up to the end of its future.
- The fields of the process status, the parsing of addresses, the contents of
  `IO::Buffer`s: values that no step depends on.
- `io_pread`, `io_pwrite` (stubs that are not registered), `Fiber::suspend` and `resume`,
  `try_borrow` outside `GcCell` (never called by the program).
- References that a Ruby program itself keeps to its fibers: in `GcMark` it keeps none,
  the case in which the collector may take most.

## Plan

1. *done* `TokioScheduler`, `GcCell`, `ProcessWait`, `RubyIo`, `IoWait`; the proofs above.
2. *done* `IoReadWrite`, `FiberHooks` and its refinement, `GcMark`.
3. *done* A theorem for each safety property, action property and the refinement.
4. Left: the safety facts that the liveness properties rest on, as theorems of their own
   (in `IoReadWrite`, that an operation on the pool belongs to a call that will be polled
   or was given up; in `IoWait`, that a wake-up of a task is not lost); shorter proofs.
