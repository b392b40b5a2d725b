------------------------ MODULE TokioSchedulerProofs ------------------------
(***************************************************************************)
(* Theorems about TokioScheduler, for any set of fibers, any number of     *)
(* futures and any choice of operations. They all follow from one          *)
(* inductive invariant, IInv.                                              *)
(***************************************************************************)
EXTENDS TokioScheduler, TLAPS

(* The fiber that is current is at a point where a running fiber stands,   *)
(* or, when it has just been switched to, where a suspended fiber stands;  *)
(* every other fiber is suspended, unborn or dead.                         *)
Control ==
    /\ carried = "none" => at[current] \in {"user", "select", "exited"}
    /\ carried # "none" => at[current] \in {"hook", "schedule", "back", "resume", "poll"}
    /\ \A f \in AllFibers : f # current => at[f] \notin {"user", "select", "exited"}
    /\ \A f \in Fibers : parent[f] # f

(* futures_to_run is borrowed exactly while run awaits the select!, the    *)
(* polls made from there included.                                         *)
Borrow == write_count = IF at[Root] \in {"select", "poll"} THEN 1 ELSE 0

(* The futures spawned so far are the first nspawned; each belongs to a    *)
(* fiber, a finished one has its outcome, and the one whose poll raises is *)
(* one of them.                                                            *)
Spawned ==
    /\ \A t \in Tasks : t > nspawned => state[t] = "unspawned"
    /\ \A t \in Tasks : t <= nspawned => owner[t] \in Fibers
    /\ \A t \in Tasks : state[t] = "ready" => output[t] \in Outcomes
    /\ at[Root] = "poll" => task \in 1 .. nspawned

(* A fiber suspended in a hook owns the future it waits for. *)
HookFutures ==
    \A f \in Fibers :
        at[f] = "hook" => waits[f] \in 1 .. nspawned /\ owner[waits[f]] = f

IInv ==
    /\ TypeOK
    /\ Control
    /\ Borrow
    /\ Spawned
    /\ HookFutures
    /\ NoLostUnblock
    /\ HookHasFuture

-----------------------------------------------------------------------------
(* The initial states satisfy the invariant. *)
LEMMA InitIInv == Init => IInv
<1> SUFFICES ASSUME Init PROVE IInv
  OBVIOUS
<1> USE RootAssumption, MaxTasksAssumption DEF Init, AllFibers, Tasks, NoTask
<1>1. TypeOK
  <2>1. /\ current \in AllFibers
        /\ at \in [AllFibers -> FiberPoints \cup RootPoints]
        /\ at[Root] \in RootPoints
        /\ \A f \in Fibers : at[f] \in FiberPoints
        /\ parent \in [Fibers -> AllFibers]
    BY DEF FiberPoints, RootPoints
  <2>2. /\ scope \in [Fibers -> SUBSET Tasks]
        /\ waits \in [Fibers -> Tasks \cup {NoTask}]
        /\ blockers \in [AllFibers -> Tasks \cup {NoTask, Severed}]
    OBVIOUS
  <2>3. /\ state \in [Tasks -> TaskStates]
        /\ kind \in [Tasks -> TaskKinds]
        /\ owner \in [Tasks -> AllFibers]
        /\ output \in [Tasks -> Outcomes \cup {"none"}]
    BY DEF TaskStates, TaskKinds
  <2>4. carried = "none" /\ nspawned = 0 /\ sent = {} /\ write_count = 0 /\ task = NoTask
    OBVIOUS
  <2>5. closing \in BOOLEAN /\ runtime \in {"open", "closed"} /\ interrupted \in BOOLEAN
    OBVIOUS
  <2> HIDE DEF Init
  <2> QED BY <2>1, <2>2, <2>3, <2>4, <2>5 DEF TypeOK
<1>2. Control
  BY DEF Control
<1>3. Borrow /\ Spawned
  BY DEF Borrow, Spawned
<1>4. HookFutures /\ NoLostUnblock /\ HookHasFuture
  BY DEF HookFutures, NoLostUnblock, HookHasFuture
<1> QED BY <1>1, <1>2, <1>3, <1>4 DEF IInv

(* The JoinSet after a successful spawn (TokioScheduler::spawn): one more  *)
(* future, of the calling fiber, under a number not used before.           *)
LEMMA SpawnTyped ==
  ASSUME NEW f \in Fibers, NEW k \in TaskKinds, IInv, Spawn(f, k)
  PROVE  /\ nspawned + 1 \in Tasks
         /\ nspawned' = nspawned + 1
         /\ nspawned' \in 0 .. MaxTasks
         /\ state' \in [Tasks -> TaskStates]
         /\ kind' \in [Tasks -> TaskKinds]
         /\ owner' \in [Tasks -> AllFibers]
         /\ output' = output
  BY MaxTasksAssumption DEF IInv, TypeOK, Spawn, Tasks, TaskStates, AllFibers

(* A switch from a running fiber to the root fiber finds it in fiber_impl, *)
(* or in run, resuming or raising.                                         *)
LEMMA RootSuspended ==
  ASSUME NEW f \in Fibers, IInv, current = f
  PROVE  at[Root] \in {"schedule", "resume", "poll"}
  BY RootAssumption DEF IInv, TypeOK, Control, AllFibers, RootPoints

-----------------------------------------------------------------------------
(* Every action preserves the invariant.                                   *)

USE RootAssumption, MaxTasksAssumption
    DEF AllFibers, Tasks, NoTask, Severed, Outcomes, FiberPoints, RootPoints,
        TaskStates, TaskKinds, fiberVars, joinVars, blockVars, loopVars,
        IInv, TypeOK, Control

(* the hooks that only wait: kernel_sleep and address_resolve *)
LEMMA HookStep ==
  ASSUME NEW f \in Fibers, NEW k \in {"sleep", "resolve"},
         SpawnAndTransfer(f, k) \/ SpawnRefused, UNCHANGED blockers, IInv, Running(f)
  PROVE  IInv'
<1>1. TypeOK'
  <2>1. CASE SpawnAndTransfer(f, k)
    <3>1. Spawn(f, k) /\ UNCHANGED loopVars
      BY <2>1 DEF SpawnAndTransfer
    <3>2. /\ waits' \in [Fibers -> Tasks \cup {NoTask}]
          /\ at' \in [AllFibers -> FiberPoints \cup RootPoints]
          /\ at'[Root] \in RootPoints
          /\ \A g \in Fibers : at'[g] \in FiberPoints
      BY <2>1, <3>1, SpawnTyped DEF SpawnAndTransfer
    <3>3. current' = Root /\ carried' = "ok" /\ UNCHANGED <<parent, scope, sent, loopVars>>
      BY <2>1 DEF SpawnAndTransfer, SwitchTo
    <3>4. /\ nspawned' \in 0 .. MaxTasks /\ state' \in [Tasks -> TaskStates]
          /\ kind' \in [Tasks -> TaskKinds] /\ owner' \in [Tasks -> AllFibers]
          /\ output' = output
      BY <3>1, SpawnTyped
    <3> QED BY <3>2, <3>3, <3>4
  <2>2. CASE SpawnRefused
    BY <2>2 DEF SpawnRefused
  <2> QED BY <2>1, <2>2
<1>2. Control'
  BY DEF SpawnAndTransfer, Spawn, SpawnRefused, Borrowable, SwitchTo, Running
<1>3. Borrow'
  BY DEF SpawnAndTransfer, Spawn, SpawnRefused, Borrowable, SwitchTo, Running,
         Borrow
<1>4. Spawned'
  BY DEF SpawnAndTransfer, Spawn, SpawnRefused, Borrowable, SwitchTo, Running,
         Spawned
<1>5. HookFutures'
  BY DEF SpawnAndTransfer, Spawn, SpawnRefused, Borrowable, SwitchTo, Running,
         Spawned, HookFutures
<1>6. NoLostUnblock'
  BY DEF SpawnAndTransfer, Spawn, SpawnRefused, Borrowable, SwitchTo, Running,
         Spawned, HookFutures, NoLostUnblock
<1>7. HookHasFuture'
  BY DEF SpawnAndTransfer, Spawn, SpawnRefused, Borrowable, SwitchTo, Running,
         Spawned, HookFutures, HookHasFuture, Arriving
<1> QED BY <1>1, <1>2, <1>3, <1>4, <1>5, <1>6, <1>7

(* block: the sender is stored, then the future spawned *)
LEMMA BlockStep ==
  ASSUME NEW f \in Fibers, NEW k \in {"block", "timed_block"}, IInv, Block(f, k)
  PROVE  IInv'
<1>1. TypeOK'
  <2>1. CASE SpawnAndTransfer(f, k)
    <3>1. Spawn(f, k) /\ UNCHANGED loopVars
      BY <2>1 DEF SpawnAndTransfer
    <3>2. /\ waits' \in [Fibers -> Tasks \cup {NoTask}]
          /\ at' \in [AllFibers -> FiberPoints \cup RootPoints]
          /\ at'[Root] \in RootPoints
          /\ \A g \in Fibers : at'[g] \in FiberPoints
      BY <2>1, <3>1, SpawnTyped DEF SpawnAndTransfer
    <3>3. blockers' \in [AllFibers -> Tasks \cup {NoTask, Severed}]
      <4>1. nspawned + 1 \in Tasks
        BY <3>1, SpawnTyped
      <4>2. PICK c \in Tasks \cup {Severed} : blockers' = [blockers EXCEPT ![f] = c]
        BY <4>1 DEF Block
      <4> QED BY <4>2
    <3>4. current' = Root /\ carried' = "ok" /\ UNCHANGED <<parent, scope, sent, loopVars>>
      BY <2>1 DEF SpawnAndTransfer, SwitchTo
    <3>5. /\ nspawned' \in 0 .. MaxTasks /\ state' \in [Tasks -> TaskStates]
          /\ kind' \in [Tasks -> TaskKinds] /\ owner' \in [Tasks -> AllFibers]
          /\ output' = output
      BY <3>1, SpawnTyped
    <3> QED BY <3>2, <3>3, <3>4, <3>5
  <2>2. CASE SpawnRefused
    BY <2>2 DEF SpawnRefused, Block
  <2> QED BY <2>1, <2>2 DEF Block
<1>2. Control'
  <2>1. CASE SpawnAndTransfer(f, k)
    BY <2>1, RootSuspended DEF SpawnAndTransfer, SwitchTo, Running, Block
  <2>2. CASE SpawnRefused
    BY <2>2 DEF SpawnRefused
  <2> QED BY <2>1, <2>2 DEF Block
<1>3. Borrow'
  BY DEF Block, SpawnAndTransfer, Spawn, SpawnRefused, Borrowable, SwitchTo,
         Running, Borrow
<1>4. Spawned'
  BY DEF Block, SpawnAndTransfer, Spawn, SpawnRefused, Borrowable, SwitchTo,
         Running, Spawned
<1>5. HookFutures'
  BY DEF Block, SpawnAndTransfer, Spawn, SpawnRefused, Borrowable, SwitchTo,
         Running, Spawned, HookFutures
<1>6. NoLostUnblock'
  BY DEF Block, SpawnAndTransfer, Spawn, SpawnRefused, Borrowable, SwitchTo,
         Running, Spawned, HookFutures, NoLostUnblock
<1>7. HookHasFuture'
  BY DEF Block, SpawnAndTransfer, Spawn, SpawnRefused, Borrowable, SwitchTo,
         Running, Spawned, HookFutures, HookHasFuture, Arriving
<1> QED BY <1>1, <1>2, <1>3, <1>4, <1>5, <1>6, <1>7

(* timeout_after spawns its future and enters the block *)
LEMMA TimeoutAfterStep ==
  ASSUME NEW f \in Fibers, IInv, TimeoutAfter(f)
  PROVE  IInv'
<1>1. TypeOK'
  <2>1. CASE Spawn(f, "timeout") /\ scope' = [scope EXCEPT ![f] = @ \cup {nspawned + 1}]
             /\ UNCHANGED <<current, at, carried, parent, waits, sent, loopVars>>
    <3>1. nspawned + 1 \in Tasks
      BY <2>1, SpawnTyped
    <3>2. scope' \in [Fibers -> SUBSET Tasks]
      BY <2>1, <3>1
    <3> QED BY <2>1, <3>2, SpawnTyped DEF TimeoutAfter
  <2>2. CASE SpawnRefused
    BY <2>2 DEF SpawnRefused, TimeoutAfter
  <2> QED BY <2>1, <2>2 DEF TimeoutAfter
<1>2. Control'
  BY DEF TimeoutAfter, Spawn, SpawnRefused, Borrowable, Running
<1>3. Borrow'
  BY DEF TimeoutAfter, Spawn, SpawnRefused, Borrowable, Running, Borrow
<1>4. Spawned'
  BY DEF TimeoutAfter, Spawn, SpawnRefused, Borrowable, Running, Spawned
<1>5. HookFutures'
  BY DEF TimeoutAfter, Spawn, SpawnRefused, Borrowable, Running, Spawned,
         HookFutures
<1>6. NoLostUnblock'
  BY DEF TimeoutAfter, Spawn, SpawnRefused, Borrowable, Running, Spawned,
         HookFutures, NoLostUnblock
<1>7. HookHasFuture'
  BY DEF TimeoutAfter, Spawn, SpawnRefused, Borrowable, Running, Spawned,
         HookFutures, HookHasFuture, Arriving
<1> QED BY <1>1, <1>2, <1>3, <1>4, <1>5, <1>6, <1>7

(* the block of timeout_after ends *)
LEMMA TimeoutBlockEndsStep ==
  ASSUME NEW f \in Fibers, IInv, TimeoutBlockEnds(f)
  PROVE  IInv'
<1>1. TypeOK'
  BY DEF TimeoutBlockEnds, Running, Borrow
<1>2. Control' /\ Borrow'
  BY DEF TimeoutBlockEnds, Running, Borrow
<1>3. Spawned' /\ HookFutures'
  BY DEF TimeoutBlockEnds, Running, Spawned, HookFutures
<1>4. NoLostUnblock' /\ HookHasFuture'
  BY DEF TimeoutBlockEnds, Running, Spawned, HookFutures, NoLostUnblock,
         HookHasFuture, Arriving
<1> QED BY <1>1, <1>2, <1>3, <1>4

(* fiber_impl starts a fiber and leaves its caller suspended *)
LEMMA FiberImplStep ==
  ASSUME NEW f \in AllFibers, NEW g \in Fibers, IInv, Fiber(f, g)
  PROVE  IInv'
<1>1. TypeOK'
  BY DEF Fiber, Running, Borrow
<1>2. Control' /\ Borrow'
  BY DEF Fiber, Running, Borrow
<1>3. Spawned' /\ HookFutures'
  BY DEF Fiber, Running, Spawned, HookFutures
<1>4. NoLostUnblock' /\ HookHasFuture'
  BY DEF Fiber, Running, Spawned, HookFutures, NoLostUnblock, HookHasFuture,
         Arriving
<1> QED BY <1>1, <1>2, <1>3, <1>4

(* a fiber's block ends and control goes back to its parent or the root *)
LEMMA BlockEndsStep ==
  ASSUME NEW f \in Fibers, NEW o \in Outcomes, IInv, BlockEnds(f, o)
  PROVE  IInv'
<1>1. TypeOK'
  <2>1. scope' \in [Fibers -> SUBSET Tasks]
    BY DEF BlockEnds
  <2>2. /\ at' \in [AllFibers -> FiberPoints \cup RootPoints]
        /\ at'[Root] \in RootPoints
        /\ \A g \in Fibers : at'[g] \in FiberPoints
    <3>1. PICK p \in {"dead", "back"} : at' = [at EXCEPT ![f] = p]
      BY DEF BlockEnds, Terminate
    <3> QED BY <3>1
  <2>3. current' \in AllFibers /\ carried' \in Outcomes
    BY DEF BlockEnds, Terminate, SwitchTo
  <2> QED BY <2>1, <2>2, <2>3 DEF BlockEnds
<1>2. Control'
  <2>1. CASE parent[f] = Root /\ Terminate(f, o)
    BY <2>1, RootSuspended DEF BlockEnds, Terminate, SwitchTo, Running
  <2>2. CASE parent[f] # Root /\ Alive(parent[f]) /\ at' = [at EXCEPT ![f] = "back"]
             /\ SwitchTo(parent[f], o)
    <3>1. parent[f] \in Fibers /\ parent[f] # f
      BY <2>2
    <3>2. at[parent[f]] \in {"hook", "schedule", "back"}
      BY <2>2, <3>1 DEF BlockEnds, Running, Alive
    <3> QED BY <2>2, <3>1, <3>2 DEF BlockEnds, SwitchTo, Running
  <2>3. CASE parent[f] # Root /\ Terminate(f, "err")
    BY <2>3, RootSuspended DEF BlockEnds, Terminate, SwitchTo, Running
  <2> QED BY <2>1, <2>2, <2>3 DEF BlockEnds
<1>3. Borrow'
  BY DEF BlockEnds, Terminate, SwitchTo, Running, Alive, Borrow
<1>4. Spawned'
  BY DEF BlockEnds, Terminate, SwitchTo, Running, Alive, Spawned
<1>5. HookFutures'
  BY DEF BlockEnds, Terminate, SwitchTo, Running, Alive, Spawned, HookFutures
<1>6. NoLostUnblock'
  BY DEF BlockEnds, Terminate, SwitchTo, Running, Alive, Spawned, HookFutures,
         NoLostUnblock
<1>7. HookHasFuture'
  BY DEF BlockEnds, Terminate, SwitchTo, Running, Alive, Spawned, HookFutures,
         HookHasFuture, Arriving
<1> QED BY <1>1, <1>2, <1>3, <1>4, <1>5, <1>6, <1>7

(* spawn_and_transfer returns in the fiber *)
LEMMA HookReturnsStep ==
  ASSUME NEW f \in Fibers, IInv, HookReturns(f)
  PROVE  IInv'
<1>1. TypeOK'
  BY DEF HookReturns, Arriving, Borrow
<1>2. Control' /\ Borrow'
  BY DEF HookReturns, Arriving, Borrow
<1>3. Spawned' /\ HookFutures'
  BY DEF HookReturns, Arriving, Spawned, HookFutures
<1>4. NoLostUnblock' /\ HookHasFuture'
  BY DEF HookReturns, Arriving, Spawned, HookFutures, NoLostUnblock,
         HookHasFuture
<1> QED BY <1>1, <1>2, <1>3, <1>4

(* fiber_impl returns in its caller *)
LEMMA FiberReturnsStep ==
  ASSUME NEW f \in AllFibers, IInv, FiberReturns(f)
  PROVE  IInv'
<1>1. TypeOK'
  BY DEF FiberReturns, Arriving, Borrow
<1>2. Control' /\ Borrow'
  BY DEF FiberReturns, Arriving, Borrow
<1>3. Spawned' /\ HookFutures'
  BY DEF FiberReturns, Arriving, Spawned, HookFutures
<1>4. NoLostUnblock' /\ HookHasFuture'
  BY DEF FiberReturns, Arriving, Spawned, HookFutures, NoLostUnblock,
         HookHasFuture
<1> QED BY <1>1, <1>2, <1>3, <1>4

(* the wrapper of a nested block returns *)
LEMMA WrapperReturnsStep ==
  ASSUME NEW f \in Fibers, IInv, WrapperReturns(f)
  PROVE  IInv'
<1>1. TypeOK'
  BY DEF WrapperReturns, Terminate, SwitchTo, Arriving, Borrow
<1>2. Control' /\ Borrow'
  BY DEF WrapperReturns, Terminate, SwitchTo, Arriving, Borrow
<1>3. Spawned' /\ HookFutures'
  BY DEF WrapperReturns, Terminate, SwitchTo, Arriving, Spawned, HookFutures
<1>4. NoLostUnblock' /\ HookHasFuture'
  BY DEF WrapperReturns, Terminate, SwitchTo, Arriving, Spawned, HookFutures,
         NoLostUnblock, HookHasFuture
<1> QED BY <1>1, <1>2, <1>3, <1>4

(* unblock removes the sender and sends *)
LEMMA UnblockStep ==
  ASSUME NEW f \in Fibers, IInv, Unblock(f)
  PROVE  IInv'
<1>1. TypeOK'
  <2>1. blockers' \in [AllFibers -> Tasks \cup {NoTask, Severed}]
    BY DEF Unblock
  <2>2. sent' \subseteq Tasks
    BY DEF Unblock, ReceiverAlive
  <2> QED BY <2>1, <2>2 DEF Unblock
<1>2. Control'
  BY DEF Unblock, Alive, ReceiverAlive
<1>3. Borrow'
  BY DEF Unblock, Alive, ReceiverAlive, Borrow
<1>4. Spawned'
  BY DEF Unblock, Alive, ReceiverAlive, Spawned
<1>5. HookFutures'
  BY DEF Unblock, Alive, ReceiverAlive, Spawned, HookFutures
<1>6. NoLostUnblock'
  BY DEF Unblock, Alive, ReceiverAlive, Spawned, HookFutures, NoLostUnblock
<1>7. HookHasFuture'
  BY DEF Unblock, Alive, ReceiverAlive, Spawned, HookFutures, HookHasFuture,
         Arriving
<1> QED BY <1>1, <1>2, <1>3, <1>4, <1>5, <1>6, <1>7

(* run borrows futures_to_run and awaits *)
LEMMA RunStep ==
  ASSUME NEW b \in BOOLEAN, IInv, Run(b)
  PROVE  IInv'
<1>1. TypeOK'
  BY DEF Run, EnterSelect, Borrowable, Running, Borrow
<1>2. Control' /\ Borrow'
  BY DEF Run, EnterSelect, Borrowable, Running, Borrow
<1>3. Spawned' /\ HookFutures'
  BY DEF Run, EnterSelect, Borrowable, Running, Spawned, HookFutures
<1>4. NoLostUnblock' /\ HookHasFuture'
  BY DEF Run, EnterSelect, Borrowable, Running, Spawned, HookFutures,
         NoLostUnblock, HookHasFuture, Arriving
<1> QED BY <1>1, <1>2, <1>3, <1>4

(* check_interrupts fails: abort_all, and run returns Err *)
LEMMA InterruptStep ==
  ASSUME IInv, Interrupt
  PROVE  IInv'
<1>1. TypeOK'
  BY DEF Interrupt, RunReturns, Selecting, Borrow
<1>2. Control' /\ Borrow'
  BY DEF Interrupt, RunReturns, Selecting, Borrow
<1>3. Spawned' /\ HookFutures'
  BY DEF Interrupt, RunReturns, Selecting, Spawned, HookFutures
<1>4. NoLostUnblock' /\ HookHasFuture'
  BY DEF Interrupt, RunReturns, Selecting, Spawned, HookFutures,
         NoLostUnblock, HookHasFuture, Arriving
<1> QED BY <1>1, <1>2, <1>3, <1>4

(* run returns Ok *)
LEMMA JoinNoneStep ==
  ASSUME IInv, JoinNone
  PROVE  IInv'
<1>1. TypeOK'
  BY DEF JoinNone, RunReturns, Selecting, Borrow
<1>2. Control' /\ Borrow'
  BY DEF JoinNone, RunReturns, Selecting, Borrow
<1>3. Spawned' /\ HookFutures'
  BY DEF JoinNone, RunReturns, Selecting, Spawned, HookFutures
<1>4. NoLostUnblock' /\ HookHasFuture'
  BY DEF JoinNone, RunReturns, Selecting, Spawned, HookFutures, NoLostUnblock,
         HookHasFuture, Arriving
<1> QED BY <1>1, <1>2, <1>3, <1>4

(* resume_if_alive returns: run borrows again, or returns Err *)
LEMMA ResumeReturnsStep ==
  ASSUME IInv, ResumeReturns
  PROVE  IInv'
<1>1. TypeOK'
  <2>1. /\ at' \in [AllFibers -> FiberPoints \cup RootPoints]
        /\ at'[Root] \in RootPoints
        /\ \A g \in Fibers : at'[g] \in FiberPoints
    BY DEF ResumeReturns, EnterSelect, RunReturns
  <2>2. write_count' \in Nat /\ runtime' \in {"open", "closed"}
    BY DEF ResumeReturns, EnterSelect, RunReturns
  <2> QED BY <2>1, <2>2 DEF ResumeReturns
<1>2. Control'
  BY DEF ResumeReturns, EnterSelect, RunReturns, Borrowable, Arriving
<1>3. Borrow'
  BY DEF ResumeReturns, EnterSelect, RunReturns, Borrowable, Arriving, Borrow
<1>4. Spawned'
  BY DEF ResumeReturns, EnterSelect, RunReturns, Borrowable, Arriving, Spawned
<1>5. HookFutures'
  BY DEF ResumeReturns, EnterSelect, RunReturns, Borrowable, Arriving,
         Spawned, HookFutures
<1>6. NoLostUnblock'
  BY DEF ResumeReturns, EnterSelect, RunReturns, Borrowable, Arriving,
         Spawned, HookFutures, NoLostUnblock
<1>7. HookHasFuture'
  BY DEF ResumeReturns, EnterSelect, RunReturns, Borrowable, Arriving,
         Spawned, HookFutures, HookHasFuture
<1> QED BY <1>1, <1>2, <1>3, <1>4, <1>5, <1>6, <1>7

(* the raise made by a timeout future returns *)
LEMMA RaiseReturnsStep ==
  ASSUME IInv, RaiseReturns
  PROVE  IInv'
<1>1. TypeOK'
  BY DEF RaiseReturns, Ready, Arriving, Borrow
<1>2. Control' /\ Borrow'
  BY DEF RaiseReturns, Ready, Arriving, Borrow
<1>3. Spawned' /\ HookFutures'
  BY DEF RaiseReturns, Ready, Arriving, Spawned, HookFutures
<1>4. NoLostUnblock' /\ HookHasFuture'
  BY DEF RaiseReturns, Ready, Arriving, Spawned, HookFutures, NoLostUnblock,
         HookHasFuture
<1> QED BY <1>1, <1>2, <1>3, <1>4

(* run drops the borrow and resumes the fiber of a finished future *)
LEMMA JoinNextStep ==
  ASSUME NEW t \in Tasks, IInv, JoinNext(t)
  PROVE  IInv'
<1>a. owner[t] \in Fibers /\ current = Root /\ carried = "none"
  BY DEF JoinNext, TakeOutput, Selecting, Spawned
<1>1. TypeOK'
  <2>1. state' \in [Tasks -> TaskStates] /\ output' \in [Tasks -> Outcomes \cup {"none"}]
    BY DEF JoinNext, TakeOutput
  <2>2. CASE Alive(owner[t]) /\ ResumeIfAlive(t) /\ write_count' = write_count - 1
    <3>1. write_count' \in Nat
      BY <2>2 DEF Borrow, JoinNext, TakeOutput, Selecting
    <3> QED BY <1>a, <2>1, <2>2, <3>1 DEF Spawned, JoinNext, TakeOutput, ResumeIfAlive, SwitchTo
  <2>3. CASE UNCHANGED <<current, at, carried, write_count, task>>
    BY <2>1, <2>3 DEF JoinNext, TakeOutput
  <2> QED BY <2>2, <2>3 DEF JoinNext, ResumeIfAlive
<1>2. Control'
  BY <1>a DEF JoinNext, TakeOutput, ResumeIfAlive, SwitchTo, Selecting, Alive, Spawned
<1>3. Borrow'
  BY DEF JoinNext, TakeOutput, ResumeIfAlive, SwitchTo, Selecting, Alive,
         Borrow
<1>4. Spawned'
  BY DEF JoinNext, TakeOutput, ResumeIfAlive, SwitchTo, Selecting, Alive,
         Spawned
<1>5. HookFutures'
  BY DEF JoinNext, TakeOutput, ResumeIfAlive, SwitchTo, Selecting, Alive,
         Spawned, HookFutures
<1>6. NoLostUnblock'
  BY DEF JoinNext, TakeOutput, ResumeIfAlive, SwitchTo, Selecting, Alive,
         Spawned, HookFutures, NoLostUnblock
<1>7. HookHasFuture'
  <2> SUFFICES ASSUME NEW f \in Fibers, at'[f] = "hook", ~interrupted'
               PROVE  \/ state'[waits'[f]] \in {"pending", "ready"}
                      \/ Arriving(f)' /\ at'[Root] = "resume" /\ task' = waits'[f]
    BY DEF HookHasFuture
  <2>1. /\ at[f] = "hook" /\ waits' = waits
        /\ state[waits[f]] \in {"pending", "ready"}
    BY <1>a DEF JoinNext, TakeOutput, ResumeIfAlive, HookHasFuture, Arriving
  <2>2. CASE waits[f] = t
    <3>1. owner[t] = f /\ Alive(f)
      BY <2>1, <2>2 DEF HookFutures, Alive
    <3>2. ResumeIfAlive(t) /\ output[t] \in Outcomes
      BY <3>1 DEF JoinNext, TakeOutput, Spawned
    <3> QED BY <2>1, <2>2, <3>1, <3>2 DEF ResumeIfAlive, SwitchTo, Arriving
  <2>3. CASE waits[f] # t
    BY <2>1, <2>3 DEF JoinNext, TakeOutput
  <2> QED BY <2>2, <2>3
<1> QED BY <1>1, <1>2, <1>3, <1>4, <1>5, <1>6, <1>7

(* run logs a cancelled future *)
LEMMA JoinErrorStep ==
  ASSUME NEW t \in Tasks, IInv, JoinError(t)
  PROVE  IInv'
<1>1. TypeOK'
  BY DEF JoinError, Selecting, Borrow
<1>2. Control' /\ Borrow'
  BY DEF JoinError, Selecting, Borrow
<1>3. Spawned' /\ HookFutures'
  BY DEF JoinError, Selecting, Spawned, HookFutures
<1>4. NoLostUnblock' /\ HookHasFuture'
  BY DEF JoinError, Selecting, Spawned, HookFutures, NoLostUnblock,
         HookHasFuture, Arriving
<1> QED BY <1>1, <1>2, <1>3, <1>4

(* the future of kernel_sleep finishes *)
LEMMA PollSleepStep ==
  ASSUME NEW t \in Tasks, IInv, PollSleep(t)
  PROVE  IInv'
<1>1. TypeOK'
  BY DEF PollSleep, Ready, Selecting, Borrow
<1>2. Control' /\ Borrow'
  BY DEF PollSleep, Ready, Selecting, Borrow
<1>3. Spawned' /\ HookFutures'
  BY DEF PollSleep, Ready, Selecting, Spawned, HookFutures
<1>4. NoLostUnblock' /\ HookHasFuture'
  BY DEF PollSleep, Ready, Selecting, Spawned, HookFutures, NoLostUnblock,
         HookHasFuture, Arriving
<1> QED BY <1>1, <1>2, <1>3, <1>4

(* the future of address_resolve finishes *)
LEMMA PollResolveStep ==
  ASSUME NEW t \in Tasks, IInv, PollResolve(t)
  PROVE  IInv'
<1>1. TypeOK'
  BY DEF PollResolve, Ready, Selecting, Borrow
<1>2. Control' /\ Borrow'
  BY DEF PollResolve, Ready, Selecting, Borrow
<1>3. Spawned' /\ HookFutures'
  BY DEF PollResolve, Ready, Selecting, Spawned, HookFutures
<1>4. NoLostUnblock' /\ HookHasFuture'
  BY DEF PollResolve, Ready, Selecting, Spawned, HookFutures, NoLostUnblock,
         HookHasFuture, Arriving
<1> QED BY <1>1, <1>2, <1>3, <1>4

(* the future of block finishes *)
LEMMA PollBlockStep ==
  ASSUME NEW t \in Tasks, IInv, PollBlock(t)
  PROVE  IInv'
<1>1. TypeOK'
  <2>1. blockers' \in [AllFibers -> Tasks \cup {NoTask, Severed}]
    BY DEF PollBlock
  <2>2. state' \in [Tasks -> TaskStates] /\ output' \in [Tasks -> Outcomes \cup {"none"}]
    BY DEF PollBlock, Ready
  <2> QED BY <2>1, <2>2 DEF PollBlock
<1>2. Control'
  BY DEF PollBlock, Ready, Selecting
<1>3. Borrow'
  BY DEF PollBlock, Ready, Selecting, Borrow
<1>4. Spawned'
  <2>1. PICK o \in Outcomes : Ready(t, o)
    BY DEF PollBlock
  <2> QED BY <2>1 DEF PollBlock, Ready, Spawned
<1>5. HookFutures'
  BY DEF PollBlock, Ready, Selecting, Spawned, HookFutures
<1>6. NoLostUnblock'
  BY DEF PollBlock, Ready, Selecting, Spawned, HookFutures, NoLostUnblock
<1>7. HookHasFuture'
  BY DEF PollBlock, Ready, Selecting, Spawned, HookFutures, HookHasFuture,
         Arriving
<1> QED BY <1>1, <1>2, <1>3, <1>4, <1>5, <1>6, <1>7

(* the future of timeout_after raises in its fiber *)
LEMMA PollTimeoutStep ==
  ASSUME NEW t \in Tasks, IInv, PollTimeout(t)
  PROVE  IInv'
<1>1. TypeOK'
  <2>1. CASE ~Alive(owner[t]) /\ Ready(t, "err") /\ UNCHANGED <<current, at, carried, task>>
    BY <2>1 DEF PollTimeout, Ready
  <2>2. CASE Alive(owner[t]) /\ at' = [at EXCEPT ![Root] = "poll"] /\ task' = t
             /\ SwitchTo(owner[t], "err") /\ UNCHANGED <<state, output>>
    BY <2>2 DEF PollTimeout, SwitchTo
  <2> QED BY <2>1, <2>2 DEF PollTimeout
<1>2. Control'
  BY DEF PollTimeout, Ready, SwitchTo, Selecting, Alive
<1>3. Borrow'
  BY DEF PollTimeout, Ready, SwitchTo, Selecting, Alive, Borrow
<1>4. Spawned'
  BY DEF PollTimeout, Ready, SwitchTo, Selecting, Alive, Spawned
<1>5. HookFutures'
  BY DEF PollTimeout, Ready, SwitchTo, Selecting, Alive, Spawned, HookFutures
<1>6. NoLostUnblock'
  BY DEF PollTimeout, Ready, SwitchTo, Selecting, Alive, Spawned, HookFutures,
         NoLostUnblock
<1>7. HookHasFuture'
  BY DEF PollTimeout, Ready, SwitchTo, Selecting, Alive, Spawned, HookFutures,
         HookHasFuture, Arriving
<1> QED BY <1>1, <1>2, <1>3, <1>4, <1>5, <1>6, <1>7

(* an aborted future is dropped *)
LEMMA PollAbortedStep ==
  ASSUME NEW t \in Tasks, IInv, PollAborted(t)
  PROVE  IInv'
<1>1. TypeOK'
  BY DEF PollAborted, Selecting, Borrow
<1>2. Control' /\ Borrow'
  BY DEF PollAborted, Selecting, Borrow
<1>3. Spawned' /\ HookFutures'
  BY DEF PollAborted, Selecting, Spawned, HookFutures
<1>4. NoLostUnblock' /\ HookHasFuture'
  BY DEF PollAborted, Selecting, Spawned, HookFutures, NoLostUnblock,
         HookHasFuture, Arriving
<1> QED BY <1>1, <1>2, <1>3, <1>4

HIDE DEF AllFibers, Tasks, NoTask, Severed, Outcomes, FiberPoints, RootPoints,
         TaskStates, TaskKinds, fiberVars, joinVars, blockVars, loopVars,
         IInv, TypeOK, Control

-----------------------------------------------------------------------------
(* A step that changes nothing preserves the invariant. *)
LEMMA Stutter == IInv /\ UNCHANGED vars => IInv'
  BY DEF vars, IInv, TypeOK, Control, Borrow, Spawned, HookFutures, NoLostUnblock,
     HookHasFuture, Arriving

(* Every step preserves the invariant. *)
LEMMA NextIInv == IInv /\ [Next]_vars => IInv'
<1> SUFFICES ASSUME IInv, Next PROVE IInv'
  BY Stutter
<1>1. ASSUME NEW f \in Fibers, FiberCall(f) PROVE IInv'
  <2>1. CASE KernelSleep(f) BY <2>1, HookStep DEF KernelSleep
  <2>2. CASE AddressResolve(f) BY <2>2, HookStep DEF AddressResolve
  <2>3. CASE \E k \in {"block", "timed_block"} : Block(f, k) BY <2>3, BlockStep
  <2>4. CASE TimeoutAfter(f) BY <2>4, TimeoutAfterStep
  <2>5. CASE TimeoutBlockEnds(f) BY <2>5, TimeoutBlockEndsStep
  <2>6. CASE \E g \in Fibers : Fiber(f, g) BY <2>6, FiberImplStep DEF AllFibers
  <2>7. CASE BlockEnds(f, "err") BY <2>7, BlockEndsStep DEF Outcomes
  <2> QED BY <1>1, <2>1, <2>2, <2>3, <2>4, <2>5, <2>6, <2>7 DEF FiberCall
<1>2. ASSUME NEW f \in Fibers, FiberProgress(f) PROVE IInv'
  <2>1. CASE BlockEnds(f, "ok") BY <2>1, BlockEndsStep DEF Outcomes
  <2>2. CASE HookReturns(f) BY <2>2, HookReturnsStep
  <2>3. CASE FiberReturns(f) BY <2>3, FiberReturnsStep DEF AllFibers
  <2>4. CASE WrapperReturns(f) BY <2>4, WrapperReturnsStep
  <2> QED BY <1>2, <2>1, <2>2, <2>3, <2>4 DEF FiberProgress
<1>3. ASSUME NEW f \in Fibers, Unblock(f) PROVE IInv'
  BY <1>3, UnblockStep
<1>4. CASE RootCall
  <2>1. CASE \E g \in Fibers : Fiber(Root, g) BY <2>1, FiberImplStep DEF AllFibers
  <2>2. CASE Run(FALSE) BY <2>2, RunStep
  <2>3. CASE Interrupt BY <2>3, InterruptStep
  <2> QED BY <1>4, <2>1, <2>2, <2>3 DEF RootCall
<1>5. CASE RootProgress
  <2>1. CASE FiberReturns(Root) BY <2>1, FiberReturnsStep DEF AllFibers
  <2>2. CASE Run(TRUE) BY <2>2, RunStep
  <2>3. CASE JoinNone BY <2>3, JoinNoneStep
  <2>4. CASE ResumeReturns BY <2>4, ResumeReturnsStep
  <2>5. CASE RaiseReturns BY <2>5, RaiseReturnsStep
  <2> QED BY <1>5, <2>1, <2>2, <2>3, <2>4, <2>5 DEF RootProgress
<1>6. ASSUME NEW t \in Tasks, TaskProgress(t) PROVE IInv'
  <2>1. CASE JoinNext(t) BY <2>1, JoinNextStep
  <2>2. CASE JoinError(t) BY <2>2, JoinErrorStep
  <2>3. CASE PollSleep(t) BY <2>3, PollSleepStep
  <2>4. CASE PollResolve(t) BY <2>4, PollResolveStep
  <2>5. CASE PollBlock(t) BY <2>5, PollBlockStep
  <2>6. CASE PollTimeout(t) BY <2>6, PollTimeoutStep
  <2>7. CASE PollAborted(t) BY <2>7, PollAbortedStep
  <2> QED BY <1>6, <2>1, <2>2, <2>3, <2>4, <2>5, <2>6, <2>7 DEF TaskProgress
<1>7. ASSUME UNCHANGED vars PROVE IInv'
  BY <1>7, Stutter
<1> QED
  BY <1>1, <1>2, <1>3, <1>4, <1>5, <1>6, <1>7 DEF Next, PollPending, ThreadExited

(* Every reachable state satisfies the invariant. *)
THEOREM Invariance == Spec => []IInv
  BY InitIInv, NextIInv, PTL DEF Spec

(* The variables keep their types; the borrow counter of futures_to_run    *)
(* stays a natural number.                                                 *)
THEOREM TypeCorrect == Spec => []TypeOK
<1>1. IInv => TypeOK
  BY DEF IInv
<1> QED BY <1>1, Invariance, PTL

(* try_borrow_mut in spawn fails only while a timeout future is raising:   *)
(* the guard of GcCell never refuses a fiber that run has resumed or that  *)
(* the root fiber has started.                                             *)
THEOREM RefusalTheorem == Spec => []SpawnRefusedOnlyUnderRaise
<1>1. IInv => SpawnRefusedOnlyUnderRaise
  BY RootAssumption DEF IInv, TypeOK, Control, Borrow, SpawnRefusedOnlyUnderRaise, Running,
     Borrowable, AllFibers, RootPoints
<1> QED BY <1>1, Invariance, PTL

(* The sender in blockers is that of the future the blocked fiber waits    *)
(* for, until it is sent to: no unblock of a blocked fiber is lost.        *)
THEOREM UnblockTheorem == Spec => []NoLostUnblock
<1>1. IInv => NoLostUnblock
  BY DEF IInv
<1> QED BY <1>1, Invariance, PTL

(* A fiber suspended in a hook has its future in the JoinSet or is being   *)
(* resumed with it, until an interrupt.                                    *)
THEOREM HookTheorem == Spec => []HookHasFuture
<1>1. IInv => HookHasFuture
  BY DEF IInv
<1> QED BY <1>1, Invariance, PTL
=============================================================================
