----------------------------- MODULE HooksProofs -----------------------------
(***************************************************************************)
(* TokioScheduler implements FiberHooks, for any fibers and futures: the   *)
(* initial states map to an initial state, and every step of the scheduler *)
(* maps to a step of FiberHooks or to a stuttering step. The mapping is    *)
(* that of TokioSchedulerHooks.                                            *)
(***************************************************************************)
EXTENDS TokioSchedulerHooks, WakeupProofs

(* Only an interrupt of run aborts a future. *)
AbortedByInterrupt == \A t \in Tasks : state[t] = "aborted" => interrupted

HInv == IInv /\ Nesting /\ Order /\ AbortedByInterrupt

-----------------------------------------------------------------------------
(* Every step preserves the invariant. *)
LEMMA NextAborted == IInv /\ AbortedByInterrupt /\ [Next]_vars => AbortedByInterrupt'
<1> SUFFICES ASSUME IInv, AbortedByInterrupt, [Next]_vars PROVE AbortedByInterrupt'
  OBVIOUS
<1>1. state \in [Tasks -> TaskStates]
  BY DEF IInv, TypeOK
<1>2. ASSUME interrupted' = interrupted, NEW t, NEW s \in TaskStates \ {"aborted"},
             state' = [state EXCEPT ![t] = s] \/ UNCHANGED state
      PROVE  AbortedByInterrupt'
  BY <1>1, <1>2 DEF AbortedByInterrupt
<1>3. ASSUME NEW f \in Fibers, FiberCall(f) \/ FiberProgress(f) \/ Unblock(f)
      PROVE  /\ interrupted' = interrupted
             /\ state' = [state EXCEPT ![nspawned + 1] = "pending"] \/ UNCHANGED state
  BY <1>3 DEF FiberCall, FiberProgress, KernelSleep, AddressResolve, Block, TimeoutAfter,
     TimeoutBlockEnds, Fiber, BlockEnds, HookReturns, FiberReturns, WrapperReturns, Unblock,
     SpawnAndTransfer, SpawnRefused, Spawn, joinVars, loopVars
<1>4. ASSUME RootCall \/ RootProgress
      PROVE  \/ interrupted'
             \/ /\ interrupted' = interrupted
                /\ state' = [state EXCEPT ![task] = "ready"] \/ UNCHANGED state
  BY <1>4 DEF RootCall, RootProgress, Fiber, Run, Interrupt, FiberReturns, JoinNone, ResumeReturns,
     RaiseReturns, Ready, joinVars, loopVars
<1>5. ASSUME NEW t \in Tasks, TaskProgress(t)
      PROVE  /\ interrupted' = interrupted
             /\ \E s \in {"ready", "joined", "cancelled"} :
                   state' = [state EXCEPT ![t] = s] \/ UNCHANGED state
  BY <1>5 DEF TaskProgress, JoinNext, TakeOutput, JoinError, PollSleep, PollResolve, PollBlock,
     PollTimeout, PollAborted, Ready, loopVars
<1>6. ASSUME UNCHANGED vars PROVE AbortedByInterrupt'
  BY <1>6 DEF vars, AbortedByInterrupt
<1>7. ASSUME RootCall \/ RootProgress PROVE AbortedByInterrupt'
  BY <1>2, <1>4, <1>7 DEF AbortedByInterrupt, TaskStates
<1>8. ASSUME NEW f \in Fibers, FiberCall(f) \/ FiberProgress(f) \/ Unblock(f)
      PROVE  AbortedByInterrupt'
  BY <1>2, <1>3, <1>8 DEF TaskStates
<1>9. ASSUME NEW t \in Tasks, TaskProgress(t) PROVE AbortedByInterrupt'
  BY <1>2, <1>5, <1>9 DEF TaskStates
<1> QED BY <1>6, <1>7, <1>8, <1>9 DEF Next, PollPending, ThreadExited

(* Every reachable state satisfies the invariant. *)
THEOREM HooksInvariance == Spec => []HInv
<1>1. Init => AbortedByInterrupt
  BY DEF Init, AbortedByInterrupt
<1>2. HInv /\ [Next]_vars => HInv'
  BY NextIInv, NextNesting, NextOrder, NextAborted DEF HInv
<1>3. Init => HInv
  BY <1>1, InitIInv, InitOrder DEF HInv
<1> QED BY <1>2, <1>3, PTL DEF Spec

-----------------------------------------------------------------------------
(* The mapping. *)

(* what a fiber does, by where it stands *)
LEMMA Phases ==
  ASSUME NEW f
  PROVE  /\ at[f] = "unborn" /\ ~Arriving(f) => PhaseOf(f) = "unborn"
         /\ at[f] = "schedule" /\ ~Arriving(f) => PhaseOf(f) = "schedule"
         /\ at[f] = "hook" /\ ~Arriving(f) => PhaseOf(f) = "hook"
         /\ at[f] \in {"back", "dead"} => PhaseOf(f) = "ended"
         /\ at[f] = "user" => PhaseOf(f) = "running"
         /\ at[f] \in {"unborn", "schedule", "hook"} /\ Arriving(f) => PhaseOf(f) = "running"
  BY DEF PhaseOf

(* how far a call has come, by the state of its future *)
LEMMA CallResults ==
  ASSUME NEW t
  PROVE  /\ state[t] = "unspawned" => ResultOf(t) = "none"
         /\ state[t] \in {"joined", "cancelled"} => ResultOf(t) = "gone"
         /\ state[t] = "ready" /\ kind[t] # "timeout" => ResultOf(t) = output[t]
         /\ state[t] \in {"pending", "aborted"} /\ kind[t] # "timeout" => ResultOf(t) = "pending"
         /\ state[t] = "ready" /\ kind[t] = "timeout" => ResultOf(t) = "gone"
         /\ state[t] \in {"pending", "aborted"} /\ kind[t] = "timeout" =>
               ResultOf(t) = IF at[Root] = "poll" /\ task = t THEN "gone" ELSE "armed"
  BY DEF ResultOf

(* A fiber whose variables do not change, and that is not switched to or   *)
(* from, does what it did. *)
LEMMA SamePhase ==
  ASSUME NEW f, at'[f] = at[f], Arriving(f)' <=> Arriving(f)
  PROVE  PhaseOf(f)' = PhaseOf(f)
  BY DEF PhaseOf

(* A future whose variables do not change, and that neither begins nor     *)
(* ends to raise, has the result it had.                                   *)
LEMMA SameResult ==
  ASSUME NEW t, state'[t] = state[t], kind'[t] = kind[t], output'[t] = output[t],
         at'[Root] = "poll" /\ task' = t <=> at[Root] = "poll" /\ task = t
  PROVE  ResultOf(t)' = ResultOf(t)
  BY DEF ResultOf

(* While the root fiber has control, no fiber runs. *)
LEMMA RootMeansIdle ==
  ASSUME IInv, current = Root
  PROVE  /\ Hooks!Idle
         /\ \A f \in Fibers : ~Arriving(f) /\ at[f] # "user"
<1>1. \A f \in Fibers : ~Arriving(f) /\ at[f] # "user"
  BY RootAssumption DEF IInv, Control, AllFibers, Arriving
<1>2. \A f \in Fibers : PhaseOf(f) # "running"
  BY <1>1, Phases DEF IInv, TypeOK, FiberPoints
<1> QED BY <1>1, <1>2 DEF Hooks!Idle

(* A step that changes nothing FiberHooks speaks of *)
LEMMA StutterMaps ==
  ASSUME UNCHANGED <<parent, owner, interrupted>>,
         \A f \in Fibers : PhaseOf(f)' = PhaseOf(f),
         \A f \in Fibers : WaitOf(f)' = WaitOf(f),
         \A t \in Tasks : ResultOf(t)' = ResultOf(t)
  PROVE  UNCHANGED Hooks!vars
  BY DEF Hooks!vars, WaitOf

-----------------------------------------------------------------------------
(* Every step maps to a step of FiberHooks.                                *)

(* the initial states *)
LEMMA InitMaps == Init => Hooks!Init
<1> SUFFICES ASSUME Init PROVE Hooks!Init
  OBVIOUS
<1>1. \A f \in Fibers : at[f] = "unborn" /\ ~Arriving(f) /\ waits[f] = NoTask
  BY RootAssumption DEF Init, AllFibers, Arriving
<1>2. \A f \in Fibers : PhaseOf(f) = "unborn" /\ WaitOf(f) = NoTask
  BY <1>1, Phases DEF WaitOf
<1>3. \A t \in Tasks : ResultOf(t) = "none"
  BY CallResults DEF Init
<1> QED BY <1>2, <1>3 DEF Init, Hooks!Init

(* a hook is a call: the future it spawns is the one the fiber waits for *)
LEMMA SpawnMaps ==
  ASSUME HInv, NEW f \in Fibers, NEW k \in {"sleep", "resolve", "block", "timed_block"},
         SpawnAndTransfer(f, k), Running(f)
  PROVE  \E c \in Tasks : Hooks!Call(f, c)
<1> USE RootAssumption, MaxTasksAssumption DEF HInv, IInv, AllFibers
<1>0. PICK c \in Tasks : c = nspawned + 1
  BY DEF SpawnAndTransfer, Spawn, Tasks, TypeOK
<1>1. /\ state[c] = "unspawned" /\ at[Root] # "poll" /\ carried = "none"
      /\ at[f] = "user" /\ current' = Root
  BY <1>0 DEF SpawnAndTransfer, Spawn, Running, SwitchTo, Borrowable, Borrow, Spawned, Tasks, TypeOK
<1>2. /\ state' = [state EXCEPT ![c] = "pending"] /\ kind' = [kind EXCEPT ![c] = k]
      /\ owner' = [owner EXCEPT ![c] = f] /\ waits' = [waits EXCEPT ![f] = c]
      /\ at' = [at EXCEPT ![f] = "hook"] /\ UNCHANGED <<parent, output, task, interrupted>>
  BY <1>0 DEF SpawnAndTransfer, Spawn, loopVars
<1>3. \A h \in Fibers : ~Arriving(h) /\ ~Arriving(h)'
  BY <1>1 DEF Arriving
<1>4. PhaseOf(f) = "running" /\ PhaseOf(f)' = "hook"
  BY <1>1, <1>2, <1>3, Phases DEF TypeOK, PhaseOf
<1>5. \A h \in Fibers \ {f} : PhaseOf(h)' = PhaseOf(h) /\ WaitOf(h)' = WaitOf(h)
  BY <1>2, <1>3, SamePhase DEF TypeOK, WaitOf
<1>6. WaitOf(f)' = c
  BY <1>2, <1>4 DEF WaitOf, TypeOK
<1>7. ResultOf(c) = "none" /\ ResultOf(c)' = "pending"
  BY <1>1, <1>2 DEF ResultOf, TypeOK
<1>8. \A t \in Tasks \ {c} : ResultOf(t)' = ResultOf(t)
  BY <1>1, <1>2, SameResult DEF TypeOK
<1>9. Hooks!Call(f, c)
  BY <1>1, <1>2, <1>4, <1>5, <1>6, <1>7, <1>8 DEF Hooks!Call
<1> QED BY <1>9

(* timeout_after arms a timeout *)
LEMMA TimeoutAfterMaps ==
  ASSUME HInv, NEW f \in Fibers, Spawn(f, "timeout"), Running(f),
         UNCHANGED <<current, at, carried, parent, waits, loopVars>>
  PROVE  \E c \in Tasks : Hooks!Arm(f, c)
<1> USE RootAssumption, MaxTasksAssumption DEF HInv, IInv, AllFibers
<1>0. PICK c \in Tasks : c = nspawned + 1
  BY DEF SpawnAndTransfer, Spawn, Tasks, TypeOK
<1>1. /\ state[c] = "unspawned" /\ at[Root] # "poll" /\ at[f] = "user"
  BY <1>0 DEF Spawn, Running, Borrowable, Borrow, Spawned, Tasks, TypeOK
<1>2. /\ state' = [state EXCEPT ![c] = "pending"] /\ kind' = [kind EXCEPT ![c] = "timeout"]
      /\ owner' = [owner EXCEPT ![c] = f] /\ UNCHANGED <<output, task, interrupted>>
  BY <1>0 DEF Spawn, loopVars
<1>3. PhaseOf(f) = "running"
  BY <1>1, Phases
<1>4. \A h \in Fibers : PhaseOf(h)' = PhaseOf(h) /\ WaitOf(h)' = WaitOf(h)
  BY DEF PhaseOf, WaitOf, Arriving
<1>5. ResultOf(c) = "none" /\ ResultOf(c)' = "armed"
  BY <1>1, <1>2 DEF ResultOf, TypeOK
<1>6. \A t \in Tasks \ {c} : ResultOf(t)' = ResultOf(t)
  BY <1>1, <1>2, SameResult DEF TypeOK
<1>7. Hooks!Arm(f, c)
  BY <1>1, <1>2, <1>3, <1>4, <1>5, <1>6 DEF Hooks!Arm
<1> QED BY <1>7

(* fiber_impl begins a fiber, and its caller waits unless it is the root *)
LEMMA FiberMaps ==
  ASSUME HInv, NEW f \in AllFibers, NEW g \in Fibers, Fiber(f, g)
  PROVE  IF f = Root THEN Hooks!Begin(g) ELSE Hooks!Schedule(f, g)
<1> USE RootAssumption DEF HInv, IInv, AllFibers
<1>1. /\ at[g] = "unborn" /\ current = f /\ f # g /\ carried = "none" /\ at[f] = "user"
      /\ at' = [at EXCEPT ![f] = "schedule", ![g] = "user"]
      /\ parent' = [parent EXCEPT ![g] = f]
      /\ current' = g /\ carried' = carried
      /\ UNCHANGED <<state, kind, owner, output, waits, task, interrupted>>
  BY DEF Fiber, Running, joinVars, loopVars
<1>2. \A h \in Fibers : ~Arriving(h) /\ ~Arriving(h)'
  BY <1>1 DEF Arriving
<1>3. PhaseOf(g) = "unborn" /\ PhaseOf(g)' = "running" /\ WaitOf(g)' = WaitOf(g)
  BY <1>1, <1>2 DEF PhaseOf, WaitOf, TypeOK
<1>4. f # Root => PhaseOf(f) = "running" /\ PhaseOf(f)' = "schedule" /\ WaitOf(f)' = WaitOf(f)
  BY <1>1, <1>2 DEF PhaseOf, WaitOf, TypeOK
<1>5. \A h \in Fibers \ {f, g} : PhaseOf(h)' = PhaseOf(h) /\ WaitOf(h)' = WaitOf(h)
  BY <1>1, <1>2, SamePhase DEF TypeOK, WaitOf
<1>6. at'[Root] = "poll" <=> at[Root] = "poll"
  BY <1>1 DEF TypeOK
<1>7. \A t \in Tasks : ResultOf(t)' = ResultOf(t)
  BY <1>1, <1>6, SameResult
<1>8. CASE f = Root
  <2>1. Hooks!Idle
    BY <1>1, <1>8, RootMeansIdle
  <2> QED BY <1>1, <1>3, <1>5, <1>7, <1>8, <2>1 DEF Hooks!Begin
<1>9. CASE f # Root
  BY <1>1, <1>3, <1>4, <1>5, <1>7, <1>9 DEF Hooks!Schedule
<1> QED BY <1>8, <1>9

(* the block of a fiber ends: a parent that waits for it goes on *)
LEMMA BlockEndsMaps ==
  ASSUME HInv, NEW f \in Fibers, NEW o \in Outcomes, BlockEnds(f, o)
  PROVE  Hooks!End(f)
<1> USE RootAssumption DEF HInv, IInv, AllFibers
<1>1. /\ at[f] = "user" /\ current = f /\ carried = "none" /\ carried' # "none"
      /\ UNCHANGED <<parent, state, kind, output, owner, waits, task, interrupted>>
  BY DEF BlockEnds, Terminate, SwitchTo, Running, joinVars, loopVars, Outcomes
<1>2. PICK q \in {"dead", "back"} : at' = [at EXCEPT ![f] = q]
  BY DEF BlockEnds, Terminate
<1>3. /\ parent[f] # f
      /\ parent[f] \in Fibers => at[parent[f]] \in {"schedule", "back", "dead"}
  <2>1. parent[f] # f /\ \A h \in Fibers : h # f => at[h] # "user"
    BY <1>1 DEF Control
  <2> QED BY <1>1, <2>1 DEF Order, OneChild, Active
<1>4. IF parent[f] \in Fibers /\ at[parent[f]] \in {"schedule", "back"}
      THEN current' = parent[f] ELSE current' = Root
  BY <1>3 DEF BlockEnds, Terminate, SwitchTo, Alive, TypeOK
<1>5. PhaseOf(f) = "running" /\ PhaseOf(f)' = "ended" /\ WaitOf(f)' = WaitOf(f)
  BY <1>1, <1>2 DEF PhaseOf, WaitOf, TypeOK
<1>6. ASSUME NEW h \in Fibers, h # f
      PROVE  /\ PhaseOf(h)' = IF h = parent[f] /\ PhaseOf(h) = "schedule" THEN "running"
                              ELSE PhaseOf(h)
             /\ WaitOf(h)' = WaitOf(h)
  BY <1>1, <1>2, <1>3, <1>4, <1>6 DEF PhaseOf, WaitOf, TypeOK, Arriving
<1>7. \A t \in Tasks : ResultOf(t)' = ResultOf(t)
  <2>1. at'[Root] = at[Root]
    BY <1>2 DEF TypeOK
  <2> QED BY <1>1, <2>1, SameResult
<1> QED BY <1>1, <1>5, <1>6, <1>7 DEF Hooks!End

(* a fiber that was switched to has gone on already, or has ended *)
LEMMA ReturnsMap ==
  ASSUME HInv, NEW f \in Fibers, HookReturns(f) \/ FiberReturns(f) \/ WrapperReturns(f)
  PROVE  UNCHANGED Hooks!vars
<1> USE RootAssumption DEF HInv, IInv, AllFibers
<1>1. /\ current = f /\ carried # "none" /\ at[f] \in {"hook", "schedule", "back"}
      /\ UNCHANGED <<parent, state, kind, output, owner, task, interrupted>>
  BY DEF HookReturns, FiberReturns, WrapperReturns, Arriving, joinVars, loopVars
<1>2. \/ at' = [at EXCEPT ![f] = "user"] /\ at[f] # "back" /\ current' = f
      \/ at' = [at EXCEPT ![f] = "dead"] /\ at[f] = "back" /\ current' = Root
  BY <1>1 DEF HookReturns, FiberReturns, WrapperReturns, Terminate, SwitchTo
<1>3. waits' = waits \/ waits' = [waits EXCEPT ![f] = NoTask]
  BY DEF HookReturns, FiberReturns, WrapperReturns
<1>4. PhaseOf(f)' = PhaseOf(f) /\ PhaseOf(f) # "hook"
  BY <1>1, <1>2 DEF PhaseOf, Arriving, TypeOK
<1>5. \A h \in Fibers \ {f} : PhaseOf(h)' = PhaseOf(h) /\ WaitOf(h)' = WaitOf(h)
  BY <1>1, <1>2, <1>3, SamePhase DEF WaitOf, Arriving, TypeOK
<1>6. \A h \in Fibers : PhaseOf(h)' = PhaseOf(h) /\ WaitOf(h)' = WaitOf(h)
  BY <1>4, <1>5 DEF WaitOf
<1>7. \A t \in Tasks : ResultOf(t)' = ResultOf(t)
  <2>1. at'[Root] = at[Root]
    BY <1>2 DEF TypeOK
  <2> QED BY <1>1, <2>1, SameResult
<1> QED BY <1>1, <1>6, <1>7, StutterMaps

(* Steps of the root fiber and of the futures that switch to no fiber leave *)
(* every fiber as it was. *)
LEMMA SameFibers ==
  ASSUME IInv, current = Root, current' = Root, \A f \in Fibers : at'[f] = at[f], UNCHANGED waits
  PROVE  \A f \in Fibers : PhaseOf(f)' = PhaseOf(f) /\ WaitOf(f)' = WaitOf(f)
<1>1. \A f \in Fibers : ~Arriving(f) /\ ~Arriving(f)'
  BY RootAssumption DEF Arriving
<1> QED BY <1>1, SamePhase DEF WaitOf

(* the root fiber, in run or in fiber_impl, goes on *)
LEMMA RootStepsMap ==
  ASSUME HInv, FiberReturns(Root) \/ (\E b \in BOOLEAN : Run(b)) \/ JoinNone \/ ResumeReturns
               \/ RaiseReturns
  PROVE  UNCHANGED Hooks!vars
<1> USE RootAssumption DEF HInv, IInv, AllFibers
<1>1. /\ current = Root /\ current' = Root /\ UNCHANGED <<parent, waits, kind, owner, interrupted>>
  BY DEF FiberReturns, Run, JoinNone, ResumeReturns, RaiseReturns, Arriving, Running,
     Selecting, Control, joinVars, loopVars
<1>2. PICK p \in {"user", "select", "exited"} : at' = [at EXCEPT ![Root] = p]
  BY DEF FiberReturns, Run, EnterSelect, JoinNone, RunReturns, ResumeReturns, RaiseReturns
<1>3. \A f \in Fibers : PhaseOf(f)' = PhaseOf(f) /\ WaitOf(f)' = WaitOf(f)
  BY <1>1, <1>2, SameFibers DEF TypeOK
<1>4. \A t \in Tasks : ResultOf(t)' = ResultOf(t)
  <2>1. CASE RaiseReturns
    <3>1. /\ at[Root] = "poll" /\ kind[task] = "timeout" /\ state[task] = "pending"
          /\ state' = [state EXCEPT ![task] = "ready"]
          /\ output' = [output EXCEPT ![task] = carried]
      BY <2>1 DEF RaiseReturns, Ready, Order, Roles
    <3>2. at'[Root] # "poll"
      BY <1>2 DEF TypeOK
    <3>3. \A t \in Tasks \ {task} : ResultOf(t)' = ResultOf(t)
      BY <1>1, <3>1, <3>2, SameResult DEF TypeOK
    <3>4. task \in Tasks => ResultOf(task) = "gone"
      BY <3>1 DEF ResultOf
    <3>5. ASSUME NEW t \in Tasks, t = task PROVE ResultOf(t)' = "gone"
      BY <1>1, <3>1, <3>5 DEF ResultOf, TypeOK
    <3> QED BY <3>3, <3>4, <3>5
  <2>2. CASE FiberReturns(Root) \/ (\E b \in BOOLEAN : Run(b)) \/ JoinNone \/ ResumeReturns
    <3>1. UNCHANGED <<state, output>> /\ at[Root] # "poll"
      BY <2>2 DEF FiberReturns, Run, Running, JoinNone, Selecting, ResumeReturns, joinVars
    <3>2. at'[Root] # "poll"
      BY <1>2 DEF TypeOK
    <3> QED BY <1>1, <3>1, <3>2, SameResult
  <2> QED BY <2>1, <2>2
<1> QED BY <1>1, <1>3, <1>4, StutterMaps

(* an interrupt leaves the results as they are *)
LEMMA InterruptMaps ==
  ASSUME HInv, Interrupt
  PROVE  Hooks!Interrupt
<1> USE RootAssumption DEF HInv, IInv, AllFibers
<1>1. /\ current = Root /\ current' = Root /\ at[Root] = "select" /\ interrupted' = TRUE
      /\ UNCHANGED <<parent, waits, kind, output, owner>>
      /\ state' = [t \in Tasks |-> IF state[t] = "pending" THEN "aborted" ELSE state[t]]
  BY DEF Interrupt, Selecting, Control
<1>2. PICK p \in {"user", "exited"} : at' = [at EXCEPT ![Root] = p]
  BY DEF Interrupt, RunReturns
<1>3. \A f \in Fibers : PhaseOf(f)' = PhaseOf(f) /\ WaitOf(f)' = WaitOf(f)
  BY <1>1, <1>2, SameFibers DEF TypeOK
<1>4. \A t \in Tasks : ResultOf(t)' = ResultOf(t)
  <2>1. at'[Root] # "poll"
    BY <1>2 DEF TypeOK
  <2> QED BY <1>1, <2>1 DEF ResultOf
<1> QED BY <1>1, <1>3, <1>4, RootMeansIdle DEF Hooks!Interrupt

(* run joins a future: its result is delivered to the fiber that waits for *)
(* it, or dropped if the fiber has left the hook                           *)
LEMMA JoinNextMaps ==
  ASSUME HInv, NEW t \in Tasks, JoinNext(t)
  PROVE  Hooks!Deliver(t) \/ Hooks!Drop(t) \/ UNCHANGED Hooks!vars
<1> USE RootAssumption, MaxTasksAssumption DEF HInv, IInv, AllFibers
<1>1. /\ current = Root /\ at[Root] = "select" /\ state[t] = "ready" /\ owner[t] \in Fibers
      /\ t # NoTask /\ output[t] \in Outcomes
      /\ state' = [state EXCEPT ![t] = "joined"] /\ output' = [output EXCEPT ![t] = "none"]
      /\ UNCHANGED <<parent, waits, kind, owner, interrupted>>
  BY DEF JoinNext, TakeOutput, Selecting, Control, Spawned, TypeOK, Tasks, NoTask
<1>2. Hooks!Idle /\ \A h \in Fibers : ~Arriving(h) /\ at[h] # "user"
  BY <1>1, RootMeansIdle
<1>3. /\ at'[Root] # "poll" /\ \A h \in Fibers : at'[h] = at[h]
      /\ \/ current' = Root /\ at[owner[t]] \in {"unborn", "dead"}
         \/ current' = owner[t] /\ carried' # "none" /\ at[owner[t]] \notin {"unborn", "dead"}
  BY <1>1 DEF JoinNext, ResumeIfAlive, SwitchTo, Alive, TypeOK, Outcomes
<1>4. \A h \in Fibers : Displaced(h) => at[h] \notin {"user", "hook", "schedule"}
  BY <1>1, DisplacedHasEnded
<1>5. \/ at[owner[t]] = "hook" /\ waits[owner[t]] = t /\ kind[t] # "timeout"
      \/ at[owner[t]] \in {"back", "dead"}
  <2>1. CASE Stray(t)
    <3>1. at[owner[t]] \notin {"user", "hook", "schedule"}
      BY <1>1, <1>4, <2>1 DEF Displaced
    <3>2. at[owner[t]] # "unborn"
      BY <1>1 DEF Nesting, Births, Spawned, TypeOK, Tasks
    <3> QED BY <1>1, <3>1, <3>2 DEF TypeOK, FiberPoints
  <2>2. CASE ~Stray(t)
    <3>1. waits[owner[t]] = t /\ kind[t] # "timeout"
      BY <1>1, <2>2 DEF Stray
    <3> QED BY <1>1, <3>1 DEF Order, Roles
  <2> QED BY <2>1, <2>2
<1>6. /\ ResultOf(t) = IF kind[t] = "timeout" THEN "gone" ELSE output[t]
      /\ ResultOf(t)' = "gone"
  BY <1>1 DEF ResultOf, TypeOK
<1>7. \A u \in Tasks \ {t} : ResultOf(u)' = ResultOf(u)
  BY <1>1, <1>3, SameResult DEF TypeOK
<1>8. \A h \in Fibers \ {owner[t]} : PhaseOf(h)' = PhaseOf(h) /\ WaitOf(h)' = WaitOf(h)
  BY <1>1, <1>2, <1>3, SamePhase DEF WaitOf, Arriving
<1>9. CASE at[owner[t]] = "hook" /\ waits[owner[t]] = t /\ kind[t] # "timeout"
  <2>1. PhaseOf(owner[t]) = "hook" /\ WaitOf(owner[t]) = t
    BY <1>1, <1>2, <1>9, Phases DEF WaitOf
  <2>2. ASSUME NEW h \in Fibers, h = owner[t] PROVE PhaseOf(h)' = "running" /\ WaitOf(h)' = NoTask
    BY <1>3, <1>9, <2>2 DEF PhaseOf, WaitOf, Arriving
  <2>3. Hooks!Deliver(t)
    BY <1>1, <1>2, <1>6, <1>7, <1>8, <1>9, <2>1, <2>2 DEF Hooks!Deliver, Hooks!Outcomes, Outcomes
  <2> QED BY <2>3
<1>10. CASE at[owner[t]] \in {"back", "dead"}
  <2>1. \A h \in Fibers : h = owner[t] =>
           PhaseOf(h) = "ended" /\ PhaseOf(h)' = "ended" /\ WaitOf(h) = NoTask /\ WaitOf(h)' = NoTask
    BY <1>3, <1>10 DEF PhaseOf, WaitOf
  <2>2. \A h \in Fibers : PhaseOf(h)' = PhaseOf(h) /\ WaitOf(h)' = WaitOf(h)
    BY <1>8, <2>1
  <2>3. CASE kind[t] = "timeout"
    BY <1>1, <1>6, <1>7, <2>2, <2>3, StutterMaps
  <2>4. CASE kind[t] # "timeout"
    BY <1>1, <1>2, <1>6, <1>7, <2>1, <2>2, <2>4 DEF Hooks!Drop, Hooks!Outcomes, Outcomes
  <2> QED BY <2>3, <2>4
<1> QED BY <1>5, <1>9, <1>10

(* a poll that switches to no fiber changes one future *)
LEMMA PollFrame ==
  ASSUME HInv, NEW t \in Tasks, Selecting, NEW s \in TaskStates, state' = [state EXCEPT ![t] = s],
         UNCHANGED <<kind, owner, current, at, waits>>,
         UNCHANGED output \/ \E o \in Outcomes : output' = [output EXCEPT ![t] = o]
  PROVE  /\ Hooks!Idle /\ at[Root] = "select"
         /\ \A f \in Fibers : PhaseOf(f)' = PhaseOf(f) /\ WaitOf(f)' = WaitOf(f)
         /\ \A u \in Tasks \ {t} : ResultOf(u)' = ResultOf(u)
<1> USE RootAssumption DEF HInv, IInv, AllFibers
<1>1. current = Root /\ at[Root] = "select"
  BY DEF Selecting, Control
<1>2. \A u \in Tasks \ {t} : ResultOf(u)' = ResultOf(u)
  BY <1>1, SameResult DEF TypeOK
<1> QED BY <1>1, <1>2, SameFibers, RootMeansIdle

(* the future of a hook finishes *)
LEMMA CompleteMaps ==
  ASSUME HInv, NEW t \in Tasks, PollSleep(t) \/ PollResolve(t) \/ PollBlock(t)
  PROVE  \E o \in Outcomes : Hooks!Complete(t, o)
<1>1. PICK o \in Outcomes : Ready(t, o)
  BY DEF PollSleep, PollResolve, PollBlock, Outcomes
<1>2. /\ Selecting /\ state[t] = "pending" /\ kind[t] # "timeout"
      /\ UNCHANGED <<kind, owner, current, at, waits, parent, interrupted>>
  BY DEF PollSleep, PollResolve, PollBlock, fiberVars, loopVars
<1>3. state' = [state EXCEPT ![t] = "ready"] /\ output' = [output EXCEPT ![t] = o]
  BY <1>1 DEF Ready
<1>4. ResultOf(t) = "pending" /\ ResultOf(t)' = o
  BY <1>2, <1>3 DEF ResultOf, HInv, IInv, TypeOK
<1>5. "ready" \in TaskStates
  BY DEF TaskStates
<1>6. /\ Hooks!Idle
      /\ \A f \in Fibers : PhaseOf(f)' = PhaseOf(f) /\ WaitOf(f)' = WaitOf(f)
      /\ \A u \in Tasks \ {t} : ResultOf(u)' = ResultOf(u)
  BY <1>2, <1>3, <1>5, PollFrame
<1> QED BY <1>2, <1>4, <1>6 DEF Hooks!Complete

(* an aborted future is dropped, and the JoinError logged *)
LEMMA AbortedMaps ==
  ASSUME HInv, NEW t \in Tasks
  PROVE  /\ PollAborted(t) => Hooks!Cancel(t)
         /\ JoinError(t) => UNCHANGED Hooks!vars
<1>1. "cancelled" \in TaskStates /\ "joined" \in TaskStates
  BY DEF TaskStates
<1>2. ASSUME PollAborted(t) PROVE Hooks!Cancel(t)
  <2>1. /\ Selecting /\ state[t] = "aborted" /\ interrupted
        /\ state' = [state EXCEPT ![t] = "cancelled"]
        /\ UNCHANGED <<kind, owner, output, current, at, waits, parent, interrupted>>
    BY <1>2 DEF PollAborted, fiberVars, loopVars, HInv, AbortedByInterrupt
  <2>2. /\ Hooks!Idle /\ at[Root] = "select"
        /\ \A f \in Fibers : PhaseOf(f)' = PhaseOf(f) /\ WaitOf(f)' = WaitOf(f)
        /\ \A u \in Tasks \ {t} : ResultOf(u)' = ResultOf(u)
    BY <1>1, <2>1, PollFrame
  <2>3. ResultOf(t) \in {"pending", "armed"} /\ ResultOf(t)' = "gone"
    BY <2>1, <2>2 DEF ResultOf, HInv, IInv, TypeOK
  <2> QED BY <2>1, <2>2, <2>3 DEF Hooks!Cancel
<1>3. ASSUME JoinError(t) PROVE UNCHANGED Hooks!vars
  <2>1. /\ Selecting /\ state[t] = "cancelled"
        /\ state' = [state EXCEPT ![t] = "joined"]
        /\ UNCHANGED <<kind, owner, output, current, at, waits, parent, interrupted>>
    BY <1>3 DEF JoinError, fiberVars, loopVars
  <2>2. /\ \A f \in Fibers : PhaseOf(f)' = PhaseOf(f) /\ WaitOf(f)' = WaitOf(f)
        /\ \A u \in Tasks \ {t} : ResultOf(u)' = ResultOf(u)
    BY <1>1, <2>1, PollFrame
  <2>3. ResultOf(t)' = ResultOf(t)
    BY <2>1 DEF ResultOf, HInv, IInv, TypeOK
  <2> QED BY <2>1, <2>2, <2>3, StutterMaps
<1> QED BY <1>2, <1>3

(* a timeout raises in its fiber, or finds it dead *)
LEMMA PollTimeoutMaps ==
  ASSUME HInv, NEW t \in Tasks, PollTimeout(t)
  PROVE  Hooks!Raise(t)
<1> USE RootAssumption, MaxTasksAssumption DEF HInv, IInv, AllFibers
<1>1. /\ current = Root /\ at[Root] = "select" /\ Selecting /\ state[t] = "pending"
      /\ kind[t] = "timeout" /\ owner[t] \in Fibers /\ at[owner[t]] # "unborn"
      /\ UNCHANGED <<parent, waits, kind, owner, interrupted>>
  BY DEF PollTimeout, Selecting, Control, Spawned, Nesting, Births, TypeOK, Tasks
<1>2. Hooks!Idle /\ \A h \in Fibers : ~Arriving(h) /\ at[h] # "user"
  BY <1>1, RootMeansIdle
<1>3. ResultOf(t) = "armed"
  BY <1>1 DEF ResultOf
<1>4. CASE ~Alive(owner[t])
  <2>1. /\ at[owner[t]] = "dead" /\ UNCHANGED <<current, at>>
        /\ state' = [state EXCEPT ![t] = "ready"] /\ output' = [output EXCEPT ![t] = "err"]
    BY <1>1, <1>4 DEF PollTimeout, Ready, Alive
  <2>2. "ready" \in TaskStates /\ "err" \in Outcomes
    BY DEF TaskStates, Outcomes
  <2>3. /\ \A f \in Fibers : PhaseOf(f)' = PhaseOf(f) /\ WaitOf(f)' = WaitOf(f)
        /\ \A u \in Tasks \ {t} : ResultOf(u)' = ResultOf(u)
    BY <1>1, <2>1, <2>2, PollFrame
  <2>4. ResultOf(t)' = "gone"
    BY <1>1, <2>1 DEF ResultOf, TypeOK
  <2>5. PhaseOf(owner[t]) = "ended"
    BY <2>1 DEF PhaseOf
  <2> QED BY <1>1, <1>2, <1>3, <2>3, <2>4, <2>5 DEF Hooks!Raise
<1>5. CASE Alive(owner[t])
  <2>1. /\ at' = [at EXCEPT ![Root] = "poll"] /\ task' = t /\ current' = owner[t]
        /\ carried' = "err" /\ UNCHANGED <<state, output>>
    BY <1>5 DEF PollTimeout, SwitchTo
  <2>2. at'[Root] = "poll" /\ \A h \in Fibers : at'[h] = at[h]
    BY <2>1 DEF TypeOK
  <2>3. \A u \in Tasks \ {t} : ResultOf(u)' = ResultOf(u)
    BY <1>1, <2>1, SameResult
  <2>4. ResultOf(t)' = "gone"
    BY <1>1, <2>1, <2>2 DEF ResultOf
  <2>5. \A h \in Fibers \ {owner[t]} : PhaseOf(h)' = PhaseOf(h) /\ WaitOf(h)' = WaitOf(h)
    BY <1>1, <1>2, <2>1, <2>2, SamePhase DEF WaitOf, Arriving
  <2>6. CASE at[owner[t]] = "back"
    <3>1. \A h \in Fibers : h = owner[t] =>
             PhaseOf(h) = "ended" /\ PhaseOf(h)' = "ended" /\ WaitOf(h) = NoTask /\ WaitOf(h)' = NoTask
      BY <2>2, <2>6 DEF PhaseOf, WaitOf
    <3>2. \A h \in Fibers : PhaseOf(h)' = PhaseOf(h) /\ WaitOf(h)' = WaitOf(h)
      BY <2>5, <3>1
    <3> QED BY <1>1, <1>2, <1>3, <2>3, <2>4, <3>1, <3>2 DEF Hooks!Raise
  <2>7. CASE at[owner[t]] # "back"
    <3>1. at[owner[t]] \in {"hook", "schedule"}
      BY <1>1, <1>2, <1>5, <2>7 DEF Alive, TypeOK, FiberPoints
    <3>2. PhaseOf(owner[t]) \in {"hook", "schedule"}
      BY <1>1, <1>2, <3>1, Phases
    <3>3. \A h \in Fibers : h = owner[t] => PhaseOf(h)' = "running" /\ WaitOf(h)' = NoTask
      BY <2>1, <2>2, <3>1 DEF PhaseOf, WaitOf, Arriving
    <3> QED BY <1>1, <1>2, <1>3, <2>3, <2>4, <2>5, <3>2, <3>3 DEF Hooks!Raise
  <2> QED BY <2>6, <2>7
<1> QED BY <1>4, <1>5

(* Every step of the scheduler is a step of FiberHooks, or stutters. *)
LEMMA NextMaps == HInv /\ [Next]_vars => [Hooks!Next]_Hooks!vars
<1> SUFFICES ASSUME HInv, [Next]_vars PROVE [Hooks!Next]_Hooks!vars
  OBVIOUS
<1>1. ASSUME UNCHANGED <<current, at, carried, parent, waits, state, kind, owner, output, task,
                         interrupted>>
      PROVE  UNCHANGED Hooks!vars
  BY <1>1, StutterMaps DEF PhaseOf, WaitOf, ResultOf, Arriving
<1>2. ASSUME SpawnRefused PROVE UNCHANGED Hooks!vars
  BY <1>1, <1>2 DEF SpawnRefused, fiberVars, joinVars, loopVars
<1>3. ASSUME NEW f \in Fibers, FiberCall(f) PROVE [Hooks!Next]_Hooks!vars
  <2>1. CASE KernelSleep(f)
    BY <1>2, <2>1, SpawnMaps DEF KernelSleep, Hooks!Next
  <2>2. CASE AddressResolve(f)
    BY <1>2, <2>2, SpawnMaps DEF AddressResolve, Hooks!Next
  <2>3. CASE \E k \in {"block", "timed_block"} : Block(f, k)
    BY <1>2, <2>3, SpawnMaps DEF Block, Hooks!Next
  <2>4. CASE TimeoutAfter(f)
    BY <1>2, <2>4, TimeoutAfterMaps DEF TimeoutAfter, Hooks!Next
  <2>5. CASE TimeoutBlockEnds(f)
    BY <1>1, <2>5 DEF TimeoutBlockEnds, joinVars, loopVars
  <2>6. CASE \E g \in Fibers : Fiber(f, g)
    BY <2>6, FiberMaps, RootAssumption DEF AllFibers, Hooks!Next
  <2>7. CASE BlockEnds(f, "err")
    BY <2>7, BlockEndsMaps DEF Outcomes, Hooks!Next
  <2> QED BY <1>3, <2>1, <2>2, <2>3, <2>4, <2>5, <2>6, <2>7 DEF FiberCall
<1>4. ASSUME NEW f \in Fibers, FiberProgress(f) PROVE [Hooks!Next]_Hooks!vars
  <2>1. CASE BlockEnds(f, "ok")
    BY <2>1, BlockEndsMaps DEF Outcomes, Hooks!Next
  <2> QED BY <1>4, <2>1, ReturnsMap DEF FiberProgress
<1>5. ASSUME NEW f \in Fibers, Unblock(f) PROVE UNCHANGED Hooks!vars
  BY <1>1, <1>5 DEF Unblock, fiberVars, joinVars, loopVars
<1>6. ASSUME RootCall \/ RootProgress PROVE [Hooks!Next]_Hooks!vars
  <2>1. CASE \E g \in Fibers : Fiber(Root, g)
    BY <2>1, FiberMaps DEF AllFibers, Hooks!Next
  <2>2. CASE Interrupt
    BY <2>2, InterruptMaps DEF Hooks!Next
  <2> QED BY <1>6, <2>1, <2>2, RootStepsMap DEF RootCall, RootProgress
<1>7. ASSUME NEW t \in Tasks, TaskProgress(t) PROVE [Hooks!Next]_Hooks!vars
  <2>1. CASE JoinNext(t) BY <2>1, JoinNextMaps DEF Hooks!Next
  <2>2. CASE PollTimeout(t) BY <2>2, PollTimeoutMaps DEF Hooks!Next
  <2>3. CASE PollSleep(t) \/ PollResolve(t) \/ PollBlock(t)
    <3>1. PICK o \in Outcomes : Hooks!Complete(t, o)
      BY <2>3, CompleteMaps
    <3> QED BY <3>1 DEF Hooks!Next, Hooks!Outcomes, Outcomes
  <2>4. CASE JoinError(t) \/ PollAborted(t) BY <2>4, AbortedMaps DEF Hooks!Next
  <2> QED BY <1>7, <2>1, <2>2, <2>3, <2>4 DEF TaskProgress
<1>8. ASSUME UNCHANGED vars PROVE UNCHANGED Hooks!vars
  BY <1>1, <1>8 DEF vars
<1> QED
  BY <1>3, <1>4, <1>5, <1>6, <1>7, <1>8 DEF Next, PollPending, ThreadExited

(* The scheduler implements FiberHooks: a hook returns with the result of  *)
(* its own future, once, or is left by a timeout of its own fiber; a       *)
(* nested block hands control back to the fiber that waits for it; only an *)
(* interrupt takes away a result somebody waits for.                       *)
THEOREM RefinementTheorem == Spec => ImplementsHooks
  BY HooksInvariance, InitMaps, NextMaps, PTL DEF Spec, Hooks!Spec, ImplementsHooks
=============================================================================
