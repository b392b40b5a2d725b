---------------------------- MODULE GcMarkProofs ----------------------------
(***************************************************************************)
(* Theorems about the scheduler under the garbage collector. Collection    *)
(* preserves the invariant IInv of TokioSchedulerProofs, although a freed  *)
(* fiber's address may be used again while its futures are still in the    *)
(* JoinSet; with it, the keys of blockers are what keeps a blocked fiber.  *)
(***************************************************************************)
EXTENDS GcMark, TokioSchedulerProofs

GcInv == IInv /\ NewFiberHasNoSender

-----------------------------------------------------------------------------
(* What mark visits is not collected. *)
LEMMA MarkedIsKept ==
  ASSUME NEW f \in AllFibers, f \in Mark \cup {current}
  PROVE  f \in Marked
  BY DEF Marked, Closed

(* No step of the scheduler itself unmakes a fiber. *)
LEMMA BornStaysBorn ==
  ASSUME IInv, [Next]_vars, NEW f \in Fibers, at[f] # "unborn"
  PROVE  at'[f] # "unborn"
<1> USE RootAssumption DEF AllFibers
<1>1. at \in [AllFibers -> FiberPoints \cup RootPoints]
  BY DEF IInv, TypeOK
<1>2. ASSUME NEW g \in Fibers, FiberCall(g) \/ FiberProgress(g) \/ Unblock(g)
      PROVE  at'[f] # "unborn"
  <2>1. CASE \E h \in Fibers : Fiber(g, h)
    BY <1>1, <2>1 DEF Fiber
  <2>2. CASE ~ \E h \in Fibers : Fiber(g, h)
    <3>1. \/ UNCHANGED at
          \/ \E p \in {"user", "hook", "back", "dead"} : at' = [at EXCEPT ![g] = p]
      BY <1>2, <2>2 DEF FiberCall, FiberProgress, Unblock, KernelSleep, AddressResolve, Block,
         TimeoutAfter, TimeoutBlockEnds, BlockEnds, HookReturns, FiberReturns, WrapperReturns,
         Terminate, SpawnAndTransfer, SpawnRefused, fiberVars
    <3> QED BY <1>1, <3>1
  <2> QED BY <2>1, <2>2
<1>3. ASSUME RootCall \/ RootProgress PROVE at'[f] # "unborn"
  <2>1. CASE \E h \in Fibers : Fiber(Root, h)
    BY <1>1, <2>1 DEF Fiber
  <2>2. CASE ~ \E h \in Fibers : Fiber(Root, h)
    <3>1. \E p : at' = [at EXCEPT ![Root] = p]
      BY <1>3, <2>2 DEF RootCall, RootProgress, Run, EnterSelect, Interrupt, RunReturns, FiberReturns,
         JoinNone, ResumeReturns, RaiseReturns
    <3> QED BY <1>1, <3>1
  <2> QED BY <2>1, <2>2
<1>4. ASSUME NEW t \in Tasks, TaskProgress(t) PROVE at'[f] # "unborn"
  <2>1. UNCHANGED at \/ \E p : at' = [at EXCEPT ![Root] = p]
    BY <1>4 DEF TaskProgress, JoinNext, ResumeIfAlive, JoinError, PollSleep, PollResolve, PollBlock,
       PollTimeout, PollAborted, fiberVars
  <2> QED BY <1>1, <2>1
<1>5. ASSUME UNCHANGED vars PROVE at'[f] # "unborn"
  BY <1>5 DEF vars
<1> QED
  BY <1>2, <1>3, <1>4, <1>5 DEF Next, PollPending, ThreadExited

(* A sender enters blockers only under a fiber that runs. *)
LEMMA SenderOfBorn ==
  ASSUME IInv, [Next]_vars, NEW f \in Fibers, blockers[f] = NoTask, blockers'[f] # NoTask
  PROVE  at[f] # "unborn"
<1> USE RootAssumption DEF AllFibers
<1>1. blockers \in [AllFibers -> Tasks \cup {NoTask, Severed}]
  BY DEF IInv, TypeOK
<1>2. ASSUME NEW g \in Fibers, FiberCall(g) \/ FiberProgress(g)
      PROVE  UNCHANGED blockers \/ \E c : blockers' = [blockers EXCEPT ![g] = c] /\ at[g] = "user"
  BY <1>2 DEF FiberCall, FiberProgress, KernelSleep, AddressResolve, Block, TimeoutAfter,
     TimeoutBlockEnds, Fiber, BlockEnds, HookReturns, FiberReturns, WrapperReturns, Running, blockVars
<1>3. ASSUME NEW g \in Fibers, Unblock(g)
      PROVE  blockers' = [blockers EXCEPT ![g] = NoTask]
  BY <1>3 DEF Unblock
<1>4. ASSUME RootCall \/ RootProgress PROVE UNCHANGED blockers
  BY <1>4 DEF RootCall, RootProgress, Fiber, Run, Interrupt, FiberReturns, JoinNone, ResumeReturns,
     RaiseReturns, blockVars
<1>5. ASSUME NEW t \in Tasks, TaskProgress(t)
      PROVE  UNCHANGED blockers \/ blockers' = [blockers EXCEPT ![current] = NoTask]
  BY <1>5 DEF TaskProgress, JoinNext, TakeOutput, JoinError, PollSleep, PollResolve, PollBlock,
     PollTimeout, PollAborted, blockVars
<1>6. \/ \E g \in Fibers : FiberCall(g) \/ FiberProgress(g)
      \/ UNCHANGED blockers
      \/ \E g : blockers' = [blockers EXCEPT ![g] = NoTask]
  BY <1>3, <1>4, <1>5 DEF Next, PollPending, ThreadExited, vars
<1>7. PICK g \in Fibers : FiberCall(g) \/ FiberProgress(g)
  BY <1>1, <1>6
<1> QED BY <1>1, <1>2, <1>7

-----------------------------------------------------------------------------
(* Every step that is not a collection is a step of the scheduler, or      *)
(* leaves its variables alone. *)
LEMMA GcSteps ==
  ASSUME [GcNext]_gcVars
  PROVE  [Next]_vars \/ \E f \in Fibers : Collect(f)
  BY DEF GcNext, gcVars, FiberStep, TaskStep, TaskDangles, ParentDangles, Next

(* collecting a fiber preserves the invariant *)
LEMMA CollectInv ==
  ASSUME GcInv, NEW f \in Fibers, Collect(f)
  PROVE  GcInv'
<1> USE RootAssumption, MaxTasksAssumption DEF AllFibers, GcInv, IInv
<1>1. f # current /\ blockers[f] = NoTask
  BY MarkedIsKept DEF Collect, Mark
<1>2. /\ at' = [at EXCEPT ![f] = "unborn"] /\ parent' = [parent EXCEPT ![f] = Root]
      /\ scope' = [scope EXCEPT ![f] = {}] /\ waits' = [waits EXCEPT ![f] = NoTask]
      /\ UNCHANGED <<current, carried, state, kind, owner, output, nspawned, blockers, sent,
                     write_count, task, closing, runtime, interrupted>>
  BY DEF Collect, joinVars, blockVars, loopVars
<1>3. TypeOK'
  BY <1>2 DEF TypeOK, FiberPoints, RootPoints
<1>4. at'[f] = "unborn" /\ \A g \in AllFibers \ {f} : at'[g] = at[g]
  BY <1>2 DEF TypeOK
<1>5. \A g \in Fibers \ {f} : waits'[g] = waits[g]
  BY <1>2 DEF TypeOK
<1>6. Control'
  BY <1>1, <1>2, <1>4 DEF Control, TypeOK
<1>7. Borrow' /\ Spawned'
  BY <1>2, <1>4 DEF Borrow, Spawned
<1>8. HookFutures' /\ NoLostUnblock' /\ HookHasFuture'
  BY <1>2, <1>4, <1>5 DEF HookFutures, NoLostUnblock, HookHasFuture, Arriving
<1>9. NewFiberHasNoSender'
  BY <1>1, <1>2, <1>4 DEF NewFiberHasNoSender
<1> QED BY <1>3, <1>6, <1>7, <1>8, <1>9

(* Every step preserves the invariant. *)
LEMMA NextGcInv == GcInv /\ [GcNext]_gcVars => GcInv'
<1> SUFFICES ASSUME GcInv, [GcNext]_gcVars PROVE GcInv'
  OBVIOUS
<1>1. CASE [Next]_vars
  <2>1. IInv'
    BY <1>1, NextIInv DEF GcInv
  <2>2. ASSUME NEW f \in Fibers, at'[f] = "unborn" PROVE blockers'[f] = NoTask
    <3>1. at[f] = "unborn" /\ blockers[f] = NoTask
      BY <1>1, <2>2, BornStaysBorn DEF GcInv, NewFiberHasNoSender
    <3> QED BY <1>1, <3>1, SenderOfBorn DEF GcInv
  <2> QED BY <2>1, <2>2 DEF GcInv, NewFiberHasNoSender
<1> QED BY <1>1, GcSteps, CollectInv

(* The collector breaks none of what IInv says of the scheduler: the       *)
(* borrow counter, the senders of blocked fibers and the futures of        *)
(* waiting fibers are as without it.                                       *)
THEOREM GcInvariance == GcSpec => []GcInv
<1>1. GcInit => GcInv
  BY InitIInv, RootAssumption DEF GcInit, Init, GcInv, NewFiberHasNoSender, AllFibers
<1> QED BY <1>1, NextGcInv, PTL DEF GcSpec

(* No fiber is created at an address under which blockers still holds a    *)
(* sender: mark visits every key, so that fiber was not collected.         *)
THEOREM NewFiberTheorem == GcSpec => []NewFiberHasNoSender
<1>1. GcInv => NewFiberHasNoSender
  BY DEF GcInv
<1> QED BY <1>1, GcInvariance, PTL

(* A blocked fiber is not collected before an unblock or its timeout has   *)
(* reached its future: until then its own sender is in blockers.           *)
THEOREM BlockedKeptTheorem == GcSpec => BlockedKept
<1>1. ASSUME GcInv, [GcNext]_gcVars, NEW f \in Fibers, at[f] = "hook",
             kind[waits[f]] \in {"block", "timed_block"}, state[waits[f]] = "pending",
             waits[f] \notin sent
      PROVE  at'[f] # "unborn"
  <2>1. blockers[f] = waits[f] /\ waits[f] # NoTask
    BY <1>1, MaxTasksAssumption DEF GcInv, IInv, TypeOK, NoLostUnblock, HookFutures, NoTask
  <2>2. f \in Marked
    BY <2>1, MarkedIsKept DEF Mark, AllFibers
  <2>3. CASE [Next]_vars
    BY <1>1, <2>3, BornStaysBorn DEF GcInv
  <2>4. ASSUME NEW g \in Fibers, Collect(g) PROVE at'[f] # "unborn"
    BY <1>1, <2>2, <2>4 DEF Collect, GcInv, IInv, TypeOK, AllFibers
  <2> QED BY <1>1, <2>3, <2>4, GcSteps
<1> DEFINE Kept == \A f \in Fibers :
          /\ at[f] = "hook"
          /\ kind[waits[f]] \in {"block", "timed_block"}
          /\ state[waits[f]] = "pending"
          /\ waits[f] \notin sent
          => at'[f] # "unborn"
<1>2. GcInv /\ [GcNext]_gcVars => [Kept]_gcVars
  BY <1>1
<1>3. BlockedKept <=> [][Kept]_gcVars
  BY DEF BlockedKept
<1> QED BY <1>2, <1>3, GcInvariance, PTL DEF GcSpec
=============================================================================
