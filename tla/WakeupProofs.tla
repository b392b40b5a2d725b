---------------------------- MODULE WakeupProofs ----------------------------
(***************************************************************************)
(* Who may switch to a suspended fiber, and what a fiber suspended in      *)
(* Fiber.schedule waits for: theorems about TokioScheduler that rest on    *)
(* the order in which fibers run inside the poll of a timeout future that  *)
(* raises. The inductive invariant is Nesting /\ Order, on top of the IInv *)
(* of TokioSchedulerProofs.                                                *)
(***************************************************************************)
EXTENDS TokioSchedulerProofs

(* A fiber is created by one that was created before it: in every set of   *)
(* fibers there is one that created none of the others.                    *)
WellNested ==
    \A S \in SUBSET {f \in Fibers : at[f] # "unborn"} :
        S # {} => \E f \in S : \A g \in S : parent[g] # f

(* Only a fiber that was created creates fibers and spawns futures. *)
Births ==
    /\ \A f \in Fibers : parent[f] \in Fibers => at[parent[f]] # "unborn"
    /\ \A t \in Tasks : t <= nspawned => at[owner[t]] # "unborn"

(* A fiber whose block has not ended *)
Active(g) == at[g] \in {"user", "hook", "schedule"}

Nesting == WellNested /\ Births /\ ScheduleHasChild

(* The future t will switch to its fiber although the fiber does not wait  *)
(* for it: the timeout has raised, or is raising, or the fiber was raised  *)
(* out of the hook that spawned t.                                         *)
Stray(t) ==
    \/ /\ kind[t] = "timeout"
       /\ state[t] = "ready" \/ (at[Root] = "poll" /\ task = t)
    \/ /\ kind[t] # "timeout"
       /\ state[t] \in {"pending", "aborted", "ready"}
       /\ waits[owner[t]] # t

Displaced(f) == \E t \in Tasks : owner[t] = f /\ Stray(t)

(* A displaced fiber runs, or waits for one it started, only inside the    *)
(* poll that displaced it; it never gets to a hook again.                  *)
DisplacedEnds ==
    \A f \in Fibers : Displaced(f) =>
        /\ at[f] \in {"user", "schedule"} => at[Root] = "poll"
        /\ at[f] = "hook" => Arriving(f) /\ at[Root] = "poll" /\ owner[task] = f

(* S follows the calls of Fiber.schedule outwards, from the fiber that has *)
(* control; one whose wrapper returns hands it on to no caller             *)
Enclosing(S) ==
    /\ current \in Fibers /\ at[current] # "back" => current \in S
    /\ \A g \in S : parent[g] \in Fibers /\ at[parent[g]] = "schedule" => parent[g] \in S

(* A displaced fiber that is suspended in Fiber.schedule is a caller of    *)
(* the fiber that runs, so that it gets control back before the root fiber *)
(* does.                                                                   *)
DisplacedEncloses ==
    \A S \in SUBSET Fibers :
        Enclosing(S) => \A f \in Fibers : Displaced(f) /\ at[f] = "schedule" => f \in S

(* Unless it was displaced, a fiber has one active child at most, and only *)
(* while it is suspended in Fiber.schedule.                                *)
OneChild ==
    /\ \A p, g \in Fibers : parent[g] = p /\ Active(g) =>
          at[p] \in {"schedule", "back", "dead"} \/ (at[p] = "user" /\ Displaced(p))
    /\ \A p, g, h \in Fibers :
          at[p] = "schedule" /\ parent[g] = p /\ Active(g) /\ parent[h] = p /\ Active(h) =>
              g = h \/ Displaced(p)
    /\ \A p, g \in Fibers :
          at[p] = "schedule" /\ Arriving(p) /\ parent[g] = p /\ Active(g) => Displaced(p)

(* What a future and the fiber it belongs to know of each other *)
Roles ==
    /\ \A f \in Fibers : at[f] # "hook" => waits[f] = NoTask
    /\ \A f \in Fibers : at[f] = "hook" => kind[waits[f]] # "timeout"
    /\ at[Root] = "poll" => kind[task] = "timeout" /\ state[task] = "pending"
    /\ at[Root] = "resume" => state[task] = "joined" /\ task \in Tasks

Order ==
    /\ Roles
    /\ DisplacedEnds
    /\ DisplacedEncloses
    /\ OneChild
    /\ NoSpuriousWakeup

-----------------------------------------------------------------------------
(* The initial states satisfy the invariant. *)
LEMMA InitOrder == Init => Nesting /\ Order
<1> SUFFICES ASSUME Init PROVE Nesting /\ Order
  OBVIOUS
<1> USE RootAssumption, MaxTasksAssumption DEF Init, AllFibers, Tasks, NoTask
<1>1. \A f \in Fibers : at[f] = "unborn" /\ parent[f] = Root /\ waits[f] = NoTask
  OBVIOUS
<1>2. at[Root] = "user" /\ current = Root /\ nspawned = 0
  OBVIOUS
<1>3. \A t \in Tasks : ~Stray(t)
  BY DEF Stray
<1>4. WellNested /\ Births /\ ScheduleHasChild
  BY <1>1, <1>2 DEF WellNested, Births, ScheduleHasChild
<1>5. Roles /\ NoSpuriousWakeup
  BY <1>1, <1>2 DEF Roles, NoSpuriousWakeup
<1>6. DisplacedEnds /\ DisplacedEncloses
  BY <1>3 DEF DisplacedEnds, DisplacedEncloses, Displaced
<1>7. OneChild
  BY <1>1 DEF OneChild, Active
<1> QED BY <1>4, <1>5, <1>6, <1>7 DEF Nesting, Order

-----------------------------------------------------------------------------
(* Nesting is preserved.                                                   *)

(* A step that creates no fiber keeps the order of creation. *)
LEMMA SameNesting ==
  ASSUME WellNested, UNCHANGED parent,
         \A f \in Fibers : at'[f] # "unborn" => at[f] # "unborn"
  PROVE  WellNested'
  BY DEF WellNested

(* fiber_impl: the new fiber has created none *)
LEMMA FiberNesting ==
  ASSUME IInv, Nesting, NEW f \in AllFibers, NEW g \in Fibers, Fiber(f, g)
  PROVE  Nesting'
<1> USE RootAssumption DEF IInv, TypeOK, AllFibers
<1>1. /\ at[g] = "unborn" /\ current = f /\ f # g /\ carried = "none" /\ at[f] = "user"
      /\ at' = [at EXCEPT ![f] = "schedule", ![g] = "user"]
      /\ parent' = [parent EXCEPT ![g] = f]
      /\ current' = g /\ carried' = carried
      /\ UNCHANGED <<nspawned, owner>>
  BY DEF Fiber, Running, joinVars
<1>2. \A h \in Fibers : parent[h] # g
  BY <1>1 DEF Nesting, Births
<1>3. WellNested'
  <2> SUFFICES ASSUME NEW S \in SUBSET {h \in Fibers : at'[h] # "unborn"}, S # {}
               PROVE  \E h \in S : \A j \in S : parent'[j] # h
    BY DEF WellNested
  <2>1. CASE g \in S
    BY <1>1, <1>2, <2>1
  <2>2. CASE g \notin S
    <3>1. S \in SUBSET {h \in Fibers : at[h] # "unborn"}
      BY <1>1, <2>2
    <3>2. PICK h \in S : \A j \in S : parent[j] # h
      BY <3>1 DEF Nesting, WellNested
    <3> QED BY <1>1, <2>2, <3>2
  <2> QED BY <2>1, <2>2
<1>4. Births'
  <2>1. \A h \in Fibers : parent'[h] \in Fibers => at'[parent'[h]] # "unborn"
    BY <1>1 DEF Nesting, Births
  <2>2. \A t \in Tasks : t <= nspawned' => at'[owner'[t]] # "unborn"
    BY <1>1 DEF Nesting, Births, Spawned
  <2> QED BY <2>1, <2>2 DEF Births
<1>5. ScheduleHasChild'
  <2> SUFFICES ASSUME NEW h \in Fibers, at'[h] = "schedule"
               PROVE  \E j \in Fibers : parent'[j] = h /\ at'[j] \in {"user", "hook", "schedule"}
    BY DEF ScheduleHasChild
  <2>1. CASE h = f
    BY <1>1, <2>1
  <2>2. CASE h # f
    <3>1. at[h] = "schedule" /\ ~Arriving(h)
      BY <1>1, <2>2 DEF Arriving
    <3>2. PICK j \in Fibers : parent[j] = h /\ at[j] \in {"user", "hook", "schedule"}
      BY <3>1 DEF Nesting, ScheduleHasChild
    <3> QED BY <1>1, <3>2
  <2> QED BY <2>1, <2>2
<1> QED BY <1>3, <1>4, <1>5 DEF Nesting

(* A step of a fiber that is current and neither creates one nor ends its  *)
(* block, or a step of the root fiber or of a future *)
LEMMA OtherNesting ==
  ASSUME IInv, Nesting, UNCHANGED parent, nspawned' >= nspawned,
         \A f \in Fibers : at'[f] = "unborn" <=> at[f] = "unborn",
         \A t \in Tasks : t <= nspawned' => at[owner'[t]] # "unborn" /\ owner'[t] \in Fibers,
         \A f \in Fibers : Active(f) => Active(f)',
         \A f \in Fibers : at'[f] = "schedule" /\ ~Arriving(f)' => at[f] = "schedule" /\ ~Arriving(f)
  PROVE  Nesting'
<1>1. WellNested'
  BY SameNesting DEF Nesting
<1>2. Births'
  BY DEF Nesting, Births
<1>3. ScheduleHasChild'
  BY DEF Nesting, ScheduleHasChild, Active
<1> QED BY <1>1, <1>2, <1>3 DEF Nesting

(* the block of a fiber ends: control goes to the fiber that waits for it *)
LEMMA BlockEndsNesting ==
  ASSUME IInv, Nesting, NEW f \in Fibers, NEW o \in Outcomes, BlockEnds(f, o)
  PROVE  Nesting'
<1> USE RootAssumption DEF IInv, TypeOK, AllFibers
<1>1. /\ at[f] = "user" /\ current = f /\ carried = "none" /\ carried' # "none"
      /\ UNCHANGED <<parent, nspawned, owner>>
  BY DEF BlockEnds, Terminate, SwitchTo, Running, joinVars, Outcomes
<1>2. PICK p \in {"dead", "back"} : at' = [at EXCEPT ![f] = p]
  BY DEF BlockEnds, Terminate
<1>3. parent[f] \in Fibers => current' = parent[f] \/ at[parent[f]] \in {"unborn", "dead"}
  BY DEF BlockEnds, SwitchTo, Alive
<1>4. WellNested'
  BY <1>1, <1>2, SameNesting DEF Nesting
<1>5. Births'
  BY <1>1, <1>2 DEF Nesting, Births, Spawned
<1>6. ScheduleHasChild'
  <2> SUFFICES ASSUME NEW h \in Fibers, at'[h] = "schedule", ~Arriving(h)'
               PROVE  \E j \in Fibers : parent'[j] = h /\ at'[j] \in {"user", "hook", "schedule"}
    BY DEF ScheduleHasChild
  <2>1. at[h] = "schedule" /\ ~Arriving(h) /\ current' # h
    BY <1>1, <1>2 DEF Arriving
  <2>2. PICK j \in Fibers : parent[j] = h /\ at[j] \in {"user", "hook", "schedule"}
    BY <2>1 DEF Nesting, ScheduleHasChild
  <2>3. j # f
    BY <1>3, <2>1, <2>2
  <2> QED BY <1>1, <1>2, <2>2, <2>3
<1> QED BY <1>4, <1>5, <1>6 DEF Nesting

(* Every step preserves Nesting. *)
LEMMA NextNesting == IInv /\ IInv' /\ Nesting /\ [Next]_vars => Nesting'
<1> SUFFICES ASSUME IInv, IInv', Nesting, [Next]_vars PROVE Nesting'
  OBVIOUS
<1> USE RootAssumption, MaxTasksAssumption DEF AllFibers, Active, Arriving
<1>a. /\ at \in [AllFibers -> FiberPoints \cup RootPoints] /\ nspawned \in 0 .. MaxTasks
      /\ \A t \in Tasks : t <= nspawned => owner[t] \in Fibers /\ at[owner[t]] # "unborn"
      /\ owner \in [Tasks -> AllFibers]
  BY DEF IInv, TypeOK, Spawned, Nesting, Births
<1>b. nspawned \in Nat
  BY <1>a
<1>1. ASSUME NEW f \in Fibers, NEW k, SpawnAndTransfer(f, k), Running(f) PROVE Nesting'
  <2>1. /\ UNCHANGED parent /\ nspawned' = nspawned + 1 /\ at[f] = "user"
        /\ at' = [at EXCEPT ![f] = "hook"] /\ owner' = [owner EXCEPT ![nspawned + 1] = f]
        /\ current = f /\ current' = Root
    BY <1>1 DEF SpawnAndTransfer, Spawn, Running, SwitchTo
  <2>2. \A t \in Tasks : t <= nspawned' => at[owner'[t]] # "unborn" /\ owner'[t] \in Fibers
    BY <1>a, <2>1 DEF Tasks
  <2> QED BY <1>a, <2>1, <2>2, OtherNesting
<1>2. ASSUME NEW f \in Fibers, TimeoutAfter(f) PROVE Nesting'
  <2>1. CASE Spawn(f, "timeout")
    <3>1. /\ nspawned' = nspawned + 1 /\ at[f] = "user"
          /\ owner' = [owner EXCEPT ![nspawned + 1] = f] /\ UNCHANGED <<parent, at, current, carried>>
      BY <1>2, <2>1 DEF TimeoutAfter, Spawn, Running, SpawnRefused, fiberVars, loopVars, joinVars
    <3>2. \A t \in Tasks : t <= nspawned' => at[owner'[t]] # "unborn" /\ owner'[t] \in Fibers
      BY <1>a, <3>1 DEF Tasks
    <3> QED BY <1>a, <3>1, <3>2, OtherNesting
  <2>2. CASE SpawnRefused
    BY <1>a, <1>b, <2>2, OtherNesting DEF SpawnRefused, fiberVars, joinVars
  <2> QED BY <1>2, <2>1, <2>2 DEF TimeoutAfter
<1>3. ASSUME SpawnRefused PROVE Nesting'
  BY <1>a, <1>b, <1>3, OtherNesting DEF SpawnRefused, fiberVars, joinVars
<1>4. ASSUME UNCHANGED <<at, current, carried, parent, owner, nspawned>> PROVE Nesting'
  BY <1>a, <1>b, <1>4, OtherNesting
<1>5. ASSUME NEW f \in Fibers, HookReturns(f) \/ FiberReturns(f) \/ WrapperReturns(f) PROVE Nesting'
  <2>1. /\ UNCHANGED <<parent, owner, nspawned>> /\ current = f
        /\ at[f] \in {"hook", "schedule", "back"}
        /\ \E p \in {"user", "dead"} : at' = [at EXCEPT ![f] = p] /\ (p = "dead" => at[f] = "back")
    BY <1>5 DEF HookReturns, FiberReturns, WrapperReturns, Terminate, joinVars
  <2> QED BY <1>a, <1>b, <2>1, OtherNesting
<1>6. ASSUME current = Root, UNCHANGED <<parent, owner, nspawned>>, \A g \in Fibers : at'[g] = at[g]
      PROVE Nesting'
  BY <1>a, <1>b, <1>6, OtherNesting
<1>7. ASSUME NEW f \in Fibers, FiberCall(f) PROVE Nesting'
  <2>1. CASE KernelSleep(f) BY <1>1, <1>3, <2>1 DEF KernelSleep
  <2>2. CASE AddressResolve(f) BY <1>1, <1>3, <2>2 DEF AddressResolve
  <2>3. CASE \E k \in {"block", "timed_block"} : Block(f, k) BY <1>1, <1>3, <2>3 DEF Block
  <2>4. CASE TimeoutBlockEnds(f) BY <1>4, <2>4 DEF TimeoutBlockEnds, joinVars
  <2>5. CASE \E g \in Fibers : Fiber(f, g) BY <2>5, FiberNesting
  <2>6. CASE BlockEnds(f, "err") BY <2>6, BlockEndsNesting DEF Outcomes
  <2> QED BY <1>2, <1>7, <2>1, <2>2, <2>3, <2>4, <2>5, <2>6 DEF FiberCall
<1>8. ASSUME NEW f \in Fibers, FiberProgress(f) PROVE Nesting'
  <2>1. CASE BlockEnds(f, "ok") BY <2>1, BlockEndsNesting DEF Outcomes
  <2> QED BY <1>5, <1>8, <2>1 DEF FiberProgress
<1>9. ASSUME NEW f \in Fibers, Unblock(f) PROVE Nesting'
  BY <1>4, <1>9 DEF Unblock, fiberVars, joinVars
<1>10. ASSUME RootCall PROVE Nesting'
  <2>1. CASE \E g \in Fibers : Fiber(Root, g) BY <2>1, FiberNesting
  <2>2. CASE Run(FALSE)
    BY <1>a, <1>6, <2>2 DEF Run, EnterSelect, Running, joinVars
  <2>3. CASE Interrupt
    BY <1>a, <1>6, <2>3 DEF Interrupt, RunReturns, Selecting, IInv, Control
  <2> QED BY <1>10, <2>1, <2>2, <2>3 DEF RootCall
<1>11. ASSUME RootProgress PROVE Nesting'
  <2>1. CASE FiberReturns(Root) BY <1>a, <1>6, <2>1 DEF FiberReturns, joinVars
  <2>2. CASE Run(TRUE)
    BY <1>a, <1>6, <2>2 DEF Run, EnterSelect, Running, joinVars
  <2>3. CASE JoinNone
    BY <1>a, <1>6, <2>3 DEF JoinNone, RunReturns, Selecting, IInv, Control, joinVars
  <2>4. CASE ResumeReturns
    BY <1>a, <1>6, <2>4 DEF ResumeReturns, EnterSelect, RunReturns, joinVars
  <2>5. CASE RaiseReturns
    BY <1>a, <1>6, <2>5 DEF RaiseReturns
  <2> QED BY <1>11, <2>1, <2>2, <2>3, <2>4, <2>5 DEF RootProgress
<1>12. ASSUME NEW t \in Tasks, TaskProgress(t) PROVE Nesting'
  <2>1. Selecting /\ current = Root
    BY <1>12 DEF TaskProgress, JoinNext, TakeOutput, JoinError, PollSleep, PollResolve,
       PollBlock, PollTimeout, PollAborted, Selecting, IInv, Control
  <2>2. CASE JoinNext(t)
    BY <1>a, <1>6, <2>1, <2>2 DEF JoinNext, TakeOutput, ResumeIfAlive
  <2>3. CASE PollTimeout(t)
    BY <1>a, <1>6, <2>1, <2>3 DEF PollTimeout
  <2>4. CASE JoinError(t) \/ PollSleep(t) \/ PollResolve(t) \/ PollBlock(t) \/ PollAborted(t)
    BY <1>4, <2>4 DEF JoinError, PollSleep, PollResolve, PollBlock, PollAborted, fiberVars
  <2> QED BY <1>12, <2>2, <2>3, <2>4 DEF TaskProgress
<1>13. ASSUME UNCHANGED vars PROVE Nesting'
  BY <1>4, <1>13 DEF vars
<1> QED
  BY <1>7, <1>8, <1>9, <1>10, <1>11, <1>12, <1>13 DEF Next, PollPending, ThreadExited

-----------------------------------------------------------------------------
(* Order is preserved.                                                     *)

(* While the root fiber has control, a displaced fiber has ended: it is    *)
(* dead, or its wrapper has yet to return.                                 *)
LEMMA DisplacedHasEnded ==
  ASSUME IInv, Order, current = Root, NEW f \in Fibers, Displaced(f)
  PROVE  at[f] \notin {"user", "hook", "schedule"}
<1>1. at[f] # "user" /\ ~Arriving(f)
  BY RootAssumption DEF IInv, Control, AllFibers, Arriving
<1>2. Enclosing({})
  BY RootAssumption DEF Enclosing
<1>3. at[f] # "schedule"
  BY <1>2 DEF Order, DisplacedEncloses
<1> QED BY <1>1, <1>3 DEF Order, DisplacedEnds

(* The root fiber, or a poll, goes on without a switch: no fiber moves,    *)
(* and a future that becomes stray belongs to a fiber that is dead.        *)
LEMMA RootOrder ==
  ASSUME IInv, Order, current = Root, current' = Root, UNCHANGED <<parent, waits, kind, owner>>,
         \A f \in Fibers : at'[f] = at[f],
         at'[Root] \notin {"poll", "resume"},
         \A t \in Tasks : Stray(t)' => Stray(t) \/ at[owner[t]] = "dead"
  PROVE  Order'
<1> USE RootAssumption DEF IInv
<1>1. \A f \in Fibers : Displaced(f)' => Displaced(f) \/ at[f] = "dead"
  BY DEF Displaced
<1>2. \A f \in Fibers : Displaced(f)' => at'[f] \notin {"user", "hook", "schedule"}
  BY <1>1, DisplacedHasEnded
<1>3. Roles'
  BY DEF Order, Roles
<1>4. DisplacedEnds' /\ DisplacedEncloses'
  BY <1>2 DEF DisplacedEnds, DisplacedEncloses
<1>5. OneChild'
  <2>1. \A g \in Fibers : at[g] # "user" /\ ~Arriving(g) /\ ~Arriving(g)'
    BY DEF Control, AllFibers, Arriving
  <2>2. ASSUME NEW p \in Fibers, NEW g \in Fibers, parent[g] = p, Active(g)
        PROVE  at[p] \in {"schedule", "back", "dead"}
    BY <2>1, <2>2 DEF Order, OneChild
  <2>3. ASSUME NEW p \in Fibers, NEW g \in Fibers, NEW h \in Fibers, at[p] = "schedule",
               parent[g] = p, Active(g), parent[h] = p, Active(h)
        PROVE  g = h
    BY <2>3, DisplacedHasEnded DEF Order, OneChild
  <2> QED BY <2>1, <2>2, <2>3 DEF OneChild, Active
<1>6. NoSpuriousWakeup'
  BY DEF NoSpuriousWakeup, Arriving
<1> QED BY <1>3, <1>4, <1>5, <1>6 DEF Order

(* A hook: a new future, of the fiber that now waits for it *)
LEMMA SpawnOrder ==
  ASSUME IInv, IInv', Order, NEW f \in Fibers, NEW k \in {"sleep", "resolve", "block", "timed_block"},
         SpawnAndTransfer(f, k), Running(f)
  PROVE  Order'
<1> USE RootAssumption, MaxTasksAssumption DEF IInv, AllFibers
<1>1. /\ at[f] = "user" /\ current = f /\ carried = "none"
      /\ nspawned + 1 \in Tasks /\ nspawned \in Nat
      /\ state' = [state EXCEPT ![nspawned + 1] = "pending"]
      /\ kind' = [kind EXCEPT ![nspawned + 1] = k]
      /\ owner' = [owner EXCEPT ![nspawned + 1] = f]
      /\ waits' = [waits EXCEPT ![f] = nspawned + 1]
      /\ at' = [at EXCEPT ![f] = "hook"] /\ current' = Root
      /\ UNCHANGED <<parent, task>>
  BY DEF SpawnAndTransfer, Spawn, SwitchTo, Running, TypeOK, Tasks, loopVars
<1>2. /\ at \in [AllFibers -> FiberPoints \cup RootPoints] /\ waits \in [Fibers -> Tasks \cup {NoTask}]
      /\ state \in [Tasks -> TaskStates] /\ kind \in [Tasks -> TaskKinds]
      /\ owner \in [Tasks -> AllFibers]
  BY DEF TypeOK
<1>3. at[Root] # "poll"
  BY DEF SpawnAndTransfer, Spawn, Borrowable, Borrow
<1>4. ~Displaced(f)
  BY <1>1, <1>3 DEF Order, DisplacedEnds
<1>5. waits[f] = NoTask /\ nspawned + 1 # NoTask
  BY <1>1 DEF Order, Roles, NoTask
<1>6. \A t \in Tasks : Stray(t)' /\ owner'[t] \in Fibers => Stray(t) /\ owner'[t] = owner[t] /\ owner[t] # f
  <2> SUFFICES ASSUME NEW t \in Tasks, Stray(t)', owner'[t] \in Fibers
               PROVE  Stray(t) /\ owner'[t] = owner[t] /\ owner[t] # f
    OBVIOUS
  <2>1. t # nspawned + 1
    BY <1>1, <1>2, <1>3 DEF Stray
  <2>2. owner'[t] = owner[t] /\ kind'[t] = kind[t] /\ state'[t] = state[t]
    BY <1>1, <1>2, <2>1
  <2>3. at'[Root] # "poll"
    BY <1>1, <1>2, <1>3
  <2>4. waits[owner[t]] = t => waits'[owner[t]] = t
    BY <1>1, <1>2, <1>5, <2>2 DEF Tasks, NoTask
  <2>5. Stray(t)
    BY <2>2, <2>3, <2>4 DEF Stray
  <2> QED BY <1>4, <2>2, <2>5 DEF Displaced
<1>7. \A h \in Fibers : Displaced(h)' => Displaced(h) /\ h # f
  BY <1>6 DEF Displaced
<1>8. \A h \in Fibers : Displaced(h) => at[h] \notin {"user", "schedule", "hook"}
  BY <1>3 DEF Order, DisplacedEnds
<1>9. Roles'
  <2>1. at'[Root] = at[Root] /\ (\A h \in Fibers \ {f} : at'[h] = at[h] /\ waits'[h] = waits[h])
        /\ waits'[f] = nspawned + 1 /\ at'[f] = "hook" /\ kind'[nspawned + 1] = k
    BY <1>1, <1>2
  <2>2. \A h \in Fibers \ {f} : at[h] = "hook" => waits[h] # nspawned + 1 /\ waits[h] \in Tasks
    BY <1>1 DEF HookFutures, Tasks
  <2>3. \A h \in Fibers : at'[h] = "hook" => kind'[waits'[h]] # "timeout"
    BY <1>1, <1>2, <2>1, <2>2 DEF Order, Roles
  <2>4. \A h \in Fibers : at'[h] # "hook" => waits'[h] = NoTask
    BY <2>1 DEF Order, Roles
  <2>5. at[Root] = "resume" => task # nspawned + 1
    BY <1>1 DEF Order, Roles, Spawned
  <2>6. at'[Root] = "resume" => state'[task'] = "joined" /\ task' \in Tasks
    BY <1>1, <1>2, <2>1, <2>5 DEF Order, Roles
  <2> QED BY <1>3, <2>1, <2>3, <2>4, <2>6 DEF Roles
<1>10. DisplacedEnds' /\ DisplacedEncloses'
  BY <1>1, <1>2, <1>7, <1>8 DEF DisplacedEnds, DisplacedEncloses
<1>11. OneChild'
  <2>1. \A g \in Fibers : Active(g)' <=> Active(g)
    BY <1>1, <1>2 DEF Active
  <2>2. \A g \in Fibers : ~Arriving(g)'
    BY <1>1 DEF Arriving
  <2>3. ASSUME NEW p \in Fibers, NEW g \in Fibers, parent[g] = p, Active(g)
        PROVE  at[p] \in {"schedule", "back", "dead"}
    BY <1>8, <2>3 DEF Order, OneChild
  <2>4. ASSUME NEW p \in Fibers, NEW g \in Fibers, NEW h \in Fibers, at[p] = "schedule",
               parent[g] = p, Active(g), parent[h] = p, Active(h)
        PROVE  g = h
    BY <1>8, <2>4 DEF Order, OneChild
  <2> QED BY <1>1, <1>2, <2>1, <2>2, <2>3, <2>4 DEF OneChild
<1>12. NoSpuriousWakeup'
  BY <1>1 DEF NoSpuriousWakeup, Arriving
<1> QED BY <1>9, <1>10, <1>11, <1>12 DEF Order

(* A step that moves no fiber and displaces none *)
LEMMA SameOrder ==
  ASSUME Order, UNCHANGED <<current, at, carried, parent, waits, task, state, kind, owner>>
  PROVE  Order'
  BY DEF Order, Roles, DisplacedEnds, DisplacedEncloses, Enclosing, OneChild, Active,
     Displaced, Stray, NoSpuriousWakeup, Arriving

(* timeout_after spawns a future that its fiber does not wait for *)
LEMMA TimeoutAfterOrder ==
  ASSUME IInv, Order, NEW f \in Fibers, Spawn(f, "timeout"), Running(f),
         UNCHANGED <<current, at, carried, parent, waits, task>>
  PROVE  Order'
<1> USE RootAssumption, MaxTasksAssumption DEF IInv, AllFibers
<1>1. /\ nspawned + 1 \in Tasks /\ nspawned \in Nat /\ at[Root] # "poll"
      /\ state' = [state EXCEPT ![nspawned + 1] = "pending"]
      /\ kind' = [kind EXCEPT ![nspawned + 1] = "timeout"]
      /\ owner' = [owner EXCEPT ![nspawned + 1] = f]
      /\ state \in [Tasks -> TaskStates] /\ kind \in [Tasks -> TaskKinds]
      /\ owner \in [Tasks -> AllFibers]
  BY DEF Spawn, TypeOK, Tasks, Borrowable, Borrow
<1>2. \A t \in Tasks : IF t = nspawned + 1 THEN ~Stray(t) /\ ~Stray(t)'
                       ELSE (Stray(t)' <=> Stray(t)) /\ owner'[t] = owner[t]
  BY <1>1 DEF Stray, Spawned
<1>3. \A h \in Fibers : Displaced(h)' <=> Displaced(h)
  BY <1>2 DEF Displaced
<1>4. Roles'
  <2>1. \A h \in Fibers : at[h] = "hook" => waits[h] # nspawned + 1 /\ waits[h] \in Tasks
    BY <1>1 DEF HookFutures, Tasks
  <2>2. at[Root] = "resume" => task # nspawned + 1
    BY <1>1 DEF Order, Roles, Spawned
  <2> QED BY <1>1, <2>1, <2>2 DEF Order, Roles
<1>5. DisplacedEnds'
  BY <1>1, <1>3 DEF Order, DisplacedEnds
<1>6. DisplacedEncloses'
  BY <1>3 DEF Order, DisplacedEncloses, Enclosing
<1>7. OneChild'
  BY <1>3 DEF Order, OneChild, Active, Arriving
<1>8. NoSpuriousWakeup'
  BY <1>1 DEF NoSpuriousWakeup, Arriving, Running
<1> QED BY <1>4, <1>5, <1>6, <1>7, <1>8 DEF Order

(* A step that leaves the futures alone displaces no fiber, nor ends a     *)
(* displacement, if the fibers that wait still wait for the same.          *)
LEMMA SameDisplaced ==
  ASSUME UNCHANGED <<state, kind, owner, waits, task>>, at'[Root] = at[Root]
  PROVE  \A h \in Fibers : Displaced(h)' <=> Displaced(h)
  BY DEF Displaced, Stray

(* fiber_impl: the new fiber encloses nothing *)
LEMMA FiberOrder ==
  ASSUME IInv, Nesting, Order, NEW f \in AllFibers, NEW g \in Fibers, Fiber(f, g)
  PROVE  Order'
<1> USE RootAssumption DEF IInv, AllFibers
<1>1. /\ at[g] = "unborn" /\ current = f /\ f # g /\ carried = "none" /\ at[f] = "user"
      /\ at' = [at EXCEPT ![f] = "schedule", ![g] = "user"]
      /\ parent' = [parent EXCEPT ![g] = f]
      /\ current' = g /\ carried' = carried
      /\ UNCHANGED <<state, kind, owner, waits, task>>
      /\ at \in [AllFibers -> FiberPoints \cup RootPoints] /\ parent \in [Fibers -> AllFibers]
  BY DEF Fiber, Running, joinVars, loopVars, TypeOK
<1>2. \A h \in Fibers : parent[h] # g
  BY <1>1 DEF Nesting, Births
<1>3. at[Root] # "poll" => at'[Root] # "poll"
  BY <1>1
<1>4. at[Root] = "poll" => f # Root /\ at'[Root] = at[Root]
  BY <1>1
<1>5. \A h \in Fibers : Displaced(h)' <=> Displaced(h)
  BY <1>1, <1>3, <1>4 DEF Displaced, Stray
<1>6. ~Displaced(g)
  <2> SUFFICES ASSUME NEW t \in Tasks, owner[t] = g, Stray(t) PROVE FALSE
    BY DEF Displaced
  <2>1. t \notin 1 .. nspawned
    BY <1>1 DEF Nesting, Births
  <2> QED BY <2>1 DEF Stray, Spawned, Tasks, TypeOK
<1>7. Roles'
  BY <1>1 DEF Order, Roles
<1>8. DisplacedEnds'
  BY <1>1, <1>4, <1>5, <1>6 DEF Order, DisplacedEnds, Arriving
<1>9. DisplacedEncloses'
  <2> SUFFICES ASSUME NEW S \in SUBSET Fibers, Enclosing(S)',
                      NEW h \in Fibers, Displaced(h)', at'[h] = "schedule"
               PROVE  h \in S
    BY DEF DisplacedEncloses
  <2>1. g \in S /\ (f \in Fibers => f \in S)
    BY <1>1 DEF Enclosing
  <2>2. Enclosing(S \ {g})
    BY <1>1, <2>1 DEF Enclosing
  <2>3. CASE h = f
    BY <2>1, <2>3
  <2>4. CASE h # f
    BY <1>1, <1>5, <2>2, <2>4 DEF Order, DisplacedEncloses
  <2> QED BY <2>3, <2>4
<1>10. OneChild'
  <2>1. \A h \in Fibers : Active(h)' <=> Active(h) \/ h = g
    BY <1>1 DEF Active
  <2>2. \A h \in Fibers : ~Arriving(h)'
    BY <1>1 DEF Arriving
  <2>3. ASSUME NEW h \in Fibers, parent[h] = f, f \in Fibers, Active(h)
        PROVE  Displaced(f)
    BY <1>1, <2>3 DEF Order, OneChild
  <2>4. \A h \in Fibers : Active(h) /\ parent[h] \in Fibers => parent'[h] = parent[h] /\ parent[h] # g /\ h # g
    BY <1>1, <1>2 DEF Active
  <2>5. ASSUME NEW p \in Fibers, NEW h \in Fibers, parent'[h] = p, Active(h)'
        PROVE  at'[p] \in {"schedule", "back", "dead"} \/ (at'[p] = "user" /\ Displaced(p)')
    BY <1>1, <1>5, <2>1, <2>4, <2>5 DEF Order, OneChild
  <2>6. ASSUME NEW p \in Fibers, NEW h \in Fibers, NEW j \in Fibers, at'[p] = "schedule",
               parent'[h] = p, Active(h)', parent'[j] = p, Active(j)', h # j
        PROVE  Displaced(p)'
    <3>1. CASE p = f
      BY <1>1, <1>5, <2>1, <2>3, <2>4, <2>6, <3>1
    <3>2. CASE p # f
      BY <1>1, <1>5, <2>1, <2>4, <2>6, <3>2 DEF Order, OneChild
    <3> QED BY <3>1, <3>2
  <2> QED BY <2>2, <2>5, <2>6 DEF OneChild
<1>11. NoSpuriousWakeup'
  BY <1>1 DEF NoSpuriousWakeup, Arriving
<1> QED BY <1>7, <1>8, <1>9, <1>10, <1>11 DEF Order

(* the block of a fiber ends, in the fiber that waits for it or the root *)
LEMMA BlockEndsOrder ==
  ASSUME IInv, Order, NEW f \in Fibers, NEW o \in Outcomes, BlockEnds(f, o)
  PROVE  Order'
<1> USE RootAssumption DEF IInv, AllFibers
<1>1. /\ at[f] = "user" /\ current = f /\ carried = "none"
      /\ UNCHANGED <<parent, state, kind, owner, waits, task>>
      /\ at \in [AllFibers -> FiberPoints \cup RootPoints] /\ parent \in [Fibers -> AllFibers]
  BY DEF BlockEnds, Running, joinVars, loopVars, TypeOK
<1>2. PICK q \in {"dead", "back"} : at' = [at EXCEPT ![f] = q]
  BY DEF BlockEnds, Terminate
<1>3. \/ current' = Root /\ (parent[f] \in Fibers => at[parent[f]] \in {"unborn", "dead"})
      \/ current' = parent[f] /\ parent[f] \in Fibers /\ at[parent[f]] \in {"schedule", "back"}
  <2>1. parent[f] # f /\ \A h \in Fibers : h # f => at[h] # "user"
    BY <1>1 DEF Control
  <2>2. parent[f] \in Fibers => at[parent[f]] \in {"schedule", "back", "dead"}
    BY <1>1, <2>1 DEF Order, OneChild, Active
  <2> QED BY <1>1, <2>2 DEF BlockEnds, Terminate, SwitchTo, Alive
<1>4. \A h \in Fibers : Displaced(h)' <=> Displaced(h)
  BY <1>1, <1>2, SameDisplaced
<1>5. Roles'
  BY <1>1, <1>2 DEF Order, Roles
<1>6. DisplacedEnds'
  BY <1>1, <1>2, <1>4 DEF Order, DisplacedEnds, Arriving
<1>7. DisplacedEncloses'
  <2> SUFFICES ASSUME NEW S \in SUBSET Fibers, Enclosing(S)',
                      NEW h \in Fibers, Displaced(h)', at'[h] = "schedule"
               PROVE  h \in S
    BY DEF DisplacedEncloses
  <2>1. \A g \in S : parent[g] \in Fibers /\ at[parent[g]] = "schedule" => parent[g] \in S
    BY <1>1, <1>2 DEF Enclosing
  <2>2. parent[f] \in Fibers /\ at[parent[f]] = "schedule" => parent[f] \in S
    BY <1>1, <1>2, <1>3 DEF Enclosing
  <2>3. Enclosing(S \cup {f})
    BY <1>1, <2>1, <2>2 DEF Enclosing
  <2>4. h \in S \cup {f} /\ h # f
    BY <1>1, <1>2, <1>4, <2>3 DEF Order, DisplacedEncloses
  <2> QED BY <2>4
<1>8. OneChild'
  <2>1. \A h \in Fibers : Active(h)' => Active(h) /\ h # f
    BY <1>1, <1>2 DEF Active
  <2>2. \A p \in Fibers : at'[p] = "schedule" => at[p] = "schedule" /\ p # f
    BY <1>1, <1>2
  <2>3. ASSUME NEW p \in Fibers, NEW g \in Fibers, parent'[g] = p, Active(g)'
        PROVE  at'[p] \in {"schedule", "back", "dead"} \/ (at'[p] = "user" /\ Displaced(p)')
    BY <1>1, <1>2, <1>4, <2>1, <2>3 DEF Order, OneChild
  <2>4. ASSUME NEW p \in Fibers, NEW g \in Fibers, at'[p] = "schedule", Arriving(p)',
               parent'[g] = p, Active(g)'
        PROVE  Displaced(p)'
    <3>1. parent[f] = p /\ Active(f)
      BY <1>1, <1>3, <2>4 DEF Arriving, Active
    <3> QED BY <1>1, <1>4, <2>1, <2>2, <2>4, <3>1 DEF Order, OneChild
  <2> QED BY <1>1, <1>4, <2>1, <2>2, <2>3, <2>4 DEF Order, OneChild
<1>9. NoSpuriousWakeup'
  BY <1>1, <1>2, <1>3 DEF NoSpuriousWakeup, Arriving
<1> QED BY <1>5, <1>6, <1>7, <1>8, <1>9 DEF Order

(* spawn_and_transfer returns: if it was raised, the fiber is displaced    *)
(* already, by the timeout; if not, its future was joined                  *)
LEMMA HookReturnsOrder ==
  ASSUME IInv, Order, NEW f \in Fibers, HookReturns(f)
  PROVE  Order'
<1> USE RootAssumption DEF IInv, AllFibers
<1>1. /\ at[f] = "hook" /\ current = f /\ carried # "none" /\ carried' = "none"
      /\ at' = [at EXCEPT ![f] = "user"] /\ waits' = [waits EXCEPT ![f] = NoTask]
      /\ UNCHANGED <<current, parent, state, kind, owner, task>>
      /\ at \in [AllFibers -> FiberPoints \cup RootPoints]
      /\ waits \in [Fibers -> Tasks \cup {NoTask}]
  BY DEF HookReturns, Arriving, joinVars, loopVars, TypeOK
<1>2. \/ at[Root] = "resume" /\ state[waits[f]] = "joined"
      \/ at[Root] = "poll" /\ kind[task] = "timeout" /\ owner[task] = f /\ task \in Tasks
  <2>1. at[Root] = "poll" => task \in Tasks
    BY MaxTasksAssumption DEF Spawned, Tasks, TypeOK
  <2> QED BY <1>1, <2>1 DEF Order, NoSpuriousWakeup, Roles, Arriving
<1>3. \A h \in Fibers : Displaced(h)' <=> Displaced(h)
  <2>1. CASE at[Root] = "poll" /\ kind[task] = "timeout" /\ owner[task] = f /\ task \in Tasks
    <3>1. Displaced(f) /\ Displaced(f)'
      BY <1>1, <2>1 DEF Displaced, Stray
    <3>2. \A h \in Fibers \ {f} : Displaced(h)' <=> Displaced(h)
      BY <1>1 DEF Displaced, Stray
    <3> QED BY <3>1, <3>2
  <2>2. CASE at[Root] = "resume" /\ state[waits[f]] = "joined"
    <3>1. \A t \in Tasks : owner[t] \in Fibers => (Stray(t)' <=> Stray(t))
      BY <1>1, <2>2 DEF Stray, Tasks, NoTask
    <3> QED BY <1>1, <3>1 DEF Displaced
  <2> QED BY <1>2, <2>1, <2>2
<1>4. Roles'
  BY <1>1 DEF Order, Roles
<1>5. DisplacedEnds'
  BY <1>1, <1>3 DEF Order, DisplacedEnds, Arriving
<1>6. DisplacedEncloses'
  <2>1. \A S \in SUBSET Fibers : Enclosing(S)' => Enclosing(S)
    BY <1>1 DEF Enclosing
  <2>2. \A h \in Fibers : at'[h] = "schedule" => at[h] = "schedule"
    BY <1>1
  <2> QED BY <1>3, <2>1, <2>2 DEF Order, DisplacedEncloses
<1>7. OneChild'
  <2>1. \A g \in Fibers : (Active(g)' <=> Active(g)) /\ ~Arriving(g)'
    BY <1>1 DEF Active, Arriving
  <2>2. \A p \in Fibers : at'[p] = "schedule" => at[p] = "schedule"
    BY <1>1
  <2>3. ASSUME NEW p \in Fibers, NEW g \in Fibers, parent'[g] = p, Active(g)'
        PROVE  at'[p] \in {"schedule", "back", "dead"} \/ (at'[p] = "user" /\ Displaced(p)')
    BY <1>1, <1>3, <2>1, <2>3 DEF Order, OneChild
  <2> QED BY <1>1, <1>3, <2>1, <2>2, <2>3 DEF Order, OneChild
<1>8. NoSpuriousWakeup'
  BY <1>1 DEF NoSpuriousWakeup, Arriving
<1> QED BY <1>4, <1>5, <1>6, <1>7, <1>8 DEF Order

(* fiber_impl returns in a fiber: with a child still active, it has been   *)
(* raised out of Fiber.schedule                                            *)
LEMMA FiberReturnsOrder ==
  ASSUME IInv, Order, NEW f \in Fibers, FiberReturns(f)
  PROVE  Order'
<1> USE RootAssumption DEF IInv, AllFibers
<1>1. /\ at[f] = "schedule" /\ current = f /\ carried # "none" /\ carried' = "none"
      /\ at' = [at EXCEPT ![f] = "user"]
      /\ UNCHANGED <<current, parent, waits, state, kind, owner, task>>
      /\ at \in [AllFibers -> FiberPoints \cup RootPoints]
  BY DEF FiberReturns, Arriving, joinVars, loopVars, TypeOK
<1>2. \A h \in Fibers : Displaced(h)' <=> Displaced(h)
  BY <1>1, SameDisplaced
<1>3. Roles'
  BY <1>1 DEF Order, Roles
<1>4. DisplacedEnds'
  BY <1>1, <1>2 DEF Order, DisplacedEnds, Arriving
<1>5. DisplacedEncloses'
  <2>1. \A S \in SUBSET Fibers : Enclosing(S)' => Enclosing(S)
    BY <1>1 DEF Enclosing
  <2>2. \A h \in Fibers : at'[h] = "schedule" => at[h] = "schedule"
    BY <1>1
  <2> QED BY <1>2, <2>1, <2>2 DEF Order, DisplacedEncloses
<1>6. OneChild'
  <2>1. \A g \in Fibers : (Active(g)' <=> Active(g)) /\ ~Arriving(g)'
    BY <1>1 DEF Active, Arriving
  <2>2. \A p \in Fibers : at'[p] = "schedule" => at[p] = "schedule"
    BY <1>1
  <2>3. ASSUME NEW p \in Fibers, NEW g \in Fibers, parent'[g] = p, Active(g)'
        PROVE  at'[p] \in {"schedule", "back", "dead"} \/ (at'[p] = "user" /\ Displaced(p)')
    BY <1>1, <1>2, <2>1, <2>3 DEF Order, OneChild, Arriving
  <2> QED BY <1>1, <1>2, <2>1, <2>2, <2>3 DEF Order, OneChild
<1>7. NoSpuriousWakeup'
  BY <1>1 DEF NoSpuriousWakeup, Arriving
<1> QED BY <1>3, <1>4, <1>5, <1>6, <1>7 DEF Order

(* the wrapper of a nested block returns: control goes to the root fiber,  *)
(* and no displaced fiber is left behind in Fiber.schedule                 *)
LEMMA WrapperReturnsOrder ==
  ASSUME IInv, Order, NEW f \in Fibers, WrapperReturns(f)
  PROVE  Order'
<1> USE RootAssumption DEF IInv, AllFibers
<1>1. /\ at[f] = "back" /\ current = f /\ current' = Root
      /\ at' = [at EXCEPT ![f] = "dead"]
      /\ UNCHANGED <<parent, waits, state, kind, owner, task>>
      /\ at \in [AllFibers -> FiberPoints \cup RootPoints]
  BY DEF WrapperReturns, Terminate, SwitchTo, Arriving, joinVars, loopVars, TypeOK
<1>2. \A h \in Fibers : Displaced(h)' <=> Displaced(h)
  BY <1>1, SameDisplaced
<1>3. Roles'
  BY <1>1 DEF Order, Roles
<1>4. DisplacedEnds'
  BY <1>1, <1>2 DEF Order, DisplacedEnds, Arriving
<1>5. DisplacedEncloses'
  <2>1. \A S \in SUBSET Fibers : Enclosing(S)' => Enclosing(S)
    BY <1>1 DEF Enclosing
  <2>2. \A h \in Fibers : at'[h] = "schedule" => at[h] = "schedule"
    BY <1>1
  <2> QED BY <1>2, <2>1, <2>2 DEF Order, DisplacedEncloses
<1>6. OneChild'
  <2>1. \A g \in Fibers : (Active(g)' <=> Active(g)) /\ ~Arriving(g)'
    BY <1>1 DEF Active, Arriving
  <2>2. \A p \in Fibers : at'[p] = "schedule" => at[p] = "schedule"
    BY <1>1
  <2>3. ASSUME NEW p \in Fibers, NEW g \in Fibers, parent'[g] = p, Active(g)'
        PROVE  at'[p] \in {"schedule", "back", "dead"} \/ (at'[p] = "user" /\ Displaced(p)')
    BY <1>1, <1>2, <2>1, <2>3 DEF Order, OneChild
  <2> QED BY <1>1, <1>2, <2>1, <2>2, <2>3 DEF Order, OneChild
<1>7. NoSpuriousWakeup'
  BY <1>1 DEF NoSpuriousWakeup, Arriving
<1> QED BY <1>3, <1>4, <1>5, <1>6, <1>7 DEF Order

(* run resumes the fiber of a finished future: it waits for that future,   *)
(* or has ended and its wrapper is what returns                            *)
LEMMA ResumeOrder ==
  ASSUME IInv, Order, NEW t \in Tasks, TakeOutput(t), ResumeIfAlive(t)
  PROVE  Order'
<1> USE RootAssumption, MaxTasksAssumption DEF IInv, AllFibers
<1> DEFINE f == owner[t]
<1>1. /\ at[Root] = "select" /\ current = Root /\ state[t] = "ready"
      /\ f \in Fibers /\ Alive(f) /\ t # NoTask
      /\ state' = [state EXCEPT ![t] = "joined"] /\ task' = t
      /\ at' = [at EXCEPT ![Root] = "resume"] /\ current' = f
      /\ UNCHANGED <<parent, waits, kind, owner>>
      /\ at \in [AllFibers -> FiberPoints \cup RootPoints] /\ state \in [Tasks -> TaskStates]
  BY DEF TakeOutput, ResumeIfAlive, Selecting, SwitchTo, Spawned, Control, TypeOK, Tasks, NoTask
<1>2. \A h \in Fibers : at'[h] = at[h]
  BY <1>1
<1>3. \A h \in Fibers : Displaced(h)' => Displaced(h)
  <2>1. \A u \in Tasks : Stray(u)' => Stray(u)
    BY <1>1 DEF Stray
  <2> QED BY <1>1, <2>1 DEF Displaced
<1>4. \A h \in Fibers : Displaced(h) => at[h] \notin {"user", "hook", "schedule"}
  BY <1>1, DisplacedHasEnded
<1>5. \/ at[f] = "hook" /\ waits[f] = t
      \/ at[f] = "back"
  <2>1. CASE Stray(t)
    <3>1. at[f] \notin {"user", "hook", "schedule"}
      BY <1>1, <1>4, <2>1 DEF Displaced
    <3> QED BY <1>1, <3>1 DEF Alive, TypeOK, FiberPoints
  <2>2. CASE ~Stray(t)
    <3>1. waits[f] = t
      BY <1>1, <2>2 DEF Stray
    <3> QED BY <1>1, <3>1 DEF Order, Roles
  <2> QED BY <2>1, <2>2
<1>6. Roles'
  <2>1. at'[Root] = "resume" /\ state'[task'] = "joined" /\ task' \in Tasks
    BY <1>1
  <2> QED BY <1>1, <1>2, <2>1 DEF Order, Roles
<1>7. DisplacedEnds' /\ DisplacedEncloses'
  BY <1>2, <1>3, <1>4 DEF DisplacedEnds, DisplacedEncloses
<1>8. OneChild'
  <2>1. ASSUME NEW p \in Fibers, NEW g \in Fibers, parent[g] = p, Active(g)
        PROVE  at[p] \in {"schedule", "back", "dead"}
    BY <1>4, <2>1 DEF Order, OneChild
  <2>2. ASSUME NEW p \in Fibers, NEW g \in Fibers, NEW h \in Fibers, at[p] = "schedule",
               parent[g] = p, Active(g), parent[h] = p, Active(h)
        PROVE  g = h
    BY <1>4, <2>2 DEF Order, OneChild
  <2>3. \A p \in Fibers : at[p] = "schedule" => ~Arriving(p)'
    BY <1>1, <1>5 DEF Arriving
  <2> QED BY <1>1, <1>2, <2>1, <2>2, <2>3 DEF OneChild, Active
<1>9. NoSpuriousWakeup'
  BY <1>1, <1>5 DEF NoSpuriousWakeup, Arriving
<1> QED BY <1>6, <1>7, <1>8, <1>9 DEF Order

(* a timeout raises in its fiber, which is displaced from then on *)
LEMMA RaiseOrder ==
  ASSUME IInv, Order, NEW t \in Tasks, Selecting, state[t] = "pending", kind[t] = "timeout",
         Alive(owner[t]), at' = [at EXCEPT ![Root] = "poll"], task' = t, SwitchTo(owner[t], "err"),
         UNCHANGED <<parent, waits, kind, owner, state>>
  PROVE  Order'
<1> USE RootAssumption, MaxTasksAssumption DEF IInv, AllFibers
<1> DEFINE f == owner[t]
<1>1. /\ at[Root] = "select" /\ current = Root /\ f \in Fibers /\ current' = f /\ carried' = "err"
      /\ at \in [AllFibers -> FiberPoints \cup RootPoints]
  BY DEF Selecting, SwitchTo, Spawned, Control, TypeOK, Tasks
<1>2. /\ at'[Root] = "poll"
      /\ \A h \in Fibers : at'[h] = at[h]
  BY <1>1
<1>3. \A h \in Fibers : Displaced(h)' <=> Displaced(h) \/ h = f
  <2>1. \A u \in Tasks : Stray(u)' <=> Stray(u) \/ u = t
    BY <1>1, <1>2 DEF Stray
  <2> QED BY <1>1, <2>1 DEF Displaced
<1>4. \A h \in Fibers : Displaced(h) => at[h] \notin {"user", "hook", "schedule"}
  BY <1>1, DisplacedHasEnded
<1>5. Roles'
  BY <1>1, <1>2 DEF Order, Roles
<1>6. DisplacedEnds'
  BY <1>1, <1>2, <1>3, <1>4 DEF DisplacedEnds, Arriving
<1>7. DisplacedEncloses'
  BY <1>1, <1>2, <1>3, <1>4 DEF DisplacedEncloses, Enclosing
<1>8. OneChild'
  <2>1. \A g \in Fibers : (Active(g)' <=> Active(g)) /\ (Arriving(g)' => g = f)
    BY <1>1, <1>2 DEF Active, Arriving
  <2> QED BY <1>2, <1>3, <2>1 DEF Order, OneChild
<1>9. NoSpuriousWakeup'
  BY <1>1, <1>2 DEF NoSpuriousWakeup, Arriving
<1> QED BY <1>5, <1>6, <1>7, <1>8, <1>9 DEF Order

(* the root fiber, in run or in fiber_impl, goes on *)
LEMMA RootStepsOrder ==
  ASSUME IInv, Order, FiberReturns(Root) \/ (\E b \in BOOLEAN : Run(b)) \/ Interrupt \/ JoinNone
                      \/ ResumeReturns \/ RaiseReturns
  PROVE  Order'
<1> USE RootAssumption, MaxTasksAssumption DEF IInv, AllFibers
<1>1. /\ current = Root /\ current' = Root /\ UNCHANGED <<parent, waits, kind, owner>>
      /\ at'[Root] \notin {"poll", "resume"}
      /\ \A f \in Fibers : at'[f] = at[f]
  <2>1. /\ current = Root /\ current' = Root /\ UNCHANGED <<parent, waits, kind, owner>>
    BY DEF FiberReturns, Run, Interrupt, JoinNone, ResumeReturns, RaiseReturns, Arriving, Running,
       Selecting, Control, joinVars
  <2>2. PICK p \in {"user", "select", "exited"} : at' = [at EXCEPT ![Root] = p]
    BY DEF FiberReturns, Run, EnterSelect, Interrupt, JoinNone, RunReturns, ResumeReturns, RaiseReturns
  <2> QED BY <2>1, <2>2 DEF TypeOK
<1>2. \A t \in Tasks : Stray(t)' => Stray(t)
  <2>1. CASE FiberReturns(Root) \/ (\E b \in BOOLEAN : Run(b)) \/ JoinNone \/ ResumeReturns
    <3>1. UNCHANGED state
      BY <2>1 DEF FiberReturns, Run, JoinNone, ResumeReturns, joinVars
    <3> QED BY <1>1, <3>1 DEF Stray
  <2>2. CASE Interrupt
    <3>1. state' = [t \in Tasks |-> IF state[t] = "pending" THEN "aborted" ELSE state[t]]
      BY <2>2 DEF Interrupt
    <3> QED BY <1>1, <3>1 DEF Stray
  <2>3. CASE RaiseReturns
    <3>1. at[Root] = "poll" /\ state' = [state EXCEPT ![task] = "ready"] /\ kind[task] = "timeout"
      BY <2>3 DEF RaiseReturns, Ready, Order, Roles
    <3> QED BY <1>1, <3>1 DEF Stray, TypeOK
  <2> QED BY <2>1, <2>2, <2>3
<1> QED BY <1>1, <1>2, RootOrder

(* a future is polled, or joined, and no fiber is switched to *)
LEMMA TaskStepsOrder ==
  ASSUME IInv, Nesting, Order, NEW t \in Tasks, Selecting, state[t] # "unspawned",
         UNCHANGED <<parent, waits, kind, owner, current, at>>,
         NEW s \in {"ready", "joined", "cancelled"}, state' = [state EXCEPT ![t] = s],
         s = "ready" => IF kind[t] = "timeout" THEN ~Alive(owner[t]) ELSE state[t] = "pending"
  PROVE  Order'
<1> USE RootAssumption, MaxTasksAssumption DEF IInv, AllFibers
<1>1. current = Root /\ at[Root] = "select"
  BY DEF Selecting, Control
<1>2. s = "ready" /\ kind[t] = "timeout" => at[owner[t]] = "dead"
  BY DEF Nesting, Births, Spawned, Alive, TypeOK, Tasks
<1>3. \A u \in Tasks : Stray(u)' => Stray(u) \/ at[owner[u]] = "dead"
  BY <1>1, <1>2 DEF Stray, TypeOK
<1> QED BY <1>1, <1>3, RootOrder

(* Every step preserves Order. *)
LEMMA NextOrder == IInv /\ IInv' /\ Nesting /\ Order /\ [Next]_vars => Order'
<1> SUFFICES ASSUME IInv, IInv', Nesting, Order, [Next]_vars PROVE Order'
  OBVIOUS
<1> USE RootAssumption, MaxTasksAssumption DEF AllFibers
<1>1. ASSUME SpawnRefused PROVE Order'
  BY <1>1, SameOrder DEF SpawnRefused, fiberVars, joinVars, loopVars
<1>2. ASSUME NEW f \in Fibers, FiberCall(f) PROVE Order'
  <2>1. CASE KernelSleep(f) BY <1>1, <2>1, SpawnOrder DEF KernelSleep
  <2>2. CASE AddressResolve(f) BY <1>1, <2>2, SpawnOrder DEF AddressResolve
  <2>3. CASE \E k \in {"block", "timed_block"} : Block(f, k) BY <1>1, <2>3, SpawnOrder DEF Block
  <2>4. CASE TimeoutAfter(f) BY <1>1, <2>4, TimeoutAfterOrder DEF TimeoutAfter, loopVars
  <2>5. CASE TimeoutBlockEnds(f) BY <2>5, SameOrder DEF TimeoutBlockEnds, joinVars, loopVars
  <2>6. CASE \E g \in Fibers : Fiber(f, g) BY <2>6, FiberOrder
  <2>7. CASE BlockEnds(f, "err") BY <2>7, BlockEndsOrder DEF Outcomes
  <2> QED BY <1>2, <2>1, <2>2, <2>3, <2>4, <2>5, <2>6, <2>7 DEF FiberCall
<1>3. ASSUME NEW f \in Fibers, FiberProgress(f) PROVE Order'
  <2>1. CASE BlockEnds(f, "ok") BY <2>1, BlockEndsOrder DEF Outcomes
  <2> QED
    BY <1>3, <2>1, HookReturnsOrder, FiberReturnsOrder, WrapperReturnsOrder DEF FiberProgress
<1>4. ASSUME NEW f \in Fibers, Unblock(f) PROVE Order'
  BY <1>4, SameOrder DEF Unblock, fiberVars, joinVars, loopVars
<1>5. ASSUME RootCall \/ RootProgress PROVE Order'
  <2>1. CASE \E g \in Fibers : Fiber(Root, g) BY <2>1, FiberOrder
  <2> QED BY <1>5, <2>1, RootStepsOrder DEF RootCall, RootProgress
<1>6. ASSUME NEW t \in Tasks, TaskProgress(t) PROVE Order'
  <2>1. CASE JoinNext(t)
    <3>1. CASE ResumeIfAlive(t) BY <2>1, <3>1, ResumeOrder DEF JoinNext
    <3>2. CASE UNCHANGED <<current, at>>
      BY <2>1, <3>2, TaskStepsOrder DEF JoinNext, TakeOutput
    <3> QED BY <2>1, <3>1, <3>2 DEF JoinNext
  <2>2. CASE PollTimeout(t)
    <3>1. CASE Alive(owner[t])
      BY <2>2, <3>1, RaiseOrder DEF PollTimeout
    <3>2. CASE ~Alive(owner[t])
      BY <2>2, <3>2, TaskStepsOrder DEF PollTimeout, Ready
    <3> QED BY <3>1, <3>2
  <2>3. CASE JoinError(t) BY <2>3, TaskStepsOrder DEF JoinError, fiberVars
  <2>4. CASE PollSleep(t) BY <2>4, TaskStepsOrder DEF PollSleep, Ready, fiberVars
  <2>5. CASE PollResolve(t) BY <2>5, TaskStepsOrder DEF PollResolve, Ready, fiberVars
  <2>6. CASE PollBlock(t) BY <2>6, TaskStepsOrder DEF PollBlock, Ready, fiberVars
  <2>7. CASE PollAborted(t) BY <2>7, TaskStepsOrder DEF PollAborted, fiberVars
  <2> QED BY <1>6, <2>1, <2>2, <2>3, <2>4, <2>5, <2>6, <2>7 DEF TaskProgress
<1>7. ASSUME UNCHANGED vars PROVE Order'
  BY <1>7, SameOrder DEF vars
<1> QED
  BY <1>2, <1>3, <1>4, <1>5, <1>6, <1>7 DEF Next, PollPending, ThreadExited

-----------------------------------------------------------------------------
(* Every reachable state satisfies the invariant. *)
THEOREM OrderInvariance == Spec => [](IInv /\ Nesting /\ Order)
<1>1. IInv /\ Nesting /\ Order /\ [Next]_vars => (IInv /\ Nesting /\ Order)'
  BY NextIInv, NextNesting, NextOrder
<1>2. Init => IInv /\ Nesting /\ Order
  BY InitIInv, InitOrder
<1> QED BY <1>1, <1>2, PTL DEF Spec

(* A fiber suspended in a hook is switched to with the result of the       *)
(* future of that very hook call or by its own timeout: a fiber raised out *)
(* of a hook ends before run goes on, so what it left in futures_to_run    *)
(* finds it dead or in its wrapper (spawn_and_transfer, resume_if_alive).  *)
THEOREM WakeupTheorem == Spec => []NoSpuriousWakeup
<1>1. Order => NoSpuriousWakeup
  BY DEF Order
<1> QED BY <1>1, OrderInvariance, PTL

(* A fiber suspended in Fiber.schedule has a child that will switch back   *)
(* to it (the wrapper of fiber_impl).                                      *)
THEOREM ScheduleTheorem == Spec => []ScheduleHasChild
<1>1. Nesting => ScheduleHasChild
  BY DEF Nesting
<1> QED BY <1>1, OrderInvariance, PTL

(* When run finds the JoinSet empty and was never interrupted, no fiber    *)
(* waits: the innermost of the fibers suspended in Fiber.schedule would    *)
(* wait for a fiber suspended in a hook, which has a future.               *)
THEOREM RunDrainsTheorem == Spec => RunDrains
<1>1. ASSUME IInv, Nesting, JoinNone, ~interrupted PROVE \A f \in Fibers : ~Waiting(f)
  <2>1. current = Root /\ carried = "none"
    BY <1>1 DEF JoinNone, Selecting, IInv, Control, AllFibers
  <2>2. ASSUME NEW f \in Fibers, at[f] = "hook" PROVE FALSE
    <3>1. waits[f] \in Tasks
      BY <1>1, <2>2, MaxTasksAssumption DEF IInv, TypeOK, HookFutures, Tasks
    <3>2. state[waits[f]] \in {"pending", "ready"}
      BY <1>1, <2>1, <2>2 DEF IInv, HookHasFuture, Arriving
    <3> QED BY <1>1, <3>1, <3>2 DEF JoinNone
  <2> DEFINE S == {f \in Fibers : at[f] = "schedule"}
  <2>3. ASSUME S # {} PROVE FALSE
    <3>1. PICK f \in S : \A g \in S : parent[g] # f
      BY <1>1, <2>3 DEF Nesting, WellNested
    <3>2. PICK g \in Fibers : parent[g] = f /\ at[g] \in {"user", "hook", "schedule"}
      BY <1>1, <2>1, <3>1 DEF Nesting, ScheduleHasChild, Arriving
    <3>3. at[g] # "user"
      BY <1>1, <2>1, RootAssumption DEF IInv, Control, AllFibers
    <3> QED BY <2>2, <3>1, <3>2, <3>3
  <2> QED BY <2>2, <2>3 DEF Waiting
<1>2. IInv /\ Nesting => [JoinNone => interrupted \/ \A f \in Fibers : ~Waiting(f)]_vars
  BY <1>1
<1> QED BY <1>2, OrderInvariance, PTL DEF Spec, RunDrains
=============================================================================
