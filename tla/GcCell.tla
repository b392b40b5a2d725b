------------------------------- MODULE GcCell -------------------------------
(***************************************************************************)
(* The borrow protocol of GcCell (gc_cell.rs), load by load. A borrower is *)
(* one use of the cell: a call of try_borrow or try_borrow_mut and, if it  *)
(* succeeds, the GcRef or GcRefMut it returned until that is dropped.      *)
(* Borrowers are Ruby threads, or frames of one thread that are suspended  *)
(* while others run. The test of the counters and the increment are        *)
(* separate steps; what keeps two borrowers from interleaving between them *)
(* is that native code gives up the GVL only when it calls Ruby.           *)
(***************************************************************************)
EXTENDS Integers, FiniteSets

CONSTANT Borrowers

ASSUME BorrowersAssumption == IsFiniteSet(Borrowers) /\ Borrowers # {}

VARIABLES
    read_count,
    write_count,
    pc,         \* how far each borrower is
    running     \* the borrower whose frame is executing

vars == <<read_count, write_count, pc, running>>

(*   idle        holds nothing                                             *)
(*   add_read    in try_borrow, has found write_count = 0                  *)
(*   load_write  in try_borrow_mut, has found read_count = 0               *)
(*   add_write   in try_borrow_mut, has found write_count = 0 too          *)
(*   reading     holds a GcRef                                             *)
(*   writing     holds a GcRefMut                                          *)
Points == {"idle", "add_read", "load_write", "add_write", "reading", "writing"}

Readers == {p \in Borrowers : pc[p] = "reading"}
Writers == {p \in Borrowers : pc[p] = "writing"}

Init ==
    /\ read_count = 0
    /\ write_count = 0
    /\ pc = [p \in Borrowers |-> "idle"]
    /\ running \in Borrowers

Goto(p, from, to) ==
    /\ running = p
    /\ pc[p] = from
    /\ pc' = [pc EXCEPT ![p] = to]
    /\ UNCHANGED running

(* write_count > 0 is an error, which leaves the borrower idle *)
TryBorrow(p) ==
    /\ write_count <= 0
    /\ Goto(p, "idle", "add_read")
    /\ UNCHANGED <<read_count, write_count>>

TryBorrowAdd(p) ==
    /\ Goto(p, "add_read", "reading")
    /\ read_count' = read_count + 1
    /\ UNCHANGED write_count

(* Variant: only writers are tested *)
TryBorrowMutUnread(p) ==
    /\ Goto(p, "idle", "load_write")
    /\ UNCHANGED <<read_count, write_count>>

TryBorrowMut(p) ==
    /\ read_count <= 0
    /\ Goto(p, "idle", "load_write")
    /\ UNCHANGED <<read_count, write_count>>

TryBorrowMutLoad(p) ==
    /\ \/ write_count > 0 /\ Goto(p, "load_write", "idle")
       \/ write_count <= 0 /\ Goto(p, "load_write", "add_write")
    /\ UNCHANGED <<read_count, write_count>>

TryBorrowMutAdd(p) ==
    /\ Goto(p, "add_write", "writing")
    /\ write_count' = write_count + 1
    /\ UNCHANGED read_count

DropRef(p) ==
    /\ Goto(p, "reading", "idle")
    /\ read_count' = read_count - 1
    /\ UNCHANGED write_count

(* Variant: the wrong counter is decremented *)
DropRefMutRead(p) ==
    /\ Goto(p, "writing", "idle")
    /\ read_count' = read_count - 1
    /\ UNCHANGED write_count

DropRefMut(p) ==
    /\ Goto(p, "writing", "idle")
    /\ write_count' = write_count - 1
    /\ UNCHANGED read_count

(* Another thread or frame runs. External: Ruby switches only where the    *)
(* running one has called into Ruby, so never inside try_borrow(_mut).     *)
Switch(p) ==
    /\ pc[running] \in {"idle", "reading", "writing"}
    /\ running' = p
    /\ UNCHANGED <<read_count, write_count, pc>>

Next ==
    \E p \in Borrowers :
        \/ TryBorrow(p) \/ TryBorrowAdd(p)
        \/ TryBorrowMut(p) \/ TryBorrowMutLoad(p) \/ TryBorrowMutAdd(p)
        \/ DropRef(p) \/ DropRefMut(p)
        \/ Switch(p)

Spec == Init /\ [][Next]_vars

-----------------------------------------------------------------------------
(* The counters are the numbers of live references, so the cell is never   *)
(* left poisoned, nor open, after any sequence of borrows and drops.       *)
CountsMatch ==
    /\ read_count = Cardinality(Readers)
    /\ write_count = Cardinality(Writers)

(* A GcRefMut excludes every other reference to the cell's value           *)
(* (try_borrow, try_borrow_mut).                                           *)
Exclusion ==
    \A p, q \in Borrowers :
        pc[p] = "writing" /\ q # p => pc[q] \notin {"reading", "writing"}
=============================================================================
