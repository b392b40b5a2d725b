---------------------------- MODULE GcCellProofs ----------------------------
(***************************************************************************)
(* GcCell enforces the borrow rules for any finite set of borrowers.       *)
(***************************************************************************)
EXTENDS GcCell, FiniteSetTheorems, TLAPS

TypeOK ==
    /\ read_count \in Int
    /\ write_count \in Int
    /\ pc \in [Borrowers -> Points]
    /\ running \in Borrowers

(* A borrower inside try_borrow or try_borrow_mut is the running one, and  *)
(* what it has read of the counters is still so.                           *)
Checked ==
    \A p \in Borrowers :
        /\ pc[p] \in {"add_read", "load_write", "add_write"} => p = running
        /\ pc[p] \in {"add_read", "add_write"} => Writers = {}
        /\ pc[p] \in {"load_write", "add_write"} => Readers = {}

IInv == TypeOK /\ CountsMatch /\ Checked /\ Exclusion

(* the sets that are counted are finite *)
LEMMA Finite == IsFiniteSet(Readers) /\ IsFiniteSet(Writers)
  BY BorrowersAssumption, FS_Subset DEF Readers, Writers

(* a count of zero or less means that there is no such reference *)
LEMMA ZeroMeansNone ==
  ASSUME CountsMatch
  PROVE  /\ read_count <= 0 => Readers = {}
         /\ write_count <= 0 => Writers = {}
<1>1. Cardinality(Readers) \in Nat /\ Cardinality(Writers) \in Nat
  BY Finite, FS_CardinalityType
<1> QED BY <1>1, Finite, FS_EmptySet DEF CountsMatch

(* a step that leaves the references alone leaves the counts right *)
LEMMA SameCounts ==
  ASSUME CountsMatch, UNCHANGED <<read_count, write_count>>,
         Readers' = Readers, Writers' = Writers
  PROVE  CountsMatch'
  BY DEF CountsMatch

(* The initial state satisfies the invariant. *)
LEMMA InitIInv == Init => IInv
<1> SUFFICES ASSUME Init PROVE IInv
  OBVIOUS
<1>1. Readers = {} /\ Writers = {}
  BY DEF Init, Readers, Writers
<1>2. CountsMatch
  BY <1>1, FS_EmptySet DEF Init, CountsMatch
<1> QED BY <1>1, <1>2 DEF Init, IInv, TypeOK, Points, Checked, Exclusion

(* Every step preserves the invariant. *)
LEMMA NextIInv == IInv /\ [Next]_vars => IInv'
<1> SUFFICES ASSUME IInv, [Next]_vars PROVE IInv'
  OBVIOUS
<1> USE DEF IInv, TypeOK, Points, Goto
<1>1. ASSUME NEW p \in Borrowers, TryBorrow(p) PROVE IInv'
  <2>1. Readers' = Readers /\ Writers' = Writers
    BY <1>1 DEF TryBorrow, Readers, Writers
  <2>2. Writers = {}
    BY <1>1, ZeroMeansNone DEF TryBorrow
  <2> QED BY <1>1, <2>1, <2>2, SameCounts DEF TryBorrow, Checked, Exclusion
<1>2. ASSUME NEW p \in Borrowers, TryBorrowAdd(p) PROVE IInv'
  <2>1. Readers' = Readers \cup {p} /\ p \notin Readers /\ Writers' = Writers
    BY <1>2 DEF TryBorrowAdd, Readers, Writers
  <2>2. CountsMatch'
    BY <1>2, <2>1, Finite, FS_AddElement DEF TryBorrowAdd, CountsMatch
  <2>3. Writers = {}
    BY <1>2 DEF TryBorrowAdd, Checked
  <2>4. Checked'
    BY <1>2, <2>1, <2>3 DEF TryBorrowAdd, Checked
  <2>5. Exclusion'
    BY <1>2, <2>1, <2>3 DEF TryBorrowAdd, Exclusion, Writers
  <2> QED BY <1>2, <2>2, <2>4, <2>5 DEF TryBorrowAdd
<1>3. ASSUME NEW p \in Borrowers, TryBorrowMut(p) PROVE IInv'
  <2>1. Readers' = Readers /\ Writers' = Writers
    BY <1>3 DEF TryBorrowMut, Readers, Writers
  <2>2. Readers = {}
    BY <1>3, ZeroMeansNone DEF TryBorrowMut
  <2> QED BY <1>3, <2>1, <2>2, SameCounts DEF TryBorrowMut, Checked, Exclusion
<1>4. ASSUME NEW p \in Borrowers, TryBorrowMutLoad(p) PROVE IInv'
  <2>1. Readers' = Readers /\ Writers' = Writers
    BY <1>4 DEF TryBorrowMutLoad, Readers, Writers
  <2>2. write_count <= 0 => Writers = {}
    BY ZeroMeansNone
  <2>3. Checked'
    BY <1>4, <2>1, <2>2 DEF TryBorrowMutLoad, Checked
  <2>4. Exclusion'
    BY <1>4 DEF TryBorrowMutLoad, Exclusion
  <2> QED BY <1>4, <2>1, <2>3, <2>4, SameCounts DEF TryBorrowMutLoad
<1>5. ASSUME NEW p \in Borrowers, TryBorrowMutAdd(p) PROVE IInv'
  <2>1. Writers' = Writers \cup {p} /\ p \notin Writers /\ Readers' = Readers
    BY <1>5 DEF TryBorrowMutAdd, Readers, Writers
  <2>2. CountsMatch'
    BY <1>5, <2>1, Finite, FS_AddElement DEF TryBorrowMutAdd, CountsMatch
  <2>3. Writers = {} /\ Readers = {}
    BY <1>5 DEF TryBorrowMutAdd, Checked
  <2>4. Checked'
    BY <1>5, <2>1, <2>3 DEF TryBorrowMutAdd, Checked
  <2>5. Exclusion'
    BY <1>5, <2>1, <2>3 DEF TryBorrowMutAdd, Exclusion, Writers, Readers
  <2> QED BY <1>5, <2>2, <2>4, <2>5 DEF TryBorrowMutAdd
<1>6. ASSUME NEW p \in Borrowers, DropRef(p) PROVE IInv'
  <2>1. Readers' = Readers \ {p} /\ p \in Readers /\ Writers' = Writers
    BY <1>6 DEF DropRef, Readers, Writers
  <2>2. CountsMatch'
    BY <1>6, <2>1, Finite, FS_RemoveElement DEF DropRef, CountsMatch
  <2>3. Checked' /\ Exclusion'
    BY <1>6, <2>1 DEF DropRef, Checked, Exclusion
  <2> QED BY <1>6, <2>2, <2>3 DEF DropRef
<1>7. ASSUME NEW p \in Borrowers, DropRefMut(p) PROVE IInv'
  <2>1. Writers' = Writers \ {p} /\ p \in Writers /\ Readers' = Readers
    BY <1>7 DEF DropRefMut, Readers, Writers
  <2>2. CountsMatch'
    BY <1>7, <2>1, Finite, FS_RemoveElement DEF DropRefMut, CountsMatch
  <2>3. Checked' /\ Exclusion'
    BY <1>7, <2>1 DEF DropRefMut, Checked, Exclusion
  <2> QED BY <1>7, <2>2, <2>3 DEF DropRefMut
<1>8. ASSUME NEW p \in Borrowers, Switch(p) PROVE IInv'
  <2>1. Readers' = Readers /\ Writers' = Writers
    BY <1>8 DEF Switch, Readers, Writers
  <2>2. Checked'
    BY <1>8, <2>1 DEF Switch, Checked
  <2> QED BY <1>8, <2>1, <2>2, SameCounts DEF Switch, Exclusion
<1>9. CASE UNCHANGED vars
  BY <1>9 DEF vars, CountsMatch, Checked, Exclusion, Readers, Writers
<1> QED BY <1>1, <1>2, <1>3, <1>4, <1>5, <1>6, <1>7, <1>8, <1>9 DEF Next

(* Every reachable state satisfies the invariant. *)
LEMMA Invariance == Spec => []IInv
  BY InitIInv, NextIInv, PTL DEF Spec

(* A GcRefMut is the only reference to the cell's value while it lives. *)
THEOREM ExclusionTheorem == Spec => []Exclusion
<1>1. IInv => Exclusion
  BY DEF IInv
<1> QED BY <1>1, Invariance, PTL

(* The counters are exact, so the cell can be borrowed again once every    *)
(* reference has been dropped.                                             *)
THEOREM CountsTheorem == Spec => []CountsMatch
<1>1. IInv => CountsMatch
  BY DEF IInv
<1> QED BY <1>1, Invariance, PTL
=============================================================================
