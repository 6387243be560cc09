------------------------ MODULE ResponseRevert_proofs ------------------------
(***************************************************************************)
(* Proofs about ResponseRevert for any executions, revert times, sweep      *)
(* limit, running time and number of failures and crashes.                  *)
(***************************************************************************)
EXTENDS ResponseRevert, FiniteSetTheorems, TLAPS

LEMMA NextCases ==
    ASSUME [Next]_vars
    PROVE  \/ Tick \/ StartSweep \/ Crash \/ UNCHANGED vars
           \/ \E e \in Action : Begin(e) \/ Act(e) \/ Record(e) \/ Undo(e) \/ Mark(e)
BY DEF Next, Engine, Sweeping, Idle

(* Posting changes the endpoint and, when it fails, counts a fault. *)
LEMMA PostFacts ==
    ASSUME NEW ok, NEW after, Post(ok, after), faults \in 0 .. MaxFaults
    PROVE  /\ faults' \in 0 .. MaxFaults /\ faults <= faults'
           /\ inForce' = after \/ inForce' = inForce
BY RevertAssumption DEF Post, Fault

LEMMA TypeNext == TypeOK /\ [Next]_vars => TypeOK'
<1> SUFFICES ASSUME TypeOK, [Next]_vars PROVE TypeOK'
  OBVIOUS
<1> USE RevertAssumption DEF TypeOK, engine, table, sweep
<1>1. ASSUME Tick PROVE TypeOK'
  BY <1>1 DEF Tick
<1>2. ASSUME StartSweep PROVE TypeOK'
  <2>1. PICK batch \in SUBSET Action : due' = batch /\ Cardinality(batch) <= Limit
    BY <1>2 DEF StartSweep, Taken
  <2>2. undoing = None
    BY <1>2 DEF StartSweep
  <2> QED
    BY <1>2, <2>1, <2>2 DEF StartSweep
<1>3. ASSUME Crash PROVE TypeOK'
  <2>1. Cardinality({}) = 0
    BY FS_EmptySet
  <2> QED
    BY <1>3, <2>1 DEF Crash, Fault
<1>4. ASSUME NEW e \in Action, Begin(e) PROVE TypeOK'
  BY <1>4 DEF Begin
<1>5. ASSUME NEW e \in Action, Act(e) PROVE TypeOK'
  <2>1. PICK ok \in BOOLEAN :
          /\ Post(ok, inForce \cup {TargetOf[e]})
          /\ answer' = [answer EXCEPT ![e] = IF ok THEN "success" ELSE "failed"]
    BY <1>5 DEF Act
  <2>2. faults' \in 0 .. MaxFaults /\ inForce' \subseteq Target
    BY <2>1, PostFacts
  <2> QED
    BY <1>5, <2>1, <2>2 DEF Act
<1>6. ASSUME NEW e \in Action, Record(e) PROVE TypeOK'
  BY <1>6 DEF Record, Fault
<1>7. ASSUME NEW e \in Action, Undo(e) PROVE TypeOK'
  <2>1. PICK ok \in BOOLEAN : Post(ok, inForce \ {TargetOf[e]})
    BY <1>7 DEF Undo
  <2>2. faults' \in 0 .. MaxFaults /\ inForce' \subseteq Target
    BY <2>1, PostFacts
  <2> QED
    BY <1>7, <2>2 DEF Undo
<1>8. ASSUME NEW e \in Action, Mark(e) PROVE TypeOK'
  <2>1. IsFiniteSet(due) /\ Cardinality(due) \in Nat
    BY FS_Subset, FS_CardinalityType
  <2>2. Cardinality(due') <= Limit
    BY <1>8, <2>1, FS_RemoveElement, FS_EmptySet DEF Mark
  <2>3. due' \subseteq Action /\ undoing' = None
    BY <1>8 DEF Mark
  <2>4. reverted' \in [Action -> BOOLEAN]
    BY <1>8 DEF Mark, Stamp
  <2>5. faults' \in 0 .. MaxFaults
    BY <1>8 DEF Mark, Fault
  <2> QED
    BY <1>8, <2>2, <2>3, <2>4, <2>5 DEF Mark
<1>9. ASSUME UNCHANGED vars PROVE TypeOK'
  BY <1>9 DEF vars
<1> QED
  BY <1>1, <1>2, <1>3, <1>4, <1>5, <1>6, <1>7, <1>8, <1>9, NextCases

LEMMA TypeHolds == Spec => []TypeOK
<1>1. Init => TypeOK
  BY RevertAssumption, FS_EmptySet DEF Init, TypeOK
<1> QED
  BY <1>1, TypeNext, PTL DEF Spec

-----------------------------------------------------------------------------
(* The inductive invariant.  A row exists only once its execution is         *)
(* recorded, so nothing touches its revert time afterwards, and the engine's *)
(* thread holds only what is not yet recorded; the sweep holds rows that are *)
(* due and not stamped; an unstamped row whose inverse is not being posted   *)
(* has had one fault for each attempt.                                       *)
RowsAreRecorded ==
    \A e \in Action :
        /\ row[e] # "none" => phase[e] = "recorded"
        /\ current = e => phase[e] \in {"posting", "answered"}
        /\ revertAt[e] # 0 => After[e] > 0

SweepIsDue == \A e \in due : IsDue(e)

AttemptsPaid ==
    \A e \in Action :
        /\ undoing = e => attempts[e] > 0
        /\ ~reverted[e] /\ undoing # e => attempts[e] <= faults

Inv ==
    /\ TypeOK /\ RowsAreRecorded /\ SweepIsDue /\ AttemptsPaid
    /\ UndoneWhenDue /\ RepeatsNeedFaults /\ StampedWasAttempted

LEMMA InvNext == Inv /\ [Next]_vars => Inv'
<1> SUFFICES ASSUME Inv, [Next]_vars PROVE Inv'
  OBVIOUS
<1>0. TypeOK /\ TypeOK'
  BY TypeNext DEF Inv
<1> DEFINE Parts == /\ RowsAreRecorded /\ SweepIsDue /\ AttemptsPaid
                    /\ UndoneWhenDue /\ RepeatsNeedFaults /\ StampedWasAttempted
<1> SUFFICES Parts'
  BY <1>0 DEF Inv
<1> USE <1>0, RevertAssumption
    DEF Inv, TypeOK, RowsAreRecorded, SweepIsDue, AttemptsPaid, UndoneWhenDue,
        RepeatsNeedFaults, StampedWasAttempted, IsDue, engine, table, sweep
<1>1. ASSUME Tick PROVE Parts'
  BY <1>1 DEF Tick
<1>2. ASSUME StartSweep PROVE Parts'
  <2>1. \A e \in due' : IsDue(e)
    BY <1>2 DEF StartSweep, Taken
  <2> QED
    BY <1>2, <2>1 DEF StartSweep
<1>3. ASSUME Crash PROVE Parts'
  <2>1. \A e \in Action : row[e] # "none" => phase[e] = "recorded" /\ e # current
    OBVIOUS
  <2> QED
    BY <1>3 DEF Crash, Fault
<1>4. ASSUME NEW e \in Action, Begin(e) PROVE Parts'
  BY <1>4 DEF Begin
<1>5. ASSUME NEW e \in Action, Act(e) PROVE Parts'
  <2>1. faults' \in Nat /\ faults <= faults'
    BY <1>5, PostFacts DEF Act
  <2> QED
    BY <1>5, <2>1 DEF Act
<1>6. ASSUME NEW e \in Action, Record(e) PROVE Parts'
  BY <1>6 DEF Record, Fault
<1>7. ASSUME NEW e \in Action, Undo(e) PROVE Parts'
  <2>1. faults' \in Nat /\ faults <= faults'
    BY <1>7, PostFacts DEF Undo
  <2> QED
    BY <1>7, <2>1 DEF Undo
<1>8. ASSUME NEW e \in Action, Mark(e) PROVE Parts'
  BY <1>8 DEF Mark, Stamp, Fault
<1>9. ASSUME UNCHANGED vars PROVE Parts'
  BY <1>9 DEF vars
<1> QED
  BY <1>1, <1>2, <1>3, <1>4, <1>5, <1>6, <1>7, <1>8, <1>9, NextCases

LEMMA InvHolds == Spec => []Inv
<1>1. Init => Inv
  BY TypeHolds, RevertAssumption, FS_EmptySet
  DEF Init, Inv, TypeOK, RowsAreRecorded, SweepIsDue, AttemptsPaid, UndoneWhenDue,
      RepeatsNeedFaults, StampedWasAttempted
<1> QED
  BY <1>1, InvNext, PTL DEF Spec

-----------------------------------------------------------------------------
(* Type correctness; a sweep holds at most Limit rows, and the one it is     *)
(* undoing is among them.                                                    *)
THEOREM TypeCorrect == Spec => []TypeOK
BY TypeHolds

(* A failed, a permanent or an unrecorded action is never undone, and no     *)
(* action before its revert time.                                            *)
THEOREM OnlyDueActionsAreUndone == Spec => []UndoneWhenDue
<1>1. Inv => UndoneWhenDue
  BY DEF Inv
<1> QED
  BY <1>1, InvHolds, PTL

(* An action is undone at most once more than there were failures and        *)
(* crashes: with none, "exactly once" has its upper half.                    *)
THEOREM RepeatsAreCausedByFaults == Spec => []RepeatsNeedFaults
<1>1. Inv => RepeatsNeedFaults
  BY DEF Inv
<1> QED
  BY <1>1, InvHolds, PTL

(* No row is stamped as reverted without its inverse having been posted.     *)
THEOREM StampsFollowAttempts == Spec => []StampedWasAttempted
<1>1. Inv => StampedWasAttempted
  BY DEF Inv
<1> QED
  BY <1>1, InvHolds, PTL

(* All that holds of the reverts at every step, together (revert.py, the    *)
(* sweep beside the engine).                                                *)
THEOREM RevertIsSafe == Spec => []RevertSafety
BY TypeCorrect, OnlyDueActionsAreUndone, RepeatsAreCausedByFaults, StampsFollowAttempts, PTL DEF RevertSafety
=============================================================================
