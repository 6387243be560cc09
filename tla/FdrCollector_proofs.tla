------------------------- MODULE FdrCollector_proofs -------------------------
(***************************************************************************)
(* Proofs about FdrCollector for any notifications, batch size, object       *)
(* budget, visibility timeout and number of failures and crashes.           *)
(***************************************************************************)
EXTENDS FdrCollector, FiniteSetTheorems, TLAPS

LEMMA NextCases ==
    ASSUME [Next]_vars
    PROVE  \/ Begin \/ Ack \/ Receive \/ EndOfBatch \/ Ingest \/ Advance
           \/ FetchFails \/ Crash \/ UNCHANGED vars
           \/ \E m \in Message : Send(m) \/ Expire(m) \/ Read(m)
BY DEF Next, Poll

(* What is taken from a batch leaves it within its bound. *)
LEMMA SmallerBatch ==
    ASSUME NEW S, IsFiniteSet(S), NEW T \in SUBSET S, NEW n \in Nat, Cardinality(S) <= n
    PROVE  Cardinality(T) <= n
<1>1. Cardinality(T) <= Cardinality(S) /\ IsFiniteSet(T)
  BY FS_Subset
<1>2. Cardinality(T) \in Nat /\ Cardinality(S) \in Nat
  BY <1>1, FS_CardinalityType
<1> QED
  BY <1>1, <1>2

LEMMA TypeNext == TypeOK /\ [Next]_vars => TypeOK'
<1> SUFFICES ASSUME TypeOK, [Next]_vars PROVE TypeOK'
  OBVIOUS
<1> USE FdrAssumption DEF TypeOK, sqs, poll
<1>0. Cardinality({}) = 0
  BY FS_EmptySet
<1>1. ASSUME Begin PROVE TypeOK'
  BY <1>1 DEF Begin
<1>2. ASSUME Ack PROVE TypeOK'
  <2>1. place' \in [Message -> {"unsent", "visible", "inflight", "deleted"}]
    BY <1>2 DEF Ack
  <2>2. faults' \in 0 .. MaxFaults
    BY <1>2 DEF Ack, Fault
  <2> QED
    BY <1>2, <2>1, <2>2 DEF Ack
<1>3. ASSUME Receive PROVE TypeOK'
  <2>1. PICK b \in SUBSET Message :
          /\ Requested(b) /\ batch' = b
          /\ place' = [m \in Message |-> IF m \in b THEN "inflight" ELSE place[m]]
          /\ age' = [m \in Message |-> IF m \in b THEN 0 ELSE age[m]]
          /\ superseded' = superseded \cup (b \cap cursor)
    BY <1>3 DEF Receive
  <2>2. age' \in [Message -> 0 .. Visibility]
    BY <2>1
  <2>3. place' \in [Message -> {"unsent", "visible", "inflight", "deleted"}]
    BY <2>1
  <2>4. batch' \subseteq Message /\ Cardinality(batch') <= BatchMax
    BY <2>1 DEF Requested
  <2>5. superseded' \subseteq Message
    BY <2>1
  <2> QED
    BY <1>3, <2>2, <2>3, <2>4, <2>5 DEF Receive
<1>4. ASSUME EndOfBatch PROVE TypeOK'
  BY <1>4 DEF EndOfBatch
<1>5. ASSUME Ingest PROVE TypeOK'
  <2>1. stored' \subseteq Message /\ faults' \in 0 .. MaxFaults
    BY <1>5 DEF Ingest, Fault
  <2>2. /\ pc' \in {"idle", "advance"}
        /\ \/ UNCHANGED <<batch, lines, handles, objects>>
           \/ batch' = {} /\ lines' = {} /\ handles' = {} /\ objects' = 0
    BY <1>5 DEF Ingest, Return
  <2> QED
    BY <1>0, <1>5, <2>1, <2>2 DEF Ingest
<1>6. ASSUME Advance PROVE TypeOK'
  BY <1>0, <1>6 DEF Advance, Fault, Return
<1>7. ASSUME FetchFails PROVE TypeOK'
  BY <1>0, <1>7 DEF FetchFails, Fault, Return
<1>8. ASSUME Crash PROVE TypeOK'
  BY <1>0, <1>8 DEF Crash, Fault, Return
<1>9. ASSUME NEW m \in Message, Send(m) PROVE TypeOK'
  BY <1>9 DEF Send
<1>10. ASSUME NEW m \in Message, Expire(m) PROVE TypeOK'
  BY <1>10 DEF Expire
<1>11. ASSUME NEW m \in Message, Read(m) PROVE TypeOK'
  <2>1. IsFiniteSet(batch) /\ Cardinality(batch) \in Nat
    BY FS_Subset, FS_CardinalityType
  <2>2. Cardinality(batch') <= BatchMax
    <3>1. batch' \subseteq batch
      BY <1>11 DEF Read
    <3> QED
      BY <2>1, <3>1, SmallerBatch
  <2>3. batch' \subseteq Message /\ lines' \subseteq Message /\ handles' \subseteq Message
    BY <1>11 DEF Read, Handed
  <2>4. objects' \in Nat
    BY <1>11 DEF Read
  <2> QED
    BY <1>11, <2>2, <2>3, <2>4 DEF Read
<1>12. ASSUME UNCHANGED vars PROVE TypeOK'
  BY <1>12 DEF vars
<1> QED
  BY <1>1, <1>2, <1>3, <1>4, <1>5, <1>6, <1>7, <1>8, <1>9, <1>10, <1>11, <1>12, NextCases

LEMMA TypeHolds == Spec => []TypeOK
<1>1. Init => TypeOK
  BY FdrAssumption, FS_EmptySet DEF Init, TypeOK
<1> QED
  BY <1>1, TypeNext, PTL DEF Spec

-----------------------------------------------------------------------------
(* The inductive invariant.  A poll starts with empty hands; the handles it  *)
(* collects are those of the messages it read; the checkpoint names only     *)
(* messages that are stored.                                                 *)
EmptyHanded ==
    pc \in {"idle", "ack", "receive"} =>
        batch = {} /\ lines = {} /\ handles = {} /\ objects = 0

HandlesAreRead == handles = lines

Records(S) == {m \in S : Refs[m] > 0}

CheckpointIsStored ==
    /\ Records(cursor) \subseteq stored
    /\ pc = "advance" => Records(lines) \subseteq stored

Inv ==
    /\ TypeOK /\ EmptyHanded /\ HandlesAreRead /\ CheckpointIsStored
    /\ NothingUnreadIsDeleted /\ BudgetHolds

LEMMA InvNext == Inv /\ [Next]_vars => Inv'
<1> SUFFICES ASSUME Inv, [Next]_vars PROVE Inv'
  OBVIOUS
<1>0. TypeOK /\ TypeOK'
  BY TypeNext DEF Inv
<1> DEFINE Parts == /\ EmptyHanded /\ HandlesAreRead /\ CheckpointIsStored
                    /\ NothingUnreadIsDeleted /\ BudgetHolds
<1> SUFFICES Parts'
  BY <1>0 DEF Inv
<1> USE <1>0, FdrAssumption
    DEF Inv, TypeOK, EmptyHanded, HandlesAreRead, Records, CheckpointIsStored,
        NothingUnreadIsDeleted, BudgetHolds, sqs, poll
<1>1. ASSUME Begin PROVE Parts'
  BY <1>1 DEF Begin
<1>2. ASSUME Ack PROVE Parts'
  BY <1>2 DEF Ack, Acked
<1>3. ASSUME Receive PROVE Parts'
  BY <1>3 DEF Receive
<1>4. ASSUME EndOfBatch PROVE Parts'
  BY <1>4 DEF EndOfBatch
<1>5. ASSUME Ingest PROVE Parts'
  BY <1>5 DEF Ingest, Return
<1>6. ASSUME Advance PROVE Parts'
  BY <1>6 DEF Advance, Return
<1>7. ASSUME FetchFails PROVE Parts'
  BY <1>7 DEF FetchFails, Return
<1>8. ASSUME Crash PROVE Parts'
  BY <1>8 DEF Crash, Return
<1>9. ASSUME NEW m \in Message, Send(m) PROVE Parts'
  BY <1>9 DEF Send
<1>10. ASSUME NEW m \in Message, Expire(m) PROVE Parts'
  BY <1>10 DEF Expire
<1>11. ASSUME NEW m \in Message, Read(m) PROVE Parts'
  BY <1>11 DEF Read, Handed, OverBudget
<1>12. ASSUME UNCHANGED vars PROVE Parts'
  BY <1>12 DEF vars
<1> QED
  BY <1>1, <1>2, <1>3, <1>4, <1>5, <1>6, <1>7, <1>8, <1>9, <1>10, <1>11, <1>12, NextCases

LEMMA InvHolds == Spec => []Inv
<1>1. Init => Inv
  BY FdrAssumption, FS_EmptySet
  DEF Init, Inv, TypeOK, EmptyHanded, HandlesAreRead, Records, CheckpointIsStored,
      NothingUnreadIsDeleted, BudgetHolds
<1> QED
  BY <1>1, InvNext, PTL DEF Spec

-----------------------------------------------------------------------------
(* Why a stored notification does not come back while nothing fails: what    *)
(* the poll holds was just received, and what is stored is deleted, or waits *)
(* in the checkpoint with a receipt that is still good for the next          *)
(* acknowledgement, or is about to enter the checkpoint.                     *)
InHandIsFresh ==
    Visibility > 0 => \A m \in batch \cup lines : place[m] = "inflight" /\ age[m] = 0

Settled(m) ==
    \/ place[m] = "deleted"
    \/ /\ place[m] = "inflight" /\ m \in cursor /\ m \notin superseded
       /\ pc \in {"idle", "ack"} /\ age[m] <= 1 /\ (pc = "idle" => age[m] = 0)
    \/ pc = "advance" /\ m \in lines

StoredIsSettled == faults = 0 /\ Visibility > 1 => \A m \in stored : Settled(m)

Fresh == Inv /\ InHandIsFresh /\ StoredIsSettled

LEMMA FreshNext == Fresh /\ [Next]_vars => Fresh'
<1> SUFFICES ASSUME Fresh, [Next]_vars PROVE InHandIsFresh' /\ StoredIsSettled'
  BY InvNext DEF Fresh
<1>0. TypeOK /\ EmptyHanded /\ HandlesAreRead /\ InHandIsFresh /\ StoredIsSettled
  BY DEF Fresh, Inv
<1> DEFINE Parts == InHandIsFresh /\ StoredIsSettled
<1> SUFFICES Parts'
  OBVIOUS
<1> USE <1>0, FdrAssumption
    DEF TypeOK, EmptyHanded, HandlesAreRead, InHandIsFresh, StoredIsSettled, Settled,
        sqs, poll
<1>1. ASSUME Begin PROVE Parts'
  BY <1>1 DEF Begin
<1>2. ASSUME Ack PROVE Parts'
  BY <1>2 DEF Ack, Acked, Fault
<1>3. ASSUME Receive PROVE Parts'
  BY <1>3 DEF Receive
<1>4. ASSUME EndOfBatch PROVE Parts'
  BY <1>4 DEF EndOfBatch
<1>5. ASSUME Ingest PROVE Parts'
  BY <1>5 DEF Ingest, Return, Fault
<1>6. ASSUME Advance PROVE Parts'
  BY <1>6 DEF Advance, Return, Fault
<1>7. ASSUME FetchFails PROVE Parts'
  BY <1>7 DEF FetchFails, Return, Fault
<1>8. ASSUME Crash PROVE Parts'
  BY <1>8 DEF Crash, Return, Fault
<1>9. ASSUME NEW m \in Message, Send(m) PROVE Parts'
  BY <1>9 DEF Send
<1>10. ASSUME NEW m \in Message, Expire(m) PROVE Parts'
  BY <1>10 DEF Expire
<1>11. ASSUME NEW m \in Message, Read(m) PROVE Parts'
  BY <1>11 DEF Read, Handed
<1>12. ASSUME UNCHANGED vars PROVE Parts'
  BY <1>12 DEF vars
<1> QED
  BY <1>1, <1>2, <1>3, <1>4, <1>5, <1>6, <1>7, <1>8, <1>9, <1>10, <1>11, <1>12, NextCases

LEMMA FreshHolds == Spec => []Fresh
<1>1. Init /\ Inv => Fresh
  BY FdrAssumption DEF Init, Fresh, InHandIsFresh, StoredIsSettled
<1> QED
  BY <1>1, FreshNext, InvHolds, PTL DEF Spec

-----------------------------------------------------------------------------
(* Type correctness; a poll receives no more than BatchMax messages.         *)
THEOREM TypeCorrect == Spec => []TypeOK
BY TypeHolds

(* A notification is deleted only when its records are stored, whatever      *)
(* fails or crashes in between.                                              *)
THEOREM DeletedNotificationsAreStored == Spec => []NothingUnreadIsDeleted
<1>1. Inv => NothingUnreadIsDeleted
  BY DEF Inv
<1> QED
  BY <1>1, InvHolds, PTL

(* A poll exceeds its object budget only for one message that is larger.     *)
THEOREM PollsAreBounded == Spec => []BudgetHolds
<1>1. Inv => BudgetHolds
  BY DEF Inv
<1> QED
  BY <1>1, InvHolds, PTL

(* While receipts outlive the next poll, a notification whose records are    *)
(* stored is received again only after a failure or a crash.                 *)
THEOREM StoredIsNotRedelivered == Spec => RedeliveryNeedsFault
<1> DEFINE Once ==
      \A m \in batch' \ batch : m \in stored /\ Visibility > 1 => faults > 0
<1>1. ASSUME Fresh, [Next]_vars PROVE Once \/ UNCHANGED vars
  <2>1. TypeOK /\ EmptyHanded /\ StoredIsSettled
    BY <1>1 DEF Fresh, Inv
  <2>2. CASE Receive
    <3>1. pc = "receive" /\ \A m \in batch' : m \in Message /\ place[m] = "visible"
      BY <2>2 DEF Receive
    <3> QED
      BY <2>1, <3>1 DEF TypeOK, StoredIsSettled, Settled
  <2>3. CASE ~Receive
    <3>1. batch' \subseteq batch
      BY <1>1, <2>1, <2>3, NextCases
      DEF Begin, Ack, EndOfBatch, Ingest, Advance, FetchFails, Crash, Send, Expire, Read,
          Return, poll, vars
    <3> QED
      BY <3>1
  <2> QED
    BY <2>2, <2>3
<1>2. Fresh /\ [Next]_vars => [Once]_vars
  BY <1>1
<1> QED
  BY <1>2, FreshHolds, PTL DEF Spec, RedeliveryNeedsFault

(* What is deleted was stored, in polls of bounded size (crowdstrike.py,    *)
(* fetch and run_collector around it).                                      *)
THEOREM FdrIsSafe == Spec => []FdrSafety
BY TypeCorrect, DeletedNotificationsAreStored, PollsAreBounded, PTL DEF FdrSafety
=============================================================================
