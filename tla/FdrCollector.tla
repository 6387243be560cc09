---------------------------- MODULE FdrCollector ----------------------------
(***************************************************************************)
(* The CrowdStrike FDR collector under run_collector.  Notifications wait   *)
(* on an SQS queue outside the program; a poll acknowledges the handles of  *)
(* its checkpoint, receives a batch, reads the objects it names, ingests    *)
(* the records and only then replaces the checkpoint, so a notification is  *)
(* deleted one poll after its records were stored.  A handle is represented *)
(* by its notification: "superseded" says it has been received again since. *)
(***************************************************************************)
EXTENDS Naturals, FiniteSets

CONSTANTS
    Message,        \* notifications
    Refs,           \* Refs[m]: objects m names; 0 for one that names none
    BatchMax,       \* messages per ReceiveMessage (_MAX_MESSAGES)
    Budget,         \* objects per poll (_MAX_OBJECTS)
    Visibility,     \* polls that surely begin before a receipt expires
    MaxFaults       \* bound: failures and crashes in a behaviour

ASSUME FdrAssumption ==
    /\ IsFiniteSet(Message)
    /\ Refs \in [Message -> Nat]
    /\ BatchMax \in Nat \ {0} /\ Budget \in Nat \ {0}
    /\ Visibility \in Nat /\ MaxFaults \in Nat

VARIABLES
    place,      \* place[m]: on the SQS queue
    age,        \* age[m]: polls begun since m was received, up to Visibility
    superseded, \* checkpointed messages that have been received again
    cursor,     \* collectors.cursor: handles to acknowledge at the next poll
    pc,         \* run_collector's thread
    batch,      \* received in this poll and not yet looked at
    lines,      \* messages whose objects were read in this poll
    handles,    \* handles for the next checkpoint
    objects,    \* objects read in this poll
    stored,     \* messages whose records are in the events table
    faults

sqs == <<place, age, superseded>>
poll == <<pc, batch, lines, handles, objects>>
vars == <<sqs, cursor, poll, stored, faults>>

TypeOK ==
    /\ place \in [Message -> {"unsent", "visible", "inflight", "deleted"}]
    /\ age \in [Message -> 0 .. Visibility]
    /\ superseded \subseteq Message /\ cursor \subseteq Message
    /\ pc \in {"idle", "ack", "receive", "read", "ingest", "advance"}
    /\ batch \subseteq Message /\ Cardinality(batch) <= BatchMax
    /\ lines \subseteq Message /\ handles \subseteq Message
    /\ objects \in Nat
    /\ stored \subseteq Message
    /\ faults \in 0 .. MaxFaults

Init ==
    /\ place = [m \in Message |-> "unsent"]
    /\ age = [m \in Message |-> 0] /\ superseded = {}
    /\ cursor = {} /\ stored = {} /\ faults = 0
    /\ pc = "idle" /\ batch = {} /\ lines = {} /\ handles = {} /\ objects = 0

Fault == faults < MaxFaults /\ faults' = faults + 1

(* A poll ends, one way or another: what it held in memory is gone. *)
Return ==
    /\ pc' = "idle" /\ batch' = {} /\ lines' = {} /\ handles' = {} /\ objects' = 0

-----------------------------------------------------------------------------
(* The queue. *)

Send(m) ==
    /\ place[m] = "unsent"
    /\ place' = [place EXCEPT ![m] = "visible"]
    /\ UNCHANGED <<age, superseded, cursor, poll, stored, faults>>

(* The visibility timeout of a receipt runs out. *)
Expire(m) ==
    /\ place[m] = "inflight" /\ age[m] = Visibility
    /\ place' = [place EXCEPT ![m] = "visible"]
    /\ UNCHANGED <<age, superseded, cursor, poll, stored, faults>>

-----------------------------------------------------------------------------
(* run_collector reads the row and calls fetch(). *)

Begin ==
    /\ pc = "idle" /\ pc' = "ack"
    /\ age' = [m \in Message |-> IF place[m] = "inflight" /\ age[m] < Visibility
                                 THEN age[m] + 1 ELSE age[m]]
    /\ UNCHANGED <<place, superseded, cursor, batch, lines, handles, objects, stored, faults>>

AckedOne(pending) == IF pending = {} THEN {} ELSE {CHOOSE m \in pending : TRUE}

(* The handles _ack sends to DeleteMessageBatch. *)
Acked(pending) == pending

(* A delete may fail and is then only logged; a handle that expired or was   *)
(* superseded deletes its message or does not.                               *)
Ack ==
    /\ pc = "ack" /\ pc' = "receive"
    /\ \E gone \in SUBSET Acked(cursor) :
         /\ \/ Fault
            \/ /\ UNCHANGED faults
               /\ \A m \in Acked(cursor) \ gone : place[m] # "inflight" \/ m \in superseded
         /\ place' = [m \in Message |-> IF m \in gone THEN "deleted" ELSE place[m]]
    /\ UNCHANGED <<age, superseded, cursor, batch, lines, handles, objects, stored>>

WithinOneMore(b) == Cardinality(b) <= BatchMax + 1

(* What sqs_receive_body asks for. *)
Requested(b) == Cardinality(b) <= BatchMax

(* The long poll returns something whenever there is something. *)
Receive ==
    /\ pc = "receive"
    /\ \E b \in SUBSET {m \in Message : place[m] = "visible"} :
         /\ Requested(b)
         /\ b = {} => \A m \in Message : place[m] # "visible"
         /\ batch' = b
         /\ place' = [m \in Message |-> IF m \in b THEN "inflight" ELSE place[m]]
         /\ age' = [m \in Message |-> IF m \in b THEN 0 ELSE age[m]]
         /\ superseded' = superseded \cup (b \cap cursor)
    /\ pc' = "read"
    /\ UNCHANGED <<cursor, lines, handles, objects, stored, faults>>

StopEvenAtFirst(m) == objects + Refs[m] > Budget
StopLate(m) == objects > Budget

(* The object budget; the first message is never skipped. *)
OverBudget(m) == objects > 0 /\ objects + Refs[m] > Budget

HandedIfReadable(m) == IF Refs[m] > 0 THEN handles \cup {m} ELSE handles
HandedOnReceipt(m) == handles \cup batch

(* The handles after the objects of m were read. *)
Handed(m) == handles \cup {m}

(* The next message of the batch, in the order SQS returned them. *)
Read(m) ==
    /\ pc = "read" /\ m \in batch
    /\ \/ /\ ~OverBudget(m)
          /\ batch' = batch \ {m}
          /\ lines' = lines \cup {m} /\ handles' = Handed(m)
          /\ objects' = objects + Refs[m]
          /\ UNCHANGED pc
       \/ /\ OverBudget(m)
          /\ pc' = "ingest" /\ batch' = {}
          /\ UNCHANGED <<lines, handles, objects>>
    /\ UNCHANGED <<sqs, cursor, stored, faults>>

EndOfBatch ==
    /\ pc = "read" /\ batch = {} /\ pc' = "ingest"
    /\ UNCHANGED <<sqs, cursor, batch, lines, handles, objects, stored, faults>>

(* Receiving, or downloading or unpacking an object, raises out of fetch();  *)
(* the error is recorded and the checkpoint left alone.                      *)
FetchFails ==
    /\ pc \in {"receive", "read"} /\ Fault /\ Return
    /\ UNCHANGED <<sqs, cursor, stored>>

(* ingest() of what was read: one transaction, absorbing what is there.  It  *)
(* may raise before or after the commit.                                     *)
Ingest ==
    /\ pc = "ingest"
    /\ LET records == {m \in lines : Refs[m] > 0} IN
         \/ /\ stored' = stored \cup records /\ pc' = "advance"
            /\ UNCHANGED <<batch, lines, handles, objects, faults>>
         \/ /\ records # {} /\ Fault
            /\ stored' \in {stored, stored \cup records}
            /\ Return
    /\ UNCHANGED <<sqs, cursor>>

(* update_collector with the new checkpoint, the thread's last step. *)
Advance ==
    /\ pc = "advance" /\ Return
    /\ \/ cursor' = handles /\ superseded' = {} /\ UNCHANGED faults
       \/ Fault /\ UNCHANGED <<cursor, superseded>>
    /\ UNCHANGED <<place, age, stored>>

Crash ==
    /\ pc # "idle" /\ Fault /\ Return
    /\ UNCHANGED <<sqs, cursor, stored>>

Poll ==
    \/ Begin \/ Ack \/ Receive \/ EndOfBatch \/ Ingest \/ Advance
    \/ \E m \in Message : Read(m)

Next ==
    \/ Poll \/ FetchFails \/ Crash
    \/ \E m \in Message : Send(m) \/ Expire(m)

(* The scheduler keeps polling and SQS keeps making receipts expire. *)
Fairness == WF_vars(Poll) /\ \A m \in Message : WF_vars(Expire(m))

Spec == Init /\ [][Next]_vars
FairSpec == Spec /\ Fairness

-----------------------------------------------------------------------------
(* docs/SPLUNK_TRANSFORMATION_ROADMAP.md: "a crash cannot delete a           *)
(* notification whose data was never stored", nor can a failing receive,     *)
(* download, ingest or checkpoint update.                                    *)
NothingUnreadIsDeleted ==
    \A m \in Message : place[m] = "deleted" /\ Refs[m] > 0 => m \in stored

(* One poll reads no more objects than its budget, unless a single message   *)
(* names more than that.                                                     *)
BudgetHolds ==
    objects <= Budget \/ \E m \in lines : objects = Refs[m]

(* What is deleted was stored, whatever failed between the two, and a poll   *)
(* stays within its budget of objects.                                       *)
FdrSafety == TypeOK /\ NothingUnreadIsDeleted /\ BudgetHolds

(* While receipts outlive the next poll and nothing fails, what was stored   *)
(* is not received again: the deferred acknowledgement comes in time.        *)
RedeliveryNeedsFault ==
    [][\A m \in batch' \ batch : m \in stored /\ Visibility > 1 => faults > 0]_vars

(* Every notification's records are stored, one larger than the budget too   *)
(* ("must still make progress or the queue wedges").                         *)
EveryNotificationIsStored ==
    \A m \in Message : place[m] = "visible" /\ Refs[m] > 0 ~> m \in stored

(* Every notification, also one that names nothing to read, is consumed:     *)
(* a failed acknowledgement does not wedge the collector.                    *)
EveryNotificationIsConsumed ==
    \A m \in Message : place[m] = "visible" ~> place[m] = "deleted"

(* No failure wedges the queue: every notification is stored and consumed.   *)
NotificationsSettle == EveryNotificationIsStored /\ EveryNotificationIsConsumed
=============================================================================
