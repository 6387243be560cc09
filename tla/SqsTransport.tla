---------------------------- MODULE SqsTransport ----------------------------
(***************************************************************************)
(* app/collectors/aws_s3.py S3SqsCollector under runner.run_collector:     *)
(* notifications on an SQS queue name objects in S3.  One fetch receives   *)
(* batches, reads the objects, deletes the messages whose objects it could *)
(* all read, and returns the records; they are ingested after that.        *)
(***************************************************************************)
EXTENDS Integers, Sequences, FiniteSets

CONSTANTS Notices,      \* message -> its body
          Objects,      \* object name -> its content
          Unquoted,     \* key as a notification writes it -> object name
          Unreadable3,  \* objects S3 never gives: expired or denied
          MaxReceives,  \* _MAX_BATCHES
          ReceiveMax,   \* _MAX_MESSAGES
          ObjectBudget, \* _MAX_OBJECTS
          SqsFaultBound

VARIABLES
    onQueue,    \* message -> unsent, visible, inflight (late once its poll is over) or deleted
    poll,       \* where run_collector is
    received,   \* messages of this batch not looked at yet
    inHand,     \* records read in this poll
    complete,   \* messages to delete (done)
    reads,      \* objects read or tried (objects)
    receives,   \* ReceiveMessage calls
    ingested,   \* records in the events table
    forgone,    \* records of deleted messages a failure threw away
    lastStatus, \* collectors.last_status
    sqsFaults

sqsVars == <<onQueue, poll, received, inHand, complete, reads, receives, ingested, forgone, lastStatus, sqsFaults>>

Message3 == DOMAIN Notices

-----------------------------------------------------------------------------
(* What a message names and what an object holds.                          *)
\* s3_object_keys: the entries that name an object; an SNS envelope is unwrapped once.
ObjectKeys(m) ==
    LET body == Notices[m]
    IN  {i \in DOMAIN body.records :
            /\ body.form \in {"sns", "bare"} /\ ~body.test
            /\ body.records[i].event \in {"created", "none"} /\ body.records[i].key \notin {"none", "folder"}}

ObjectsAt(m, entries) == {Unquoted[Notices[m].records[i].key] : i \in entries}
ObjectsOf(m) == ObjectsAt(m, ObjectKeys(m))

\* One JSON document only.
OneDocument(o) ==
    LET c == Objects[o]
    IN  IF c.packing = "torn" \/ c.shape \notin {"wrapped", "array"} THEN {} ELSE c.records

\* gunzip_text and gzip_records: a wrapper, an array, or one object a line.
RecordsOf(o) ==
    LET c == Objects[o]
    IN  IF c.packing = "torn" \/ c.shape \notin {"wrapped", "array", "lines"} THEN {} ELSE c.records

-----------------------------------------------------------------------------
SqsInit ==
    /\ onQueue = [m \in Message3 |-> "unsent"] /\ poll = "idle"
    /\ received = {} /\ inHand = {} /\ complete = {} /\ reads = 0 /\ receives = 0
    /\ ingested = {} /\ forgone = {} /\ lastStatus = "none" /\ sqsFaults = 0

SqsFault == sqsFaults < SqsFaultBound /\ sqsFaults' = sqsFaults + 1
Forget == received' = {} /\ inHand' = {} /\ complete' = {} /\ reads' = 0 /\ receives' = 0
KeepsPoll == UNCHANGED <<received, inHand, complete, reads, receives>>

Notify(m) ==
    /\ onQueue[m] = "unsent" /\ onQueue' = [onQueue EXCEPT ![m] = "visible"]
    /\ KeepsPoll /\ UNCHANGED <<poll, ingested, forgone, lastStatus, sqsFaults>>

\* The visibility timeout runs out, before the poll that received it ends only
\* when that poll is slower than _VISIBILITY_TIMEOUT.
Reappear(m) ==
    /\ onQueue[m] \in {"inflight", "late"} /\ onQueue' = [onQueue EXCEPT ![m] = "visible"]
    /\ IF onQueue[m] = "late" \/ poll = "idle" THEN sqsFaults' = sqsFaults ELSE SqsFault
    /\ KeepsPoll /\ UNCHANGED <<poll, ingested, forgone, lastStatus>>

PollBegins ==
    /\ poll = "idle" /\ poll' = "receive"
    /\ onQueue' = [m \in Message3 |-> IF onQueue[m] = "inflight" THEN "late" ELSE onQueue[m]]
    /\ KeepsPoll /\ UNCHANGED <<ingested, forgone, lastStatus, sqsFaults>>

\* ReceiveMessage gives something when there is something.
Receive3(b) ==
    /\ poll = "receive"
    /\ \A m \in b : onQueue[m] = "visible"
    /\ Cardinality(b) <= ReceiveMax
    /\ b = {} => \A m \in Message3 : onQueue[m] # "visible"
    /\ onQueue' = [m \in Message3 |-> IF m \in b THEN "inflight" ELSE onQueue[m]]
    /\ received' = b /\ receives' = receives + 1
    /\ poll' = IF b = {} THEN "delete" ELSE "read"
    /\ UNCHANGED <<inHand, complete, reads, ingested, forgone, lastStatus, sqsFaults>>

\* One message: an unreadable object does not stop the poll, the budget does.
Read3(m, failing) ==
    LET within == {i \in ObjectKeys(m) : Cardinality({k \in ObjectKeys(m) : k < i}) < ObjectBudget - reads}
        tried == ObjectsAt(m, within)
        whole == within = ObjectKeys(m) /\ failing = {}
    IN  /\ poll = "read" /\ m \in received /\ failing \subseteq tried
        /\ tried \cap Unreadable3 \subseteq failing
        /\ inHand' = inHand \cup UNION {RecordsOf(o) : o \in tried \ failing}
        /\ complete' = IF whole THEN complete \cup {m} ELSE complete
        /\ reads' = reads + Cardinality(within)
        /\ received' = received \ {m}
        /\ UNCHANGED <<onQueue, poll, receives, ingested, forgone, lastStatus>>

\* A message is done when one of its objects could be read.
\* An object that cannot be read fails the poll.
ReadOrAbort(m, failing) ==
    IF failing = {} THEN Read3(m, failing)
    ELSE /\ poll = "read" /\ m \in received /\ failing \subseteq ObjectsOf(m)
         /\ ObjectsOf(m) \cap Unreadable3 \subseteq failing
         /\ poll' = "idle" /\ lastStatus' = "error" /\ Forget
         /\ UNCHANGED <<onQueue, ingested, forgone>>

ReadMessage(m, failing) == Read3(m, failing)

Reading(m) == \E failing \in SUBSET ObjectsOf(m) :
    /\ ReadMessage(m, failing)
    /\ IF failing \subseteq Unreadable3 THEN sqsFaults' = sqsFaults ELSE SqsFault

BatchRead ==
    /\ poll = "read" /\ received = {}
    /\ poll' = IF reads >= ObjectBudget \/ receives >= MaxReceives THEN "delete" ELSE "receive"
    /\ KeepsPoll /\ UNCHANGED <<onQueue, ingested, forgone, lastStatus, sqsFaults>>

Deleted3(gone) == [m \in Message3 |-> IF m \in gone THEN "deleted" ELSE onQueue[m]]
LostWith(gone) == inHand \cap UNION {RecordsOf(o) : o \in UNION {ObjectsOf(m) : m \in gone}}

\* _delete, inside fetch.
Delete3 ==
    /\ poll = "delete" /\ onQueue' = Deleted3(complete)
    /\ poll' = "ingest" /\ KeepsPoll /\ UNCHANGED <<ingested, forgone, lastStatus, sqsFaults>>

\* A batch of deletions fails, perhaps after others: the poll raises.
DeleteFails ==
    /\ poll = "delete" /\ complete # {} /\ SqsFault
    /\ \E gone \in SUBSET complete :
          onQueue' = Deleted3(gone) /\ forgone' = forgone \cup LostWith(gone)
    /\ poll' = "idle" /\ lastStatus' = "error" /\ Forget /\ UNCHANGED ingested

ReceiveFails ==
    /\ poll = "receive" /\ SqsFault
    /\ poll' = "idle" /\ lastStatus' = "error" /\ Forget /\ UNCHANGED <<onQueue, ingested, forgone>>

\* ingest and the update of the collector's row.
Store3 ==
    /\ poll = "ingest" /\ ingested' = ingested \cup inHand
    /\ poll' = "idle" /\ lastStatus' = "ok" /\ Forget /\ UNCHANGED <<onQueue, forgone, sqsFaults>>

StoreFails ==
    /\ poll = "ingest" /\ inHand # {} /\ SqsFault
    /\ forgone' = forgone \cup LostWith(complete)
    /\ poll' = "idle" /\ lastStatus' = "error" /\ Forget /\ UNCHANGED <<onQueue, ingested>>

Crash3 ==
    /\ poll # "idle" /\ SqsFault
    /\ forgone' = IF poll = "ingest" THEN forgone \cup LostWith(complete) ELSE forgone
    /\ poll' = "idle" /\ Forget /\ UNCHANGED <<onQueue, ingested, lastStatus>>

SqsNext ==
    \/ \E m \in Message3 : Notify(m) \/ Reappear(m) \/ Reading(m)
    \/ PollBegins \/ (\E b \in SUBSET Message3 : Receive3(b)) \/ BatchRead
    \/ Delete3 \/ DeleteFails \/ ReceiveFails \/ Store3 \/ StoreFails \/ Crash3

Poller == PollBegins \/ (\E b \in SUBSET Message3 : Receive3(b)) \/ BatchRead \/ Delete3 \/ Store3
          \/ \E m \in Message3 : Reading(m)

\* The scheduler polls on, and an expired receipt reappears.
SqsFairness == WF_sqsVars(Poller) /\ \A m \in Message3 : WF_sqsVars(Reappear(m))

SqsSpec == SqsInit /\ [][SqsNext]_sqsVars /\ SqsFairness

-----------------------------------------------------------------------------
Legible(o) == Objects[o].packing # "torn" /\ Objects[o].shape \in {"wrapped", "array", "lines"}

(* A notification is deleted only when the records of every object it names  *)
(* are stored or in hand; else a failure between the deletion and the commit *)
(* threw them away (aws_s3.py, fetch; its DELIVERY note).                    *)
DeletedIsAccountedFor ==
    \A m \in Message3 : onQueue[m] = "deleted" =>
        \A o \in ObjectsOf(m) : Legible(o) =>
            o \notin Unreadable3 /\ Objects[o].records \subseteq ingested \cup inHand \cup forgone

(* A message whose objects can be read is consumed in the end, whatever      *)
(* other messages hold: one object that can never be read costs its own      *)
(* message only (aws_s3.py:417-427; compare crowdstrike.py:404).             *)
ReadableGetThrough ==
    []<>(\A m \in Message3 :
            ObjectsOf(m) \cap Unreadable3 = {} /\ Cardinality(ObjectKeys(m)) <= ObjectBudget =>
                onQueue[m] \in {"unsent", "deleted"})
=============================================================================
