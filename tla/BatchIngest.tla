---------------------------- MODULE BatchIngest ----------------------------
(***************************************************************************)
(* Batch ingest: ingest.ingest and the transaction of pipeline.write_stream *)
(* below it.  Uploads of files run concurrently, each in a request thread;  *)
(* every database call of ingest() is a step of its own, the write is one   *)
(* transaction, and the process may crash between any two steps.            *)
(*                                                                         *)
(* An event's identity is its content and its time.  A line without a time  *)
(* is given the batch's fallback time, which ingest() takes from an earlier *)
(* batch of the same bytes so that a re-upload meets the same identities.   *)
(***************************************************************************)
EXTENDS Integers, Sequences, FiniteSets

CONSTANTS
    Upload,     \* the calls of ingest(); a call is also the id of its batch
    File,       \* contents, compared by their sha256
    Line,       \* the events a file parses into
    FileOf,     \* FileOf[u]: what upload u carries
    LinesOf,    \* LinesOf[f]: the events of f in order, repetitions included
    Stamped,    \* lines that carry their own timestamp
    Discarded,  \* lines an ingest action drops
    Alerting,   \* lines a detection rule matches
    Muted,      \* alerting lines a suppression matches
    None,       \* no prior batch
    MaxCrashes  \* bound: process crashes in a behaviour

ASSUME FileAssumption ==
    /\ FileOf \in [Upload -> File]
    /\ LinesOf \in [File -> Seq(Line)]
    /\ Stamped \subseteq Line /\ Discarded \subseteq Line
    /\ Muted \subseteq Alerting /\ Alerting \subseteq Line

ASSUME ParameterAssumption ==
    /\ IsFiniteSet(Upload) /\ None \notin Upload
    /\ MaxCrashes \in Nat

VARIABLES
    pc,         \* pc[u]: how far the call of ingest() has come
    prior,      \* prior[u]: the batch find_batch_by_sha returned, or None
    uploadedAt, \* ingest_batches.uploaded_at, 0 before the batch exists
    fallback,   \* fallback[u]: the time given to lines without one
    status,     \* ingest_batches.status
    books,      \* the counts update_batch wrote on the batch row
    events,     \* the events table: [batch, key] records
    alerts,     \* the alerts table: [batch, key] records
    notified,   \* alerts handed to notification and response
    clock,      \* the wall clock
    crashes

batch == <<uploadedAt, fallback, status, books>>
tables == <<events, alerts>>
vars == <<pc, prior, batch, tables, notified, clock, crashes>>

Phases == {"idle", "looked", "created", "committed", "rolledback", "dispatched",
           "done", "failed", "broken"}

(* normalize.dedup_hash and the column event_time: the unique index.        *)
KeyStampedByBatch(u, l) == [line |-> l, time |-> fallback[u]]
KeyOf(u, l) == [line |-> l, time |-> IF l \in Stamped THEN 0 ELSE fallback[u]]

Positions(u) == DOMAIN LinesOf[FileOf[u]]
LineAt(u, k) == LinesOf[FileOf[u]][k]
Kept(u) == {LineAt(u, k) : k \in Positions(u)} \ Discarded

Total(u) == Len(LinesOf[FileOf[u]])
DroppedCount(u) == Cardinality({k \in Positions(u) : LineAt(u, k) \in Discarded})

Key == [line : Line, time : Nat]
Entry == [batch : Upload, key : Key]
EntriesOf(table, u) == {r \in table : r.batch = u}
HasKey(table, k) == \E r \in table : r.key = k

NoBooks == [total |-> 0, inserted |-> 0, duplicates |-> 0, dropped |-> 0]

TypeOK ==
    /\ pc \in [Upload -> Phases]
    /\ prior \in [Upload -> Upload \cup {None}]
    /\ uploadedAt \in [Upload -> Nat]
    /\ fallback \in [Upload -> Nat]
    /\ status \in [Upload -> {"none", "pending", "done", "error"}]
    /\ books \in [Upload -> [total : Nat, inserted : Nat, duplicates : Nat, dropped : Nat]]
    /\ events \subseteq Entry
    /\ alerts \subseteq Entry
    /\ notified \subseteq Entry
    /\ clock \in Nat
    /\ crashes \in 0 .. MaxCrashes

Init ==
    /\ pc = [u \in Upload |-> "idle"]
    /\ prior = [u \in Upload |-> None]
    /\ uploadedAt = [u \in Upload |-> 0]
    /\ fallback = [u \in Upload |-> 0]
    /\ status = [u \in Upload |-> "none"]
    /\ books = [u \in Upload |-> NoBooks]
    /\ events = {} /\ alerts = {} /\ notified = {}
    /\ clock = 0 /\ crashes = 0

GoTo(u, from, to) ==
    /\ pc[u] = from
    /\ pc' = [pc EXCEPT ![u] = to]

-----------------------------------------------------------------------------
AnyBatches(f) == {u \in Upload : FileOf[u] = f /\ status[u] # "none"}

(* find_batch_by_sha: the done batch of the same bytes uploaded last.       *)
DoneBatches(f) == {u \in Upload : FileOf[u] = f /\ status[u] = "done"}

FindPrior(u) ==
    /\ GoTo(u, "idle", "looked")
    /\ LET done == DoneBatches(FileOf[u]) IN
         \/ done = {} /\ UNCHANGED prior
         \/ \E p \in done :
              /\ \A v \in done : uploadedAt[v] <= uploadedAt[p]
              /\ prior' = [prior EXCEPT ![u] = p]
    /\ UNCHANGED <<batch, tables, notified, clock, crashes>>

(* The clock is read, the batch row committed as pending, and the fallback   *)
(* chosen.  The clock moves on between two readings.                         *)
CreateBatch(u) ==
    /\ GoTo(u, "looked", "created")
    /\ clock' = clock + 1
    /\ uploadedAt' = [uploadedAt EXCEPT ![u] = clock']
    /\ fallback' = [fallback EXCEPT ![u] =
                        IF prior[u] = None THEN clock' ELSE uploadedAt[prior[u]]]
    /\ status' = [status EXCEPT ![u] = "pending"]
    /\ UNCHANGED <<prior, books, tables, notified, crashes>>

(* INSERT ... ON CONFLICT DO NOTHING, for events and for alerts. *)
Fresh(table, u, lines) ==
    {r \in {[batch |-> u, key |-> KeyOf(u, l)] : l \in lines} : ~HasKey(table, r.key)}

AlertLinesBeforeActions(u) == {LineAt(u, k) : k \in Positions(u)} \cap Alerting
AlertLines(u) == Kept(u) \cap Alerting

(* write_stream and the commit: kept lines become rows, matches become       *)
(* alerts, all in one transaction.                                           *)
Write(u) ==
    /\ GoTo(u, "created", "committed")
    /\ events' = events \cup Fresh(events, u, Kept(u))
    /\ alerts' = alerts \cup Fresh(alerts, u, AlertLines(u))
    /\ UNCHANGED <<prior, batch, notified, clock, crashes>>

(* Anything raised up to the commit rolls everything back. *)
RollbackKeepsEvents(u) ==
    /\ GoTo(u, "created", "rolledback")
    /\ \E l \in Kept(u) : events' = events \cup Fresh(events, u, {l})
    /\ UNCHANGED <<prior, batch, alerts, notified, clock, crashes>>
Rollback(u) ==
    /\ GoTo(u, "created", "rolledback")
    /\ UNCHANGED <<prior, batch, tables, notified, clock, crashes>>

MarkError(u) ==
    /\ GoTo(u, "rolledback", "failed")
    /\ status' = [status EXCEPT ![u] = "error"]
    /\ UNCHANGED <<prior, uploadedAt, fallback, books, tables, notified, clock, crashes>>

MatchedToDispatch(u) ==
    {[batch |-> u, key |-> KeyOf(u, l)] : l \in AlertLines(u) \ Muted}
ToDispatchUnlessAnyMuted(u) ==
    {r \in EntriesOf(alerts, u) : \A a \in EntriesOf(alerts, u) : a.key.line \notin Muted}

(* The alerts the insert really added, suppressed ones left out.  They live  *)
(* in the memory of the call until dispatch() has taken them.                *)
ToDispatch(u) == {r \in EntriesOf(alerts, u) : r.key.line \notin Muted}

Dispatch(u) ==
    /\ GoTo(u, "committed", "dispatched")
    /\ notified' = notified \cup ToDispatch(u)
    /\ UNCHANGED <<prior, batch, tables, clock, crashes>>

(* What is neither stored nor dropped was a duplicate. *)
ClampAtZero(n) == IF n < 0 THEN 0 ELSE n
DuplicatesOfDistinct(u, inserted) == Cardinality(Kept(u)) - DroppedCount(u) - inserted
DuplicatesForgettingDrops(u, inserted) == ClampAtZero(Total(u) - inserted)
Duplicates(u, inserted) == ClampAtZero(Total(u) - DroppedCount(u) - inserted)

(* count_batch_rows and the closing update_batch. *)
Finish(u) ==
    /\ GoTo(u, "dispatched", "done")
    /\ status' = [status EXCEPT ![u] = "done"]
    /\ LET inserted == Cardinality(EntriesOf(events, u)) IN
         books' = [books EXCEPT ![u] =
            [total |-> Total(u), inserted |-> inserted,
             duplicates |-> Duplicates(u, inserted), dropped |-> DroppedCount(u)]]
    /\ UNCHANGED <<prior, uploadedAt, fallback, tables, notified, clock, crashes>>

(* A database call outside the transaction raises: create_batch, the update  *)
(* to error, the count or the closing update.  The batch stays as it is.     *)
FailLate(u) ==
    /\ pc[u] \in {"looked", "rolledback", "dispatched"}
    /\ pc' = [pc EXCEPT ![u] = "broken"]
    /\ UNCHANGED <<prior, batch, tables, notified, clock, crashes>>

(* The process dies: the calls in progress are gone, the rows stay. *)
Crash ==
    /\ crashes < MaxCrashes
    /\ \E u \in Upload : pc[u] \notin {"idle", "done", "failed", "broken"}
    /\ crashes' = crashes + 1
    /\ pc' = [u \in Upload |-> IF pc[u] \in {"idle", "done", "failed"} THEN pc[u]
                               ELSE "broken"]
    /\ UNCHANGED <<prior, batch, tables, notified, clock>>

Finished ==
    /\ \A u \in Upload : pc[u] \in {"done", "failed", "broken"}
    /\ UNCHANGED vars

Step(u) ==
    \/ FindPrior(u) \/ CreateBatch(u) \/ Write(u) \/ Rollback(u)
    \/ MarkError(u) \/ Dispatch(u) \/ Finish(u) \/ FailLate(u)

Next == (\E u \in Upload : Step(u)) \/ Crash \/ Finished

(* A call that has begun runs to its end unless the process dies. *)
Fairness == \A u \in Upload : WF_vars(pc[u] # "idle" /\ Step(u))

Spec == Init /\ [][Next]_vars
FairSpec == Spec /\ Fairness

-----------------------------------------------------------------------------
(* A line that carries its own time is stored once, however often, however   *)
(* concurrently and in whichever files it is uploaded, and whatever crashes. *)
StampedOnce ==
    \A r, s \in events : r.key.line = s.key.line /\ r.key.line \in Stamped => r = s

(* A batch is stored as a whole or not at all: if it added any row, every    *)
(* line it keeps is in the table; a batch marked as failed added nothing.    *)
AllOrNothing ==
    \A u \in Upload :
        /\ EntriesOf(events, u) # {} => \A l \in Kept(u) : HasKey(events, KeyOf(u, l))
        /\ status[u] = "error" => EntriesOf(events, u) = {}

(* Uploading again what was uploaded once adds nothing, times or no times:   *)
(* the fallback of the first batch is met again.  Overlapping uploads and    *)
(* crashes of other uploads do not disturb it.                               *)
SecondUploadAddsNothing ==
    \A u \in Upload :
        prior[u] # None /\ prior[prior[u]] = None => EntriesOf(events, u) = {}

(* The counts on a finished batch add up, and inserted is what the table     *)
(* holds for it: a dropped line is not passed off as a duplicate.            *)
BooksBalance ==
    \A u \in Upload : status[u] = "done" =>
        /\ books[u].total = books[u].inserted + books[u].duplicates + books[u].dropped
        /\ books[u].inserted = Cardinality(EntriesOf(events, u))

(* An alert stands for an event that was stored: dropped lines raise none,   *)
(* and no alert survives a rolled-back batch.                                *)
AlertsHaveEvents == \A a \in alerts : HasKey(events, a.key)

(* An alert is handed to notification and response at most once, for all     *)
(* re-uploads, and only after it is committed.                               *)
NotifiedOnce ==
    /\ \A a, b \in notified : a.key = b.key => a = b
    /\ notified \subseteq alerts

(* Whatever overlaps, fails or crashes, a batch is there as a whole or not   *)
(* at all, bytes uploaded twice are stored once, the batch's books agree     *)
(* with the table, and alerts stand for stored events and go out once.       *)
UploadSafety ==
    /\ TypeOK /\ StampedOnce /\ AllOrNothing /\ SecondUploadAddsNothing
    /\ BooksBalance /\ AlertsHaveEvents /\ NotifiedOnce

(* Unless the process dies, every stored alert that is not suppressed is     *)
(* handed on.                                                                *)
AlertsAreNotified ==
    \A u \in Upload, l \in Line \ Muted :
        (\E a \in alerts : a.batch = u /\ a.key.line = l)
        ~> (\E a \in notified : a.batch = u /\ a.key.line = l) \/ crashes > 0

(* ingest.py: "reusing the FIRST batch's upload time for re-ingests of       *)
(* identical bytes keeps that fallback stable", so a re-upload still dedups. *)
ReuploadAddsNothing ==
    \A u \in Upload : prior[u] # None => EntriesOf(events, u) = {}
=============================================================================
