---------------------------- MODULE IngestQueue ----------------------------
(***************************************************************************)
(* The live ingest queue of app/streaming.py: receivers submit items to a  *)
(* bounded in-memory queue, a pool of writer tasks takes them off, buffers *)
(* them and flushes a buffer by size, by age, or on shutdown.  A flush     *)
(* writes one database transaction per source group in a thread pool.      *)
(*                                                                         *)
(* Two schedulers interleave: the event loop (submit, worker steps, stop)  *)
(* and the pool threads (Commit, Rollback, Return, FailLate).  A task that *)
(* is cancelled while it awaits a thread leaves that thread running: the   *)
(* write becomes an orphan.                                                *)
(***************************************************************************)
EXTENDS Naturals, Sequences, FiniteSets

CONSTANTS
    Item,       \* the IngestItems receivers may submit, each at most once
    Source,     \* the (fmt, source_type, source_addr, vendor) keys
    Event,      \* the events carried by the items
    Worker,     \* the writer tasks
    SourceOf,   \* SourceOf[i]: the grouping key of item i
    EventsOf,   \* EventsOf[i]: the events of item i
    MaxSize,    \* capacity of the asyncio queue
    FlushMax    \* buffered events that trigger a flush

ASSUME ItemAssumption ==
    /\ IsFiniteSet(Item) /\ Source # {}
    /\ SourceOf \in [Item -> Source]
    /\ EventsOf \in [Item -> SUBSET Event]
    /\ IsFiniteSet(Event)
    \* receivers submit only when parsing produced events
    /\ \A i \in Item : EventsOf[i] # {}
    /\ \A i, j \in Item : i # j => EventsOf[i] \cap EventsOf[j] = {}

ASSUME SizeAssumption ==
    /\ MaxSize \in Nat \ {0}
    /\ FlushMax \in Nat \ {0}

VARIABLES
    mode,       \* "running", then "stopping" inside stop(), then "stopped"
    q,          \* the asyncio queue
    pc,         \* pc[w]: what worker w awaits (see PC below)
    buf,        \* buf[w]: items taken off the queue and not yet flushed
    left,       \* left[w]: groups the current flush has still to finish
    cur,        \* cur[w]: the group being written
    wr,         \* wr[w]: how far the thread writing that group has come
    rows,       \* rows[w]: rows that thread stored after dedup
    orphan,     \* orphan[w]: items of a write whose awaiting task was cancelled
    stored,     \* items whose events are committed in the events table
    reported,   \* items whose loss was added to events_lost
    accepted,   \* items submit() returned True for
    refused,    \* items submit() returned False for
    written,    \* QueueStats.written
    flushErrors,\* QueueStats.flush_errors
    eventsLost  \* QueueStats.events_lost

tasks == <<pc, buf, left, cur>>
threads == <<wr, rows, orphan, stored>>
stats == <<written, flushErrors, eventsLost, reported>>
offers == <<accepted, refused>>
vars == <<mode, q, tasks, threads, stats, offers>>

(* "get" awaits the queue; "flush", "timerflush" and "drain" await a group   *)
(* write started by the size limit, by the timer's except clause and by the  *)
(* CancelledError clause; "done" ended normally, "dead" ended inside the     *)
(* timer's except clause.                                                    *)
PC == {"get", "flush", "timerflush", "drain", "done", "dead"}

(* The items on a queue. *)
ItemsOf(s) == {s[k] : k \in DOMAIN s}
EventsIn(items) == UNION {EventsOf[i] : i \in items}
EventCount(items) == Cardinality(EventsIn(items))

(* group_items: the keys of a buffer, and the part of it one key selects. *)
Groups(items) == {SourceOf[i] : i \in items}
Group(w) == {i \in buf[w] : SourceOf[i] = cur[w]}

(* What worker w took off the queue and has neither written nor reported. *)
Unflushed(w) == IF pc[w] = "get" THEN buf[w]
                ELSE {i \in buf[w] : SourceOf[i] \in left[w]}

TypeOK ==
    /\ mode \in {"running", "stopping", "stopped"}
    /\ q \in Seq(Item) /\ Len(q) <= MaxSize
    /\ pc \in [Worker -> PC]
    /\ buf \in [Worker -> SUBSET Item]
    /\ left \in [Worker -> SUBSET Source]
    /\ cur \in [Worker -> Source]
    /\ wr \in [Worker -> {"idle", "begun", "committed", "returned", "raised"}]
    /\ rows \in [Worker -> Nat]
    /\ orphan \in [Worker -> SUBSET Item]
    /\ stored \subseteq Item
    /\ reported \subseteq Item
    /\ accepted \subseteq Item
    /\ refused \subseteq Item
    /\ written \in Nat
    /\ flushErrors \in Nat
    /\ eventsLost \in Nat

Init ==
    /\ mode = "running"
    /\ q = << >>
    /\ pc = [w \in Worker |-> "get"]
    /\ buf = [w \in Worker |-> {}]
    /\ left = [w \in Worker |-> {}]
    /\ cur = [w \in Worker |-> CHOOSE s \in Source : TRUE]
    /\ wr = [w \in Worker |-> "idle"]
    /\ rows = [w \in Worker |-> 0]
    /\ orphan = [w \in Worker |-> {}]
    /\ stored = {} /\ reported = {}
    /\ accepted = {} /\ refused = {}
    /\ written = 0 /\ flushErrors = 0 /\ eventsLost = 0

-----------------------------------------------------------------------------
(* submit(): put_nowait, or count a drop when the queue is full.  A receiver *)
(* connection that outlives the receiver's stop may still call it, so it is  *)
(* not confined to the running mode.                                         *)
HasRoomOffByOne == Len(q) <= MaxSize
HasRoom == Len(q) < MaxSize

Enqueue(i) ==
    /\ HasRoom
    /\ q' = Append(q, i)
    /\ accepted' = accepted \cup {i}
    /\ UNCHANGED refused

DropOldest(i) ==
    /\ ~HasRoom
    /\ q' = Append(Tail(q), i)
    /\ refused' = refused \cup {i}
    /\ UNCHANGED accepted
Drop(i) ==
    /\ ~HasRoom
    /\ refused' = refused \cup {i}
    /\ UNCHANGED <<q, accepted>>

Submit(i) ==
    /\ i \notin accepted \cup refused
    /\ Enqueue(i) \/ Drop(i)
    /\ UNCHANGED <<mode, tasks, threads, stats>>

(* Hand one of the groups in gs to a thread and await it. *)
BeginWrite(w, gs) ==
    /\ \E s \in gs : cur' = [cur EXCEPT ![w] = s]
    /\ left' = [left EXCEPT ![w] = gs]
    /\ wr' = [wr EXCEPT ![w] = "begun"]

FlushDueLate(items) == EventCount(items) > FlushMax
FlushDue(items) == EventCount(items) >= FlushMax

DequeuePeek == q' = q
Dequeue == q' = Tail(q)

(* The worker body: q.get() answers; a full buffer is flushed at once. *)
Take(w) ==
    /\ mode = "running" /\ pc[w] = "get" /\ q # << >>
    /\ Dequeue
    /\ LET full == buf[w] \cup {Head(q)} IN
         /\ buf' = [buf EXCEPT ![w] = full]
         /\ IF FlushDue(full)
              THEN /\ pc' = [pc EXCEPT ![w] = "flush"]
                   /\ BeginWrite(w, Groups(full))
              ELSE UNCHANGED <<pc, left, cur, wr>>
    /\ UNCHANGED <<mode, rows, orphan, stored, stats, offers>>

(* wait_for times out: flush what is buffered, inside the except clause. *)
TimeoutOnlyWhenFull(w) ==
    /\ mode = "running" /\ pc[w] = "get" /\ FlushDue(buf[w])
    /\ pc' = [pc EXCEPT ![w] = "timerflush"]
    /\ BeginWrite(w, Groups(buf[w]))
    /\ UNCHANGED <<mode, q, buf, rows, orphan, stored, stats, offers>>
Timeout(w) ==
    /\ mode = "running" /\ pc[w] = "get" /\ buf[w] # {}
    /\ pc' = [pc EXCEPT ![w] = "timerflush"]
    /\ BeginWrite(w, Groups(buf[w]))
    /\ UNCHANGED <<mode, q, buf, rows, orphan, stored, stats, offers>>

(* A group that will not write is discarded and its events are counted.     *)
CountNothing(w) ==
    /\ flushErrors' = flushErrors + 1
    /\ UNCHANGED <<eventsLost, reported, written>>
CountGroups(w) ==
    /\ flushErrors' = flushErrors + 1
    /\ eventsLost' = eventsLost + 1
    /\ reported' = reported \cup Group(w)
    /\ UNCHANGED written
CountLoss(w) ==
    /\ flushErrors' = flushErrors + 1
    /\ eventsLost' = eventsLost + EventCount(Group(w))
    /\ reported' = reported \cup Group(w)
    /\ UNCHANGED written

CountRows(w) ==
    /\ written' = written + rows[w]
    /\ UNCHANGED <<flushErrors, eventsLost, reported>>

(* _flush resumes after the awaited group: count it, then start the next    *)
(* group or leave the flush.  A task already marked for cancellation does   *)
(* not get here: it resumes in Cancelled instead.                           *)
Resume(w) ==
    /\ pc[w] \in (IF mode = "running" THEN {"flush", "timerflush"} ELSE {"drain"})
    /\ \/ wr[w] = "returned" /\ CountRows(w)
       \/ wr[w] = "raised" /\ CountLoss(w)
    /\ IF left[w] # {cur[w]}
         THEN BeginWrite(w, left[w] \ {cur[w]}) /\ UNCHANGED <<pc, buf>>
         ELSE /\ left' = [left EXCEPT ![w] = {}]
              /\ buf' = [buf EXCEPT ![w] = {}]
              /\ pc' = [pc EXCEPT ![w] = IF @ = "drain" THEN "done" ELSE "get"]
              /\ wr' = [wr EXCEPT ![w] = "idle"]
              /\ UNCHANGED cur
    /\ UNCHANGED <<mode, q, rows, orphan, stored, offers>>

-----------------------------------------------------------------------------
(* _write_group, as seen from the thread: the transaction commits (rows      *)
(* already present are absorbed), or fails and is rolled back; after the     *)
(* commit the dispatch, the row count and the batch update either all        *)
(* succeed or one of them raises.                                            *)
NewRowsBlind(w) == EventCount(Group(w))
NewRows(w) == EventCount(Group(w) \ stored)

Commit(w) ==
    /\ wr[w] = "begun"
    /\ stored' = stored \cup Group(w)
    /\ rows' = [rows EXCEPT ![w] = NewRows(w)]
    /\ wr' = [wr EXCEPT ![w] = "committed"]
    /\ UNCHANGED <<mode, q, tasks, orphan, stats, offers>>

Rollback(w) ==
    /\ wr[w] = "begun"
    /\ wr' = [wr EXCEPT ![w] = "raised"]
    /\ UNCHANGED <<mode, q, tasks, rows, orphan, stored, stats, offers>>

Return(w) ==
    /\ wr[w] = "committed"
    /\ wr' = [wr EXCEPT ![w] = "returned"]
    /\ UNCHANGED <<mode, q, tasks, rows, orphan, stored, stats, offers>>

FailLate(w) ==
    /\ wr[w] = "committed"
    /\ wr' = [wr EXCEPT ![w] = "raised"]
    /\ UNCHANGED <<mode, q, tasks, rows, orphan, stored, stats, offers>>

(* A write nobody awaits any more ends either way; nobody counts it. *)
OrphanEnds(w) ==
    /\ orphan[w] # {}
    /\ stored' \in {stored, stored \cup orphan[w]}
    /\ orphan' = [orphan EXCEPT ![w] = {}]
    /\ UNCHANGED <<mode, q, tasks, wr, rows, stats, offers>>

-----------------------------------------------------------------------------
(* stop() cancels every task in one go. *)
Stop ==
    /\ mode = "running"
    /\ mode' = "stopping"
    /\ UNCHANGED <<q, tasks, threads, stats, offers>>

(* CancelledError raised inside the try body is caught: the whole buffer is  *)
(* flushed again, or the task ends at once when it holds nothing.            *)
Drain(w) ==
    /\ pc[w] \in {"get", "flush"} /\ buf[w] # {}
    /\ pc' = [pc EXCEPT ![w] = "drain"]
    /\ BeginWrite(w, Groups(buf[w]))

SwallowCancel(w) ==
    /\ pc[w] = "get" /\ buf[w] = {}
    /\ UNCHANGED <<pc, left, cur, wr>>
EndIdle(w) ==
    /\ pc[w] = "get" /\ buf[w] = {}
    /\ pc' = [pc EXCEPT ![w] = "done"]
    /\ UNCHANGED <<left, cur, wr>>

(* Raised inside the timer's except clause no handler applies: the task ends *)
(* where it stands.                                                          *)
EndInTimer(w) ==
    /\ pc[w] = "timerflush"
    /\ pc' = [pc EXCEPT ![w] = "dead"]
    /\ wr' = [wr EXCEPT ![w] = "idle"]
    /\ UNCHANGED <<left, cur>>

Cancelled(w) ==
    /\ mode = "stopping"
    /\ Drain(w) \/ EndIdle(w) \/ EndInTimer(w)
    /\ orphan' = [orphan EXCEPT ![w] = IF wr[w] = "begun" THEN Group(w) ELSE {}]
    /\ UNCHANGED <<mode, q, buf, rows, stored, stats, offers>>

Stopped ==
    /\ mode = "stopping"
    /\ \A w \in Worker : pc[w] \in {"done", "dead"}
    /\ mode' = "stopped"
    /\ UNCHANGED <<q, tasks, threads, stats, offers>>

(* After the shutdown nothing is left to do. *)
Terminating == mode = "stopped" /\ UNCHANGED vars

Loop(w) == Take(w) \/ Timeout(w) \/ Resume(w) \/ Cancelled(w)
Thread(w) == Commit(w) \/ Rollback(w) \/ Return(w) \/ FailLate(w)

Next ==
    \/ \E i \in Item : Submit(i)
    \/ \E w \in Worker : Loop(w) \/ Thread(w) \/ OrphanEnds(w)
    \/ Stop \/ Stopped \/ Terminating

(* The event loop runs every ready task, the timer fires, and a database     *)
(* call ends one way or the other.  Nobody is obliged to submit or to stop.  *)
Fairness ==
    /\ \A w \in Worker : WF_vars(Loop(w)) /\ WF_vars(Thread(w))
    /\ WF_vars(Stopped)

Spec == Init /\ [][Next]_vars
FairSpec == Spec /\ Fairness

-----------------------------------------------------------------------------
(* No accepted item leaves the process's books: it is on the queue, in the   *)
(* hands of a worker, stored, or counted as lost - at every step, through    *)
(* group failures, cancellation and re-flushes.                              *)
NoSilentLoss ==
    \A i \in accepted :
        \/ i \in ItemsOf(q)
        \/ \E w \in Worker : i \in Unflushed(w)
        \/ i \in stored \/ i \in reported

(* At most one place holds an item that is still to be written: two workers  *)
(* never write the same item on account of the queue.                        *)
OneHolder ==
    /\ \A w \in Worker : ItemsOf(q) \cap buf[w] = {}
    /\ \A v, w \in Worker : v # w => buf[v] \cap buf[w] = {}
    /\ \A j, k \in DOMAIN q : j # k => q[j] # q[k]

(* A worker that waits for more input holds less than one flush of events:   *)
(* with MaxSize this bounds what a crash of the process can lose.            *)
BufferBelowFlushMax ==
    \A w \in Worker : pc[w] = "get" => EventCount(buf[w]) < FlushMax

(* events_lost on /health never understates: every item given up is counted  *)
(* with all its events, however often its group was tried.                   *)
LossCounted == EventCount(reported) <= eventsLost

(* written never claims more rows than the table holds, although a drain     *)
(* writes groups again that an earlier attempt may have committed.           *)
WrittenBacked == written <= EventCount(stored)

(* The queue's books are in order at every step: no accepted item leaves     *)
(* them, none is in two hands, what a waiting worker holds is bounded, and   *)
(* events_lost covers every item given up.                                   *)
QueueSafety == TypeOK /\ NoSilentLoss /\ OneHolder /\ BufferBelowFlushMax /\ LossCounted

Delivery == INSTANCE EventDelivery WITH closed <- mode # "running"

(* The queue with its workers and threads takes only the steps of the        *)
(* abstract delivery: whatever is interleaved or cancelled, nothing refused  *)
(* is written, and no fate once recorded is taken back.                      *)
ImplementsDelivery == Delivery!Spec

(* While the service runs, an accepted item does not wait for more traffic   *)
(* to be written: size or age flushes it, and its fate is then on record.    *)
AcceptedIsSettled == Delivery!EverySettled

(* stop() returns: every worker ends, whatever it was doing when cancelled. *)
StopReturns == mode = "stopping" ~> mode = "stopped"

(* The workers get on: what is accepted is settled while the service runs,   *)
(* and a shutdown comes to its end.                                          *)
QueueSettles == AcceptedIsSettled /\ StopReturns

(* "drain on shutdown" (the comment in the CancelledError clause): once the *)
(* workers have ended and no write is under way, what a worker had buffered  *)
(* is in the table or its loss is counted.                                   *)
BufferDrained ==
    mode = "stopped" => \A w \in Worker : orphan[w] = {} =>
        buf[w] \subseteq stored \cup reported

(* The _flush docstring calls a discarded group the one remaining            *)
(* silent-loss path, so nothing accepted may be left on the queue for good.  *)
QueueDrained == mode = "stopped" => ItemsOf(q) = {}
=============================================================================
