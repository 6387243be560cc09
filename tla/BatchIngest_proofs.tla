------------------------- MODULE BatchIngest_proofs -------------------------
(***************************************************************************)
(* Proofs about BatchIngest for every set of uploads, files and lines and   *)
(* any number of crashes.                                                   *)
(***************************************************************************)
EXTENDS BatchIngest, FiniteSetTheorems, TLAPS

LEMMA NextCases ==
    ASSUME [Next]_vars
    PROVE  \/ \E u \in Upload :
                \/ FindPrior(u) \/ CreateBatch(u) \/ Write(u) \/ Rollback(u)
                \/ MarkError(u) \/ Dispatch(u) \/ Finish(u) \/ FailLate(u)
           \/ Crash
           \/ UNCHANGED vars
BY DEF Next, Step, Finished

(* The parts of the type invariant the safety proofs need; the batch counts, *)
(* which are cardinalities, have an invariant of their own further down.     *)
Types ==
    /\ pc \in [Upload -> Phases]
    /\ prior \in [Upload -> Upload \cup {None}]
    /\ uploadedAt \in [Upload -> Nat]
    /\ fallback \in [Upload -> Nat]
    /\ status \in [Upload -> {"none", "pending", "done", "error"}]
    /\ events \subseteq Entry
    /\ alerts \subseteq Entry
    /\ notified \subseteq Entry
    /\ clock \in Nat

LEMMA KeptLines == \A u \in Upload : Kept(u) \subseteq Line
<1> TAKE u \in Upload
<1>1. LinesOf[FileOf[u]] \in Seq(Line)
  BY FileAssumption
<1>2. \A k \in DOMAIN LinesOf[FileOf[u]] : LinesOf[FileOf[u]][k] \in Line
  BY <1>1
<1> QED
  BY <1>2 DEF Kept, Positions, LineAt

(* What the insert adds: rows of this batch, with keys the table has not,    *)
(* after which every line inserted has its key in the table.                 *)
LEMMA FreshRows ==
    ASSUME NEW table, NEW u \in Upload, NEW lines
    PROVE  /\ \A r \in Fresh(table, u, lines) :
                /\ r.batch = u /\ r.key.line \in lines /\ r.key = KeyOf(u, r.key.line)
                /\ r = [batch |-> u, key |-> r.key]
                /\ \A s \in table : s.key # r.key
           /\ \A l \in lines : HasKey(table \cup Fresh(table, u, lines), KeyOf(u, l))
<1>1. \A r \in Fresh(table, u, lines) :
        /\ r.batch = u /\ r.key.line \in lines /\ r.key = KeyOf(u, r.key.line)
        /\ r = [batch |-> u, key |-> r.key]
        /\ \A s \in table : s.key # r.key
  BY DEF Fresh, HasKey, KeyOf
<1>2. ASSUME NEW l \in lines
      PROVE  HasKey(table \cup Fresh(table, u, lines), KeyOf(u, l))
  <2> DEFINE row == [batch |-> u, key |-> KeyOf(u, l)]
  <2>1. CASE HasKey(table, KeyOf(u, l))
    BY <2>1 DEF HasKey
  <2>2. CASE ~HasKey(table, KeyOf(u, l))
    <3>1. row \in Fresh(table, u, lines) /\ row.key = KeyOf(u, l)
      BY <2>2 DEF Fresh
    <3> QED
      BY <3>1 DEF HasKey
  <2> QED
    BY <2>1, <2>2
<1> QED
  BY <1>1, <1>2

LEMMA FreshTypes ==
    ASSUME NEW table, NEW u \in Upload, NEW lines \in SUBSET Line, fallback \in [Upload -> Nat]
    PROVE  Fresh(table, u, lines) \subseteq Entry
BY DEF Fresh, Entry, Key, KeyOf

LEMMA TypesNext == Types /\ [Next]_vars => Types'
<1> SUFFICES ASSUME Types, [Next]_vars PROVE Types'
  OBVIOUS
<1> USE DEF Types, Phases, GoTo, batch, tables
<1>1. ASSUME NEW u \in Upload, FindPrior(u) PROVE Types'
  BY <1>1 DEF FindPrior, DoneBatches
<1>2. ASSUME NEW u \in Upload, CreateBatch(u) PROVE Types'
  BY <1>2, ParameterAssumption DEF CreateBatch
<1>3. ASSUME NEW u \in Upload, Write(u) PROVE Types'
  <2>1. Kept(u) \in SUBSET Line /\ AlertLines(u) \in SUBSET Line
    BY KeptLines DEF AlertLines
  <2>2. /\ Fresh(events, u, Kept(u)) \subseteq Entry
        /\ Fresh(alerts, u, AlertLines(u)) \subseteq Entry
    BY <2>1, FreshTypes
  <2> QED
    BY <1>3, <2>2 DEF Write
<1>4. ASSUME NEW u \in Upload, Rollback(u) \/ MarkError(u) \/ FailLate(u) PROVE Types'
  BY <1>4 DEF Rollback, MarkError, FailLate
<1>5. ASSUME NEW u \in Upload, Dispatch(u) PROVE Types'
  BY <1>5 DEF Dispatch, ToDispatch, EntriesOf
<1>6. ASSUME NEW u \in Upload, Finish(u) PROVE Types'
  BY <1>6 DEF Finish
<1>7. CASE Crash
  BY <1>7 DEF Crash
<1>8. CASE UNCHANGED vars
  BY <1>8 DEF vars
<1> QED
  BY <1>1, <1>2, <1>3, <1>4, <1>5, <1>6, <1>7, <1>8, NextCases

-----------------------------------------------------------------------------
(* The inductive invariant.  Keys are unique in both tables; a row belongs   *)
(* to a batch that was written and carries the identity that batch gives its *)
(* line; a written batch has all its lines in the table; and a batch that    *)
(* found a prior one uses the upload time of a batch of the same file that   *)
(* is done.                                                                  *)
UniqueKeys(table) == \A r, s \in table : r.key = s.key => r = s

Written(u) == pc[u] \in {"committed", "dispatched", "done"}

RowsBelong(table) ==
    \A r \in table :
        /\ Written(r.batch) \/ pc[r.batch] = "broken"
        /\ status[r.batch] \in {"pending", "done"}
        /\ r.key = KeyOf(r.batch, r.key.line)

Present ==
    \A u \in Upload : Written(u) \/ EntriesOf(events, u) # {} =>
        \A l \in Kept(u) : HasKey(events, KeyOf(u, l))

StatusFollows ==
    \A u \in Upload :
        /\ pc[u] \in {"idle", "looked"} => status[u] = "none"
        /\ pc[u] \in {"created", "rolledback", "committed", "dispatched"}
               => status[u] = "pending"
        /\ status[u] = "done" => pc[u] = "done"
        /\ status[u] = "error" => pc[u] = "failed"
        /\ pc[u] = "done" => status[u] = "done"
        /\ pc[u] = "failed" => status[u] = "error"

PriorIsDone ==
    \A u \in Upload :
        /\ pc[u] = "idle" => prior[u] = None
        /\ prior[u] # None => status[prior[u]] = "done" /\ FileOf[prior[u]] = FileOf[u]
        /\ status[u] # "none" =>
             fallback[u] = IF prior[u] = None THEN uploadedAt[u] ELSE uploadedAt[prior[u]]

Inv ==
    /\ Types
    /\ UniqueKeys(events) /\ UniqueKeys(alerts)
    /\ RowsBelong(events) /\ RowsBelong(alerts)
    /\ Present
    /\ StatusFollows
    /\ PriorIsDone
    /\ AlertsHaveEvents
    /\ notified \subseteq alerts
    /\ SecondUploadAddsNothing

(* Keys depend on the fallback time of their batch only. *)
LEMMA SameKeys ==
    ASSUME NEW u \in Upload, fallback'[u] = fallback[u], NEW l
    PROVE  KeyOf(u, l)' = KeyOf(u, l)
BY DEF KeyOf

(* A row's batch has been created, so no row belongs to a call before that.  *)
HasRows(u) == EntriesOf(events, u) # {} \/ EntriesOf(alerts, u) # {}

LEMMA RowsHaveBatches ==
    ASSUME Inv
    PROVE  \A u \in Upload : HasRows(u) =>
              (Written(u) \/ pc[u] = "broken") /\ status[u] \in {"pending", "done"}
BY DEF Inv, RowsBelong, EntriesOf, HasRows

LEMMA NoRowsBefore ==
    ASSUME Inv, NEW u \in Upload, ~Written(u), pc[u] # "broken"
    PROVE  EntriesOf(events, u) = {} /\ EntriesOf(alerts, u) = {}
BY RowsHaveBatches DEF HasRows

(* A step that leaves the tables and the keys of written batches alone keeps *)
(* what the invariant says of the rows.                                      *)
LEMMA RowsUntouched ==
    ASSUME Inv, UNCHANGED <<events, alerts>>,
           \A u \in Upload : Written(u)' => Written(u),
           \A u \in Upload : HasRows(u) =>
               (Written(u)' \/ pc'[u] = "broken") /\ status'[u] \in {"pending", "done"},
           \A u \in Upload : HasRows(u) \/ Written(u) => fallback'[u] = fallback[u]
    PROVE  /\ UniqueKeys(events)' /\ UniqueKeys(alerts)'
           /\ RowsBelong(events)' /\ RowsBelong(alerts)'
           /\ Present' /\ AlertsHaveEvents'
<1>1. UniqueKeys(events)' /\ UniqueKeys(alerts)' /\ AlertsHaveEvents'
  BY DEF Inv, UniqueKeys, AlertsHaveEvents, HasKey
<1>2. RowsBelong(events)' /\ RowsBelong(alerts)'
  <2>1. \A r \in events \cup alerts : r.batch \in Upload /\ HasRows(r.batch)
    BY DEF Inv, Types, Entry, HasRows, EntriesOf
  <2> QED
    BY <2>1 DEF Inv, RowsBelong, KeyOf
<1>3. Present'
  <2> SUFFICES ASSUME NEW u \in Upload, Written(u)' \/ EntriesOf(events, u) # {},
                      NEW l \in Kept(u)
               PROVE  HasKey(events, KeyOf(u, l)')
    BY DEF Present, HasKey, EntriesOf, Kept, Positions, LineAt
  <2>1. fallback'[u] = fallback[u]
    BY DEF HasRows
  <2> QED
    BY <2>1, SameKeys DEF Inv, Present
<1> QED
  BY <1>1, <1>2, <1>3

LEMMA InvNext == Inv /\ [Next]_vars => Inv'
<1> SUFFICES ASSUME Inv, [Next]_vars PROVE Inv'
  OBVIOUS
<1>1. Types'
  BY TypesNext DEF Inv
<1> USE DEF GoTo, batch, tables
<1>2. ASSUME NEW u \in Upload, FindPrior(u) PROVE Inv'
  <2> USE <1>2 DEF FindPrior
  <2>0. /\ \A v \in Upload : Written(v)' => Written(v)
        /\ \A v \in Upload : HasRows(v) =>
              (Written(v)' \/ pc'[v] = "broken") /\ status'[v] \in {"pending", "done"}
        /\ \A v \in Upload : HasRows(v) \/ Written(v) => fallback'[v] = fallback[v]
    BY RowsHaveBatches DEF Inv, Types, StatusFollows, Written
  <2>1. /\ UniqueKeys(events)' /\ UniqueKeys(alerts)'
        /\ RowsBelong(events)' /\ RowsBelong(alerts)'
        /\ Present' /\ AlertsHaveEvents'
    BY <2>0, RowsUntouched
  <2>2. StatusFollows'
    BY DEF Inv, Types, StatusFollows
  <2>3. PriorIsDone'
    BY ParameterAssumption DEF Inv, Types, StatusFollows, PriorIsDone, DoneBatches
  <2>4. SecondUploadAddsNothing'
    <3>1. EntriesOf(events, u) = {}
      BY NoRowsBefore DEF Written
    <3>2. \A v \in Upload : prior[v] # u
      BY ParameterAssumption DEF Inv, StatusFollows, PriorIsDone
    <3> QED
      BY <3>1, <3>2, ParameterAssumption
      DEF Inv, Types, PriorIsDone, SecondUploadAddsNothing, EntriesOf
  <2> QED
    BY <1>1, <2>1, <2>2, <2>3, <2>4 DEF Inv
<1>3. ASSUME NEW u \in Upload, CreateBatch(u) PROVE Inv'
  <2> USE <1>3 DEF CreateBatch
  <2>0. /\ \A v \in Upload : Written(v)' => Written(v)
        /\ \A v \in Upload : HasRows(v) =>
              (Written(v)' \/ pc'[v] = "broken") /\ status'[v] \in {"pending", "done"}
        /\ \A v \in Upload : HasRows(v) \/ Written(v) => fallback'[v] = fallback[v]
    BY RowsHaveBatches DEF Inv, Types, StatusFollows, Written
  <2>1. EntriesOf(events, u) = {} /\ EntriesOf(alerts, u) = {}
    BY NoRowsBefore DEF Written
  <2>2. /\ UniqueKeys(events)' /\ UniqueKeys(alerts)'
        /\ RowsBelong(events)' /\ RowsBelong(alerts)'
        /\ Present' /\ AlertsHaveEvents'
    BY <2>0, RowsUntouched
  <2>3. StatusFollows'
    BY DEF Inv, Types, StatusFollows
  <2>4. PriorIsDone'
    <3>1. \A v \in Upload : prior[v] # None => prior[v] \in Upload /\ prior[v] # u
      BY DEF Inv, Types, StatusFollows, PriorIsDone
    <3> QED
      BY <3>1, ParameterAssumption DEF Inv, Types, StatusFollows, PriorIsDone
  <2>5. SecondUploadAddsNothing'
    BY DEF Inv, SecondUploadAddsNothing, EntriesOf
  <2> QED
    BY <1>1, <2>2, <2>3, <2>4, <2>5 DEF Inv
<1>4. ASSUME NEW u \in Upload, Write(u) PROVE Inv'
  <2> USE <1>4 DEF Write
  <2> DEFINE newEvents == Fresh(events, u, Kept(u))
             newAlerts == Fresh(alerts, u, AlertLines(u))
  <2>1. \A v \in Upload : \A l : KeyOf(v, l)' = KeyOf(v, l) /\ Kept(v)' = Kept(v)
    BY DEF KeyOf, Kept, Positions, LineAt
  <2>2. /\ \A r \in newEvents :
             /\ r.batch = u /\ r.key.line \in Kept(u) /\ r.key = KeyOf(u, r.key.line)
             /\ r = [batch |-> u, key |-> r.key]
             /\ \A s \in events : s.key # r.key
        /\ \A l \in Kept(u) : HasKey(events', KeyOf(u, l))
    BY FreshRows
  <2>3. \A r \in newAlerts :
             /\ r.batch = u /\ r.key.line \in Kept(u) /\ r.key = KeyOf(u, r.key.line)
             /\ r = [batch |-> u, key |-> r.key]
             /\ \A s \in alerts : s.key # r.key
    <3>1. \A lines : \A r \in Fresh(alerts, u, lines) :
             /\ r.batch = u /\ r.key.line \in lines /\ r.key = KeyOf(u, r.key.line)
             /\ r = [batch |-> u, key |-> r.key]
             /\ \A s \in alerts : s.key # r.key
      BY FreshRows
    <3> QED
      BY <3>1 DEF AlertLines
  <2>4. UniqueKeys(events)' /\ UniqueKeys(alerts)'
    <3> HIDE DEF newEvents, newAlerts
    <3>1. events' = events \cup newEvents /\ alerts' = alerts \cup newAlerts
      BY DEF newEvents, newAlerts
    <3> QED
      BY <2>2, <2>3, <3>1 DEF Inv, UniqueKeys
  <2>5. Written(u)' /\ status'[u] = "pending"
    BY DEF Written, Inv, Types, StatusFollows
  <2>6. \A v \in Upload : v # u => Written(v)' = Written(v) /\ pc'[v] = pc[v]
    BY DEF Written, Inv, Types
  <2>7. RowsBelong(events)' /\ RowsBelong(alerts)'
    <3> HIDE DEF newEvents, newAlerts
    <3>1. events' = events \cup newEvents /\ alerts' = alerts \cup newAlerts
      BY DEF newEvents, newAlerts
    <3>2. \A r \in events \cup alerts : r.batch \in Upload
      BY DEF Inv, Types, Entry
    <3> QED
      BY <2>1, <2>2, <2>3, <2>5, <2>6, <3>1, <3>2 DEF Inv, RowsBelong
  <2>8. Present'
    <3> SUFFICES ASSUME NEW v \in Upload, Written(v)' \/ EntriesOf(events, v)' # {},
                        NEW l \in Kept(v)
                 PROVE  HasKey(events', KeyOf(v, l))
      BY <2>1 DEF Present, HasKey
    <3>1. CASE v = u
      BY <2>2, <3>1
    <3>2. CASE v # u
      <4>1. EntriesOf(events, v)' = EntriesOf(events, v)
        BY <2>2, <3>2 DEF EntriesOf
      <4> QED
        BY <2>6, <3>2, <4>1 DEF Inv, Present, HasKey
    <3> QED
      BY <3>1, <3>2
  <2>9. StatusFollows' /\ PriorIsDone'
    BY DEF Inv, Types, StatusFollows, PriorIsDone
  <2>10. AlertsHaveEvents'
    BY <2>2, <2>3 DEF Inv, AlertsHaveEvents, HasKey
  <2>11. SecondUploadAddsNothing'
    <3> SUFFICES ASSUME NEW v \in Upload, prior[v] # None, prior[prior[v]] = None
                 PROVE  EntriesOf(events, v)' = {}
      BY DEF SecondUploadAddsNothing
    <3>1. CASE v # u
      BY <2>2, <3>1 DEF Inv, SecondUploadAddsNothing, EntriesOf
    <3>2. CASE v = u
      <4> DEFINE p == prior[u]
      <4>1. p \in Upload /\ status[p] = "done" /\ FileOf[p] = FileOf[u] /\ Written(p)
        BY <3>2 DEF Inv, Types, PriorIsDone, StatusFollows, Written
      <4>2. Kept(p) = Kept(u)
        BY <4>1 DEF Kept, Positions, LineAt
      <4>3. fallback[u] = fallback[p]
        BY <3>2, <4>1 DEF Inv, PriorIsDone, StatusFollows
      <4>4. \A l \in Kept(u) : HasKey(events, KeyOf(u, l))
        BY <4>1, <4>2, <4>3 DEF Inv, Present, KeyOf
      <4>5. newEvents = {}
        BY <4>4 DEF Fresh
      <4>6. EntriesOf(events, u) = {}
        BY <3>2 DEF Inv, SecondUploadAddsNothing
      <4> QED
        BY <3>2, <4>5, <4>6
    <3> QED
      BY <3>1, <3>2
  <2>12. notified' \subseteq alerts'
    BY DEF Inv
  <2> QED
    BY <1>1, <2>4, <2>7, <2>8, <2>9, <2>10, <2>11, <2>12 DEF Inv
<1>5. ASSUME NEW u \in Upload, Rollback(u) \/ MarkError(u) \/ FailLate(u) \/ Dispatch(u)
                               \/ Finish(u)
      PROVE  Inv'
  <2> USE <1>5 DEF Rollback, MarkError, FailLate, Dispatch, Finish
  <2>0. /\ \A v \in Upload : Written(v)' => Written(v)
        /\ \A v \in Upload : HasRows(v) =>
              (Written(v)' \/ pc'[v] = "broken") /\ status'[v] \in {"pending", "done"}
        /\ \A v \in Upload : HasRows(v) \/ Written(v) => fallback'[v] = fallback[v]
    BY RowsHaveBatches DEF Inv, Types, StatusFollows, Written
  <2>1. /\ UniqueKeys(events)' /\ UniqueKeys(alerts)'
        /\ RowsBelong(events)' /\ RowsBelong(alerts)'
        /\ Present' /\ AlertsHaveEvents'
    BY <2>0, RowsUntouched
  <2>2. StatusFollows' /\ PriorIsDone'
    BY DEF Inv, Types, StatusFollows, PriorIsDone
  <2>3. SecondUploadAddsNothing' /\ notified' \subseteq alerts'
    BY DEF Inv, SecondUploadAddsNothing, EntriesOf, ToDispatch
  <2> QED
    BY <1>1, <2>1, <2>2, <2>3 DEF Inv
<1>6. CASE Crash
  <2> USE <1>6 DEF Crash
  <2>0. /\ \A v \in Upload : Written(v)' => Written(v)
        /\ \A v \in Upload : HasRows(v) =>
              (Written(v)' \/ pc'[v] = "broken") /\ status'[v] \in {"pending", "done"}
        /\ \A v \in Upload : HasRows(v) \/ Written(v) => fallback'[v] = fallback[v]
    BY RowsHaveBatches DEF Inv, Types, StatusFollows, Written
  <2>1. /\ UniqueKeys(events)' /\ UniqueKeys(alerts)'
        /\ RowsBelong(events)' /\ RowsBelong(alerts)'
        /\ Present' /\ AlertsHaveEvents'
    BY <2>0, RowsUntouched
  <2>2. StatusFollows' /\ PriorIsDone'
    BY DEF Inv, Types, StatusFollows, PriorIsDone
  <2>3. SecondUploadAddsNothing' /\ notified' \subseteq alerts'
    BY DEF Inv, SecondUploadAddsNothing, EntriesOf
  <2> QED
    BY <1>1, <2>1, <2>2, <2>3 DEF Inv
<1>7. CASE UNCHANGED vars
  BY <1>7 DEF vars, Inv, Types, UniqueKeys, RowsBelong, Written, Present, StatusFollows,
     PriorIsDone, AlertsHaveEvents, HasKey, SecondUploadAddsNothing, EntriesOf, KeyOf,
     Kept, Positions, LineAt
<1> QED
  BY <1>2, <1>3, <1>4, <1>5, <1>6, <1>7, NextCases

LEMMA InvHolds == Spec => []Inv
<1>1. Init => Inv
  BY DEF Init, Inv, Types, Phases, UniqueKeys, RowsBelong, Written, Present, StatusFollows,
     PriorIsDone, AlertsHaveEvents, SecondUploadAddsNothing, EntriesOf
<1> QED
  BY <1>1, InvNext, PTL DEF Spec

-----------------------------------------------------------------------------
(* A line with its own timestamp is stored at most once, whatever uploads    *)
(* overlap or crash (the unique index behind insert_events).                 *)
THEOREM StampedLinesAreUnique == Spec => []StampedOnce
<1>1. Inv => StampedOnce
  <2> SUFFICES ASSUME Inv, NEW r \in events, NEW s \in events,
                      r.key.line = s.key.line, r.key.line \in Stamped
               PROVE  r = s
    BY DEF StampedOnce
  <2>1. r.key = KeyOf(r.batch, r.key.line) /\ s.key = KeyOf(s.batch, s.key.line)
    BY DEF Inv, RowsBelong
  <2>2. KeyOf(r.batch, r.key.line) = KeyOf(s.batch, s.key.line)
    BY DEF KeyOf
  <2> QED
    BY <2>1, <2>2 DEF Inv, UniqueKeys
<1> QED
  BY <1>1, InvHolds, PTL

(* A batch is in the table with all the lines it keeps or with none          *)
(* (write_stream and its commit or rollback).                                *)
THEOREM BatchesAreAtomic == Spec => []AllOrNothing
<1>1. Inv => AllOrNothing
  BY DEF Inv, RowsBelong, Present, AllOrNothing, EntriesOf, HasKey
<1> QED
  BY <1>1, InvHolds, PTL

(* The second upload of the same bytes adds no event (the fallback time that *)
(* ingest() takes from the batch find_batch_by_sha returns).                 *)
THEOREM SecondUploadIsAbsorbed == Spec => []SecondUploadAddsNothing
<1>1. Inv => SecondUploadAddsNothing
  BY DEF Inv
<1> QED
  BY <1>1, InvHolds, PTL

(* Every alert in the table stands for a stored event: detection runs on the *)
(* events that survive the ingest actions, in the same transaction.          *)
THEOREM AlertsStandForEvents == Spec => []AlertsHaveEvents
<1>1. Inv => AlertsHaveEvents
  BY DEF Inv
<1> QED
  BY <1>1, InvHolds, PTL

(* An alert reaches notification and response at most once, after its commit *)
(* (only inserted alerts are returned by insert_alerts).                     *)
THEOREM AlertsAreNotifiedOnce == Spec => []NotifiedOnce
<1>1. Inv => NotifiedOnce
  BY DEF Inv, UniqueKeys, NotifiedOnce
<1> QED
  BY <1>1, InvHolds, PTL
-----------------------------------------------------------------------------
(* The books.  A row of a batch is one of its kept lines, no two rows are    *)
(* the same line, and so no more rows than positions that were not dropped.  *)
RowsAreKept == \A r \in events : r.key.line \in Kept(r.batch)

Counts == [total : Nat, inserted : Nat, duplicates : Nat, dropped : Nat]

BooksInv ==
    /\ Inv /\ RowsAreKept
    /\ crashes \in 0 .. MaxCrashes
    /\ books \in [Upload -> Counts]
    /\ BooksBalance

LEMMA PositionsCount ==
    ASSUME NEW u \in Upload
    PROVE  /\ Total(u) \in Nat /\ Positions(u) = 1 .. Total(u)
           /\ IsFiniteSet(Positions(u)) /\ Cardinality(Positions(u)) = Total(u)
<1>1. LinesOf[FileOf[u]] \in Seq(Line)
  BY FileAssumption
<1>2. Total(u) \in Nat /\ Positions(u) = 1 .. Total(u)
  BY <1>1 DEF Total, Positions
<1> QED
  BY <1>2, FS_Interval

LEMMA RowsFit ==
    ASSUME Inv, RowsAreKept, NEW u \in Upload
    PROVE  /\ Total(u) \in Nat /\ DroppedCount(u) \in Nat
           /\ Cardinality(EntriesOf(events, u)) \in Nat
           /\ Cardinality(EntriesOf(events, u)) <= Total(u) - DroppedCount(u)
<1> DEFINE dropped == {k \in Positions(u) : LineAt(u, k) \in Discarded}
           keep == Positions(u) \ dropped
           mine == EntriesOf(events, u)
           place == [r \in mine |-> CHOOSE k \in keep : LineAt(u, k) = r.key.line]
<1>1. /\ IsFiniteSet(dropped) /\ DroppedCount(u) = Cardinality(dropped)
      /\ DroppedCount(u) \in Nat
  BY PositionsCount, FS_Subset, FS_CardinalityType DEF DroppedCount
<1>2. IsFiniteSet(keep) /\ Cardinality(keep) = Total(u) - DroppedCount(u)
  <2>1. Positions(u) \cap dropped = dropped
    OBVIOUS
  <2> HIDE DEF dropped
  <2>2. /\ IsFiniteSet(Positions(u) \ dropped)
        /\ Cardinality(Positions(u) \ dropped)
             = Cardinality(Positions(u)) - Cardinality(Positions(u) \cap dropped)
    <3>1. IsFiniteSet(Positions(u))
      BY PositionsCount
    <3> QED
      BY <3>1, FS_Difference
  <2> QED
    BY <1>1, <2>1, <2>2, PositionsCount
<1>3. \A r \in mine : \E k \in keep : LineAt(u, k) = r.key.line
  BY DEF RowsAreKept, EntriesOf, Kept
<1>4. \A r \in mine : place[r] \in keep /\ LineAt(u, place[r]) = r.key.line
  BY <1>3
<1>5. \A r, s \in mine : r.key.line = s.key.line => r = s
  <2>1. \A r \in mine : r \in events /\ r.key = KeyOf(u, r.key.line)
    BY DEF Inv, RowsBelong, EntriesOf
  <2> QED
    BY <2>1 DEF Inv, UniqueKeys
<1>6. place \in Injection(mine, keep)
  <2> HIDE DEF place
  <2>1. place \in [mine -> keep]
    <3>1. place = [r \in mine |-> CHOOSE k \in keep : LineAt(u, k) = r.key.line]
      BY DEF place
    <3> QED
      BY <1>4, <3>1
  <2>2. \A r, s \in mine : place[r] = place[s] => r = s
    BY <1>4, <1>5
  <2> QED
    BY <2>1, <2>2 DEF Injection, IsInjective
<1>7. IsFiniteSet(mine) /\ Cardinality(mine) <= Cardinality(keep)
  <2> HIDE DEF place, mine, keep
  <2> QED
    BY <1>2, <1>6, FS_Injection
<1> QED
  BY <1>1, <1>2, <1>7, PositionsCount, FS_CardinalityType

LEMMA BooksNext == BooksInv /\ [Next]_vars => BooksInv'
<1> SUFFICES ASSUME BooksInv, [Next]_vars PROVE BooksInv'
  OBVIOUS
<1>0. Inv'
  BY InvNext DEF BooksInv
<1>1. crashes' \in 0 .. MaxCrashes
  BY NextCases, ParameterAssumption
  DEF BooksInv, vars, batch, tables, Crash, FindPrior, CreateBatch, Write, Rollback, MarkError,
      Dispatch, Finish, FailLate
<1>2. RowsAreKept'
  <2>1. ASSUME NEW u \in Upload, Write(u) PROVE RowsAreKept'
    <3>1. \A r \in Fresh(events, u, Kept(u)) : r.batch = u /\ r.key.line \in Kept(u)
      BY DEF Fresh, KeyOf
    <3> QED
      BY <2>1, <3>1 DEF Write, BooksInv, RowsAreKept, Kept, Positions, LineAt
  <2>2. CASE UNCHANGED events
    BY <2>2 DEF BooksInv, RowsAreKept, Kept, Positions, LineAt
  <2> QED
    BY <2>1, <2>2, NextCases
    DEF vars, tables, Crash, FindPrior, CreateBatch, Rollback, MarkError, Dispatch, Finish, FailLate
<1>3. ASSUME NEW u \in Upload, Finish(u)
      PROVE  books' \in [Upload -> Counts] /\ BooksBalance'
  <2> DEFINE inserted == Cardinality(EntriesOf(events, u))
             entry == [total |-> Total(u), inserted |-> inserted,
                       duplicates |-> Duplicates(u, inserted), dropped |-> DroppedCount(u)]
  <2>1. /\ Total(u) \in Nat /\ DroppedCount(u) \in Nat /\ inserted \in Nat
        /\ inserted <= Total(u) - DroppedCount(u)
    BY RowsFit DEF BooksInv
  <2> HIDE DEF inserted
  <2>2. /\ Duplicates(u, inserted) \in Nat
        /\ Total(u) = inserted + Duplicates(u, inserted) + DroppedCount(u)
    BY <2>1 DEF Duplicates, ClampAtZero
  <2>3. entry \in Counts
    BY <2>1, <2>2 DEF Counts
  <2>4. books' = [books EXCEPT ![u] = entry] /\ events' = events
    BY <1>3 DEF Finish, inserted, tables
  <2>5. \A v \in Upload : v # u => status'[v] = status[v] /\ books'[v] = books[v]
    BY <1>3, <2>4 DEF Finish, BooksInv, Inv, Types
  <2>6. books'[u] = entry
    BY <2>4 DEF BooksInv
  <2>7. \A v \in Upload : EntriesOf(events, v)' = EntriesOf(events, v)
    BY <2>4 DEF EntriesOf
  <2>8. /\ entry.total = entry.inserted + entry.duplicates + entry.dropped
        /\ entry.inserted = Cardinality(EntriesOf(events, u))
    BY <2>2 DEF inserted
  <2> QED
    BY <2>3, <2>4, <2>5, <2>6, <2>7, <2>8 DEF BooksInv, BooksBalance
<1>4. ASSUME NEW u \in Upload, Write(u)
      PROVE  books' \in [Upload -> Counts] /\ BooksBalance'
  <2>1. books' = books /\ status' = status
    BY <1>4 DEF Write, batch
  <2>2. status[u] # "done"
    BY <1>4 DEF Write, GoTo, BooksInv, Inv, StatusFollows
  <2>3. \A v \in Upload : v # u => EntriesOf(events, v)' = EntriesOf(events, v)
    <3>1. \A r \in Fresh(events, u, Kept(u)) : r.batch = u
      BY DEF Fresh
    <3> QED
      BY <1>4, <3>1 DEF Write, EntriesOf
  <2> QED
    BY <2>1, <2>2, <2>3 DEF BooksInv, BooksBalance
<1>5. ASSUME UNCHANGED <<books, events>>, \A u \in Upload : status'[u] = "done" => status[u] = "done"
      PROVE  books' \in [Upload -> Counts] /\ BooksBalance'
  BY <1>5 DEF BooksInv, BooksBalance, EntriesOf
<1>6. ASSUME NEW u \in Upload,
             FindPrior(u) \/ CreateBatch(u) \/ Rollback(u) \/ MarkError(u) \/ Dispatch(u) \/ FailLate(u)
      PROVE  books' \in [Upload -> Counts] /\ BooksBalance'
  BY <1>5, <1>6
  DEF FindPrior, CreateBatch, Rollback, MarkError, Dispatch, FailLate, batch, tables, BooksInv, Inv, Types
<1>7. ASSUME Crash \/ UNCHANGED vars
      PROVE  books' \in [Upload -> Counts] /\ BooksBalance'
  BY <1>5, <1>7 DEF Crash, vars, batch, tables
<1>8. books' \in [Upload -> Counts] /\ BooksBalance'
  BY <1>3, <1>4, <1>6, <1>7, NextCases
<1> QED
  BY <1>0, <1>1, <1>2, <1>8 DEF BooksInv

LEMMA BooksHold == Spec => []BooksInv
<1>1. Init => BooksInv
  <2>1. Init => Inv
    BY DEF Init, Inv, Types, Phases, UniqueKeys, RowsBelong, Written, Present, StatusFollows,
       PriorIsDone, AlertsHaveEvents, SecondUploadAddsNothing, EntriesOf
  <2> QED
    BY <2>1, ParameterAssumption DEF Init, BooksInv, RowsAreKept, BooksBalance, Counts, NoBooks
<1> QED
  BY <1>1, BooksNext, PTL DEF Spec

(* The counts of a finished batch add up and agree with the table            *)
(* (count_batch_rows and the closing update_batch).                          *)
THEOREM BooksAreBalanced == Spec => []BooksBalance
<1>1. BooksInv => BooksBalance
  BY DEF BooksInv
<1> QED
  BY <1>1, BooksHold, PTL

(* The state ingest() keeps and the rows it writes are of their types.       *)
THEOREM TypeCorrect == Spec => []TypeOK
<1>1. BooksInv => TypeOK
  BY DEF BooksInv, Inv, Types, TypeOK, Counts
<1> QED
  BY <1>1, BooksHold, PTL

(* All that holds of uploads at every step, together (ingest.py around       *)
(* pipeline.write_stream).                                                   *)
THEOREM UploadsAreSafe == Spec => []UploadSafety
BY TypeCorrect, StampedLinesAreUnique, BatchesAreAtomic, SecondUploadIsAbsorbed, BooksAreBalanced,
   AlertsStandForEvents, AlertsAreNotifiedOnce, PTL DEF UploadSafety
=============================================================================
