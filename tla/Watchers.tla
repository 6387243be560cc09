------------------------------ MODULE Watchers ------------------------------
(***************************************************************************)
(* The jobs that look at stored events on a timer: the correlation rules   *)
(* (detection/correlation.py, db.correlate) and the check for sources that *)
(* stopped sending (sourcehealth.py, db.source_activity).  Both raise at   *)
(* most one alert for a key and a period, insert what is new, commit, and  *)
(* dispatch that.                                                          *)
(*                                                                         *)
(* An event is [id, key, value, time]; key stands for the columns a rule   *)
(* groups by, and for the vendor and log type that name a source.  Its     *)
(* time is the source's, which may be behind or ahead of this clock.       *)
(***************************************************************************)
EXTENDS Integers, Sequences, FiniteSets

CONSTANTS
    CorrelationRules,   \* rule -> [window, threshold, distinct]
    RuleOrder,          \* the rules, as they were loaded
    BrokenRules,        \* rules whose query PostgreSQL refuses, or with a window of 0
    Keys, Values, NoValue,
    Skews,              \* how far an event's time is from its arrival
    Silence, LearnFor, MinEvents, RepeatAfter,   \* source_health_*
    MaxClock, MaxArrivals, WatchFaults

\* silent_alert's max(1, repeat_seconds).  A window of 0 divides by zero: such a
\* rule fails like one whose query is refused.
ASSUME WatchAssumption ==
    /\ RuleOrder \in Seq(DOMAIN CorrelationRules) /\ RepeatAfter \in Nat \ {0}
    /\ \A r \in DOMAIN CorrelationRules \ BrokenRules : CorrelationRules[r].window \in Nat \ {0}

VARIABLES
    clock, arrived,
    scheduled,      \* the jobs the settings start
    alertRows,      \* alerts: <<rule, key, bucket, when>>
    job,            \* job -> [at, turn, now, found, new]
    sent,           \* <<rule, key, bucket>> -> how often it was dispatched
    lastRun,        \* rule -> the last complete run: [bucket, found, newest]
    watchFaults

watchVars == <<clock, arrived, scheduled, alertRows, job, sent, lastRun, watchFaults>>

Jobs == {"correlation", "health"}
Silent2 == "lo-source-silent"
RulesOf2(j) == IF j = "correlation" THEN RuleOrder ELSE <<Silent2>>
Sleeping == [at |-> "sleep", turn |-> 0, now |-> 0, found |-> {}, newest |-> [k \in Keys |-> -1], new |-> {}]
NeverRan == [bucket |-> -1, found |-> {}, newest |-> [k \in Keys |-> -1]]

WatchInit ==
    /\ clock = 0 /\ arrived = {} /\ scheduled \in SUBSET {j \in Jobs : RulesOf2(j) # <<>>} /\ alertRows = {}
    /\ job = [j \in Jobs |-> Sleeping] /\ sent = <<>>
    /\ lastRun = [r \in DOMAIN CorrelationRules \cup {Silent2} |-> NeverRan] /\ watchFaults = 0

-----------------------------------------------------------------------------
(* The two queries.  Neither bounds an event's time from above.            *)
Within2(key, from) == {e \in arrived : e.key = key /\ e.time >= from}

\* db.correlate: events of the window, or the different values in them.
CountFor(rule, key, now) ==
    LET seen == Within2(key, now - CorrelationRules[rule].window)
    IN  IF CorrelationRules[rule].distinct THEN Cardinality({e.value : e \in seen} \ {NoValue}) ELSE Cardinality(seen)

NewestOf(key, from) ==
    LET times == {e.time : e \in Within2(key, from)} IN CHOOSE t \in times : \A u \in times : u <= t

\* db.source_activity and assess: established in the learning window, and quiet.
SilentAt(key, now) ==
    LET from == clock - LearnFor
    IN  Cardinality(Within2(key, from)) >= MinEvents /\ NewestOf(key, from) < now - Silence

Found2(rule, now) ==
    IF rule = Silent2 THEN {k \in Keys : SilentAt(k, now)}
    ELSE {k \in Keys : CountFor(rule, k, clock) >= CorrelationRules[rule].threshold}

Period(rule) == IF rule = Silent2 THEN RepeatAfter ELSE CorrelationRules[rule].window

\* An alert a run; an alert for ever.
BucketIsNow(rule, now) == now
BucketIsOne(rule, now) == 0

\* correlation_alert, silent_alert: the index of the period the run falls in.
Bucket2(rule, now) == now \div Period(rule)

-----------------------------------------------------------------------------
Rule2(j) == RulesOf2(j)[job[j].turn]
Set2(j, rec) == job' = [job EXCEPT ![j] = rec]

\* _run_all goes on with the next rule.
Onward(j) ==
    IF job[j].turn = Len(RulesOf2(j)) THEN Sleeping ELSE [Sleeping EXCEPT !.at = "query", !.turn = job[j].turn + 1]

\* The pass ends.
GiveUp(j) == Sleeping

\* A failing rule costs itself.
AfterFailure(j) == Onward(j)

Wake(j) ==
    /\ j \in scheduled /\ job[j].at = "sleep" /\ Set2(j, [Sleeping EXCEPT !.at = "query", !.turn = 1, !.now = clock])
    /\ UNCHANGED <<scheduled, clock, arrived, alertRows, sent, lastRun, watchFaults>>

\* The silent-source check takes its time before the query, a rule takes it after;
\* the database's own now() bounds both windows.
Query2(j) ==
    /\ job[j].at = "query" /\ Rule2(j) \notin BrokenRules
    /\ Set2(j, [job[j] EXCEPT !.at = "insert", !.found = Found2(Rule2(j), job[j].now),
                         !.newest = [k \in Keys |-> IF Within2(k, 0) = {} THEN -1 ELSE NewestOf(k, 0)]])
    /\ UNCHANGED <<scheduled, clock, arrived, alertRows, sent, lastRun, watchFaults>>

\* dedup_hash: the rule, the key and the period.
AlertIdentity(a) == <<a[1], a[2], a[3]>>

\* Every alert that was built.
AllOf(alerts) == alerts

\* insert_alerts RETURNING id: those whose identity was not there.
NewOf(alerts) == {a \in alerts : AlertIdentity(a) \notin {AlertIdentity(b) : b \in alertRows}}

InsertAlerts2(j) ==
    LET rule == Rule2(j)
        now == IF j = "health" THEN job[j].now ELSE clock
        alerts == {<<rule, k, Bucket2(rule, now), now>> : k \in job[j].found}
    IN  /\ job[j].at = "insert"
        /\ alertRows' = alertRows \cup {a \in alerts : AlertIdentity(a) \notin {AlertIdentity(b) : b \in alertRows}}
        /\ lastRun' = [lastRun EXCEPT ![rule] =
              [bucket |-> now \div Period(rule), found |-> job[j].found, newest |-> job[j].newest]]
        /\ Set2(j, [job[j] EXCEPT !.at = "dispatch", !.found = {}, !.newest = Sleeping.newest, !.new = NewOf(alerts)])
        /\ UNCHANGED <<scheduled, clock, arrived, sent, watchFaults>>

Dispatch2(j) ==
    /\ job[j].at = "dispatch"
    /\ LET gone == {AlertIdentity(a) : a \in job[j].new}
       IN  sent' = [i \in DOMAIN sent \cup gone |->
                     (IF i \in DOMAIN sent THEN sent[i] ELSE 0) + (IF i \in gone THEN 1 ELSE 0)]
    /\ Set2(j, Onward(j)) /\ UNCHANGED <<scheduled, clock, arrived, alertRows, lastRun, watchFaults>>

\* The query or the insert raises; a broken rule's always does.
RunFails(j) ==
    /\ job[j].at \in {"query", "insert"} /\ Set2(j, AfterFailure(j))
    /\ IF job[j].at = "query" /\ Rule2(j) \in BrokenRules THEN watchFaults' = watchFaults
       ELSE watchFaults < WatchFaults /\ watchFaults' = watchFaults + 1
    /\ UNCHANGED <<scheduled, clock, arrived, alertRows, sent, lastRun>>

WatchCrash ==
    /\ watchFaults < WatchFaults /\ watchFaults' = watchFaults + 1
    /\ job' = [j \in Jobs |-> Sleeping] /\ job # job'
    /\ UNCHANGED <<scheduled, clock, arrived, alertRows, sent, lastRun>>

Arrives(key, value, skew) ==
    /\ Cardinality(arrived) < MaxArrivals /\ clock + skew >= 0
    /\ arrived' = arrived \cup {[id |-> Cardinality(arrived), key |-> key, value |-> value, time |-> clock + skew]}
    /\ UNCHANGED <<scheduled, clock, alertRows, job, sent, lastRun, watchFaults>>

Tick2 == clock < MaxClock /\ clock' = clock + 1 /\ UNCHANGED <<scheduled, arrived, alertRows, job, sent, lastRun, watchFaults>>

JobStep(j) == Wake(j) \/ Query2(j) \/ InsertAlerts2(j) \/ Dispatch2(j) \/ (job[j].at = "query" /\ Rule2(j) \in BrokenRules /\ RunFails(j))

WatchNext ==
    \/ \E j \in Jobs : Wake(j) \/ Query2(j) \/ InsertAlerts2(j) \/ Dispatch2(j) \/ RunFails(j)
    \/ WatchCrash \/ Tick2
    \/ \E k \in Keys, v \in Values \cup {NoValue}, s \in Skews : Arrives(k, v, s)

WatchSpec == WatchInit /\ [][WatchNext]_watchVars /\ \A j \in Jobs : WF_watchVars(JobStep(j))

-----------------------------------------------------------------------------
\* A notification goes out at most once for an alert, however often the same
\* burst or silence is found again in its period, and across a restart between
\* the commit and the dispatch (insert_alerts RETURNING id, then dispatch).
DispatchedOnce == \A i \in DOMAIN sent : sent[i] = 1

\* A condition that lasts does not flood: any three alerts of one rule and key
\* span at least one period (correlation_alert, silent_alert: the bucket).
AlertsAreSpaced ==
    \A a, b, c \in alertRows :
        (Cardinality({a, b, c}) = 3 /\ <<a[1], a[2]>> = <<b[1], b[2]>> /\ <<a[1], a[2]>> = <<c[1], c[2]>>
            /\ a[4] <= b[4] /\ b[4] <= c[4])
        => c[4] - a[4] >= Period(a[1])

\* Nor is it forgotten: whatever a run found has an alert of the period the run
\* fell in, raised then or before (run_rule, run_check).
ReportedEachPeriod ==
    \A r \in DOMAIN lastRun : \A k \in lastRun[r].found :
        \E a \in alertRows : a[1] = r /\ a[2] = k /\ a[4] \div Period(r) = lastRun[r].bucket

\* A rule the database refuses costs itself: the rules after it go on being
\* evaluated, in every pass (CorrelationScheduler._run_all).
BadRuleCostsItself ==
    \A i \in DOMAIN RuleOrder : RuleOrder[i] \notin BrokenRules =>
        []<>("correlation" \notin scheduled \/ (job["correlation"].at = "insert" /\ job["correlation"].turn = i))

\* silent_alert says that a source that recovers and goes silent again lands in
\* a new bucket and alerts afresh: what the last check found silent would then
\* have an alert younger than its newest event.
SilentAgainAlerts ==
    \A k \in lastRun[Silent2].found :
        \E a \in alertRows : a[1] = Silent2 /\ a[2] = k /\ a[4] > lastRun[Silent2].newest[k]

(* A condition that lasts is reported in each period, once, and sent once. *)
FindingsAlertOnce == DispatchedOnce /\ AlertsAreSpaced /\ ReportedEachPeriod
=============================================================================
