------------------------------ MODULE CaseDesk -------------------------------
(***************************************************************************)
(* Attack stories and the cases made of them.                              *)
(***************************************************************************)
EXTENDS Integers, Sequences, FiniteSets, SequencesExt, FiniteSetsExt, TLC

-----------------------------------------------------------------------------
(***************************************************************************)
(* app/killchain.py: related alerts stitched into attack stories.          *)
(* An alert is a record                                                    *)
(*   [id, time, created, entities, tactics, level]                         *)
(* where a tactic is a label <<spelling, rank>>: the same tactic reaches   *)
(* the database as "credential access", "attack.credential_access" or      *)
(* "credential-access", and rank is its place in the kill chain.           *)
(***************************************************************************)
NoTime == -1
UnknownRank == 17

\* Spelling is dropped; a label outside the kill chain counts for nothing.
AlertTactics(a) == {t[2] : t \in a.tactics} \ {UnknownRank}

\* event_time, else created_at; epoch zero is falsy in the code and falls through.
AlertTime(a) == IF a.time \in {NoTime, 0} THEN a.created ELSE a.time

Before(a, b) == AlertTime(a) < AlertTime(b)

\* One entity's timeline, and the neighbours on it that are close enough.
Timeline(alerts, e) == SortSeq(SelectSeq(alerts, LAMBDA a : e \in a.entities), Before)

EntityLinks(alerts, e, gap) ==
    LET line == Timeline(alerts, e)
    IN  {<<line[i - 1].id, line[i].id>> :
            i \in {j \in 2..Len(line) :
                     AlertTime(line[j]) - AlertTime(line[j - 1]) <= gap}}

Links(alerts, gap) ==
    UNION {EntityLinks(alerts, e, gap) : e \in UNION {a.entities : a \in ToSet(alerts)}}

\* The disjoint sets: union merges the two blocks a link touches.
MergeLink(link, blocks) ==
    LET touched == {b \in blocks : link[1] \in b \/ link[2] \in b}
    IN  (blocks \ touched) \cup {UNION touched}

Groups(alerts, gap) ==
    FoldSet(MergeLink, {{a.id} : a \in ToSet(alerts)}, Links(alerts, gap))

MembersOf(alerts, ids) == {a \in ToSet(alerts) : a.id \in ids}

BuildChains(alerts, gap, minTactics) ==
    {ids \in Groups(alerts, gap) :
        Cardinality(UNION {AlertTactics(a) : a \in MembersOf(alerts, ids)}) >= minTactics}

\* Entities shared by two alerts or more: what the chain pivots on.
PivotEntities(members) ==
    {e \in UNION {a.entities : a \in members} :
        Cardinality({a \in members : e \in a.entities}) >= 2}

(* The story of a chain. Its signature is a hash of the sorted alert ids,  *)
(* so two stories share it exactly when they have the same alerts.         *)
SummarizeChain(alerts, ids) ==
    LET members == MembersOf(alerts, ids)
        stages == UNION {AlertTactics(a) : a \in members}
    IN  [signature |-> ids,
         severity |-> Max({a.level : a \in members}),
         stages |-> SetToSortSeq(stages, <),
         pivots |-> PivotEntities(members),
         last |-> Max({AlertTime(a) : a \in members}),
         first |-> Min({AlertTime(a) : a \in members})]

\* Triage order: severity, then tactic span, then recency, then chain order.
MoreUrgent(s, t) ==
    \/ s.severity > t.severity
    \/ /\ s.severity = t.severity
       /\ \/ Len(s.stages) > Len(t.stages)
          \/ /\ Len(s.stages) = Len(t.stages)
             /\ \/ s.last > t.last
                \/ /\ s.last = t.last
                   /\ \/ Cardinality(s.signature) > Cardinality(t.signature)
                      \/ /\ Cardinality(s.signature) = Cardinality(t.signature)
                         /\ s.first < t.first

Reconstruct(alerts, gap, minTactics) ==
    SetToSortSeq({SummarizeChain(alerts, ids) : ids \in BuildChains(alerts, gap, minTactics)},
                 MoreUrgent)

(* Reference definitions, from the module's description and not its code:  *)
(* any two alerts that share an entity within the gap are linked, and a    *)
(* chain is a set of alerts no cut of which separates it.                  *)
Related(a, b, gap) ==
    /\ a.entities \cap b.entities # {}
    /\ AlertTime(a) - AlertTime(b) \in -gap..gap

Connected(alerts, ids, gap) ==
    \A cut \in (SUBSET ids) \ {{}, ids} :
        \E a, b \in ToSet(alerts) :
            a.id \in cut /\ b.id \in ids \ cut /\ Related(a, b, gap)

IsStory(alerts, ids, gap, minTactics) ==
    /\ Connected(alerts, ids, gap)
    /\ \A a, b \in ToSet(alerts) :
          a.id \in ids /\ Related(a, b, gap) => b.id \in ids
    /\ Cardinality(UNION {AlertTactics(a) : a \in MembersOf(alerts, ids)}) >= minTactics

-----------------------------------------------------------------------------
(***************************************************************************)
(* Alerts, cases and the two writers that group the first into the second: *)
(* the analysts' requests (main.py) and the kill-chain scheduler           *)
(* (killchain_runtime.py), over app/db.py at READ COMMITTED.               *)
(*                                                                         *)
(* A database transaction is split where another one can come between:     *)
(* add_alerts_to_case updates the alert rows (and keeps them locked),      *)
(* reads the case's severity, and writes the maximum back.                 *)
(***************************************************************************)
CONSTANTS AlertFacts,    \* every alert detection may raise, in id order
          CaseIds,       \* 1..the most cases a behaviour creates
          Analysts,      \* console requests in flight
          Gap, MinTactics, MinSeverity,
          MaxCrashes, MaxEdits

\* The ladder of severity.py, informational to critical.
Severities == 0..4

ASSUME CaseDeskAssumption ==
    /\ \A i \in DOMAIN AlertFacts : AlertFacts[i].id = i /\ AlertFacts[i].level \in Severities
    /\ MaxCrashes \in Nat /\ MaxEdits \in Nat /\ MinTactics \in Nat \ {0}

AlertIds == DOMAIN AlertFacts
NoCase == 0
NoAlerts == {}

VARIABLES
  status,    \* alert -> "absent", "open", "ack", "closed" or "suppressed"
  caseOf,    \* alert -> its case, NoCase without one
  cases,     \* the case rows, a sequence indexed by id
  request,   \* worker -> what it is in the middle of
  edits, crashes,
  raced,     \* cases whose severity was read while another attach was under way
  reclosed   \* cases that have been closed at some time

caseVars == <<status, caseOf, cases, request, edits, crashes, raced, reclosed>>

Scheduler == "scheduler"
Workers == Analysts \cup {Scheduler}
CaseStatus == {"open", "investigating", "closed"}
Idle == [at |-> "idle"]
At(w, step) == request[w].at = step
Become(w, r) == request' = [request EXCEPT ![w] = r]

CaseInit ==
    /\ status = [a \in AlertIds |-> "absent"]
    /\ caseOf = [a \in AlertIds |-> NoCase]
    /\ cases = <<>>
    /\ request = [w \in Workers |-> Idle]
    /\ edits = 0 /\ crashes = 0
    /\ raced = {} /\ reclosed = {}

\* Rows an open add_alerts_to_case transaction has updated.
Locked(a) == \E w \in Workers : request[w].at \in {"read", "write"} /\ a \in request[w].alerts

\* recent_uncased_alerts: what the reconstructor sees, in id order.
UncasedAlerts == {a \in AlertIds : caseOf[a] = NoCase /\ status[a] \in {"open", "ack"}}

StoriesAmong ==
    [ids \in SUBSET AlertIds |->
        Reconstruct(SelectSeq(AlertFacts, LAMBDA f : f.id \in ids), Gap, MinTactics)]

Stories == StoriesAmong[UncasedAlerts]

(* What grouping a set of alerts makes of it, whatever the set: a sequence *)
(* of stories, each of some of these alerts and as severe as one of them.  *)
StoriesOf(ids) ==
    [signature : (SUBSET ids) \ {{}}, severity : Severities, stages : Seq(Nat),
     pivots : SUBSET UNION {AlertFacts[a].entities : a \in ids}, last : Int, first : Int]

StoriesAreOfAlerts == \A ids \in SUBSET AlertIds : StoriesAmong[ids] \in Seq(StoriesOf(ids))

AllSignatures ==
    UNION {{s.signature : s \in ToSet(StoriesAmong[ids])} : ids \in SUBSET AlertIds}

UntouchedSignatures ==
    {cases[c].signature : c \in {d \in DOMAIN cases :
        cases[d].source = "killchain" /\ cases[d].status = "open"}}

OpenSignatures ==
    {cases[c].signature : c \in {d \in DOMAIN cases :
        cases[d].source = "killchain" /\ cases[d].status # "closed"}}

CaseRowAcked(source, severity, signature) ==
    [status |-> "ack", severity |-> severity, source |-> source, signature |-> signature,
     by |-> source]

CaseRow(source, severity, signature) ==
    [status |-> "open", severity |-> severity, source |-> source, signature |-> signature,
     by |-> source]

-----------------------------------------------------------------------------
\* Detection stores an alert; an allowlisted one is stored suppressed.
AlertRaised(a) ==
    /\ status[a] = "absent"
    /\ \E s \in {"open", "suppressed"} : status' = [status EXCEPT ![a] = s]
    /\ UNCHANGED <<caseOf, cases, request, edits, crashes, raced, reclosed>>

\* POST /alert/{id}/status
SetAlertStatus(a, s) ==
    /\ status[a] # "absent" /\ edits < MaxEdits /\ ~Locked(a)
    /\ s \in {"open", "ack", "closed"} /\ s # status[a]
    /\ status' = [status EXCEPT ![a] = s]
    /\ edits' = edits + 1
    /\ UNCHANGED <<caseOf, cases, request, crashes, raced, reclosed>>

-----------------------------------------------------------------------------
(* create_case, a transaction of its own, then add_alerts_to_case: the     *)
(* two are not atomic.                                                     *)
CreateCase(w, row, alerts, rest) ==
    /\ Len(cases) + 1 \in CaseIds
    /\ cases' = Append(cases, row)
    /\ Become(w, [at |-> "attach", case |-> Len(cases) + 1, alerts |-> alerts, then |-> rest])

\* UPDATE alerts SET case_id: waits for the rows another transaction holds.
Attach(w) ==
    /\ At(w, "attach")
    /\ \A a \in request[w].alerts : ~Locked(a)
    /\ Become(w, [request[w] EXCEPT !.at = "read"])
    /\ UNCHANGED <<status, caseOf, cases, edits, crashes, raced, reclosed>>

\* _escalate_case: SELECT severity, without FOR UPDATE.
EscalateRead(w) ==
    /\ At(w, "read")
    /\ LET r == request[w]
           others == {v \in Workers \ {w} : At(v, "write") /\ request[v].case = r.case}
       IN  /\ Become(w, [at |-> "write", case |-> r.case, alerts |-> r.alerts,
                         then |-> r.then, found |-> cases[r.case].severity])
           /\ raced' = IF others = {} THEN raced ELSE raced \cup {r.case}
    /\ UNCHANGED <<status, caseOf, cases, edits, crashes, reclosed>>

EscalateOver(w) ==
    /\ At(w, "write")
    /\ LET r == request[w]
           levels == {AlertFacts[a].level : a \in r.alerts}
       IN  /\ cases' = [cases EXCEPT ![r.case].severity = Max(levels)]
           /\ caseOf' = [a \in AlertIds |-> IF a \in r.alerts THEN r.case ELSE caseOf[a]]
           /\ Become(w, r.then)
    /\ UNCHANGED <<status, edits, crashes, raced, reclosed>>

\* UPDATE cases SET severity, and COMMIT: links and severity appear together.
EscalateWrite(w) ==
    /\ At(w, "write")
    /\ LET r == request[w]
           levels == {AlertFacts[a].level : a \in r.alerts}
       IN  /\ cases' = [cases EXCEPT ![r.case].severity = Max({r.found} \cup levels)]
           /\ caseOf' = [a \in AlertIds |-> IF a \in r.alerts THEN r.case ELSE caseOf[a]]
           /\ Become(w, r.then)
    /\ UNCHANGED <<status, edits, crashes, raced, reclosed>>

-----------------------------------------------------------------------------
\* POST /alert/{id}/case and /case/{id}/add-alerts: attach to a case, or seed one.
AttachToCase(w, c, alerts) ==
    /\ At(w, "idle") /\ edits < MaxEdits
    /\ c \in DOMAIN cases /\ alerts # {}
    /\ \A a \in alerts : status[a] # "absent"
    /\ edits' = edits + 1
    /\ Become(w, [at |-> "attach", case |-> c, alerts |-> alerts, then |-> Idle])
    /\ UNCHANGED <<status, caseOf, cases, crashes, raced, reclosed>>

SeedCase(w, a) ==
    /\ At(w, "idle") /\ edits < MaxEdits
    /\ status[a] # "absent"
    /\ edits' = edits + 1
    /\ CreateCase(w, CaseRow("manual", AlertFacts[a].level, NoAlerts), {a}, Idle)
    /\ UNCHANGED <<status, caseOf, crashes, raced, reclosed>>

\* POST /killchain/create-case rebuilds the stories and does not ask for open signatures.
CreateFromStory(w) ==
    /\ At(w, "idle") /\ edits < MaxEdits
    /\ \E i \in DOMAIN Stories :
          Become(w, [at |-> "create", story |-> Stories[i]])
    /\ edits' = edits + 1
    /\ UNCHANGED <<status, caseOf, cases, crashes, raced, reclosed>>

CreateStoryCase(w) ==
    /\ At(w, "create")
    /\ LET s == request[w].story
       IN  CreateCase(w, [CaseRow("killchain", s.severity, s.signature) EXCEPT !.by = "analyst"],
                      s.signature, Idle)
    /\ UNCHANGED <<status, caseOf, edits, crashes, raced, reclosed>>

\* POST /case/{id}/update writes what the form holds, the severity included.
UpdateCase(c, st, sev) ==
    /\ c \in DOMAIN cases /\ edits < MaxEdits
    /\ <<st, sev>> # <<cases[c].status, cases[c].severity>>
    /\ cases' = [cases EXCEPT ![c].status = st, ![c].severity = sev]
    /\ edits' = edits + 1
    /\ reclosed' = IF st = "closed" THEN reclosed \cup {c} ELSE reclosed
    /\ raced' = IF sev = cases[c].severity THEN raced ELSE raced \cup {c}
    /\ UNCHANGED <<status, caseOf, request, crashes>>

RemoveAlert(a) ==
    /\ caseOf[a] # NoCase /\ ~Locked(a) /\ edits < MaxEdits
    /\ caseOf' = [caseOf EXCEPT ![a] = NoCase]
    /\ edits' = edits + 1
    /\ UNCHANGED <<status, cases, request, crashes, raced, reclosed>>

-----------------------------------------------------------------------------
(* auto_create: the open signatures are read once, then the stories, then  *)
(* each story is turned into a case in order.                              *)
AutoCreateRead ==
    /\ At(Scheduler, "idle")
    /\ Become(Scheduler, [at |-> "scan", existing |-> OpenSignatures])
    /\ UNCHANGED <<status, caseOf, cases, edits, crashes, raced, reclosed>>

AutoCreateScan ==
    /\ At(Scheduler, "scan")
    /\ Become(Scheduler, [at |-> "loop", existing |-> request[Scheduler].existing,
                          todo |-> Stories])
    /\ UNCHANGED <<status, caseOf, cases, edits, crashes, raced, reclosed>>

SkipAtThreshold ==
    /\ At(Scheduler, "loop") /\ request[Scheduler].todo # <<>>
    /\ LET s == Head(request[Scheduler].todo)
       IN  s.severity <= MinSeverity \/ s.signature \in request[Scheduler].existing
    /\ Become(Scheduler, [request[Scheduler] EXCEPT !.todo = Tail(@)])
    /\ UNCHANGED <<status, caseOf, cases, edits, crashes, raced, reclosed>>

AutoCreateSkip ==
    /\ At(Scheduler, "loop") /\ request[Scheduler].todo # <<>>
    /\ LET s == Head(request[Scheduler].todo)
       IN  s.severity < MinSeverity \/ s.signature \in request[Scheduler].existing
    /\ Become(Scheduler, [request[Scheduler] EXCEPT !.todo = Tail(@)])
    /\ UNCHANGED <<status, caseOf, cases, edits, crashes, raced, reclosed>>

AutoCreateCase ==
    /\ At(Scheduler, "loop") /\ request[Scheduler].todo # <<>>
    /\ LET r == request[Scheduler]
           s == Head(r.todo)
       IN  /\ s.severity >= MinSeverity /\ s.signature \notin r.existing
           /\ CreateCase(Scheduler, CaseRow("killchain", s.severity, s.signature), s.signature,
                  [at |-> "loop", existing |-> r.existing \cup {s.signature},
                   todo |-> Tail(r.todo)])
    /\ UNCHANGED <<status, caseOf, edits, crashes, raced, reclosed>>

AutoCreateDone ==
    /\ At(Scheduler, "loop") /\ request[Scheduler].todo = <<>>
    /\ Become(Scheduler, Idle)
    /\ UNCHANGED <<status, caseOf, cases, edits, crashes, raced, reclosed>>

\* The process dies: open transactions roll back, committed cases stay.
CaseCrash ==
    /\ crashes < MaxCrashes
    /\ \E w \in Workers : ~At(w, "idle")
    /\ request' = [w \in Workers |-> Idle]
    /\ crashes' = crashes + 1
    /\ UNCHANGED <<status, caseOf, cases, edits, raced, reclosed>>

SchedulerStep ==
    \/ AutoCreateRead \/ AutoCreateScan \/ AutoCreateSkip \/ AutoCreateCase \/ AutoCreateDone
    \/ Attach(Scheduler) \/ EscalateRead(Scheduler) \/ EscalateWrite(Scheduler)

\* What an analyst's request still has to do once it has begun.
RequestProgress(w) == CreateStoryCase(w) \/ Attach(w) \/ EscalateRead(w) \/ EscalateWrite(w)

AnalystStep(w) ==
    \/ CreateFromStory(w)
    \/ \E a \in AlertIds : SeedCase(w, a)
    \/ \E c \in CaseIds, alerts \in SUBSET AlertIds : AttachToCase(w, c, alerts)
    \/ RequestProgress(w)

CaseNext ==
    \/ \E a \in AlertIds : AlertRaised(a) \/ RemoveAlert(a)
    \/ \E a \in AlertIds, s \in {"ack", "closed", "open"} : SetAlertStatus(a, s)
    \/ \E w \in Analysts : AnalystStep(w)
    \/ \E c \in CaseIds, st \in CaseStatus, sev \in {f.level : f \in ToSet(AlertFacts)} :
          UpdateCase(c, st, sev)
    \/ SchedulerStep
    \/ CaseCrash

(* The scheduler's loop runs for ever and a request that has begun ends;   *)
(* nobody owes the desk an alert, a request or an edit.                    *)
CaseFairness ==
    /\ WF_caseVars(SchedulerStep)
    /\ \A w \in Analysts : WF_caseVars(RequestProgress(w))

CaseSpec == CaseInit /\ [][CaseNext]_caseVars /\ CaseFairness

-----------------------------------------------------------------------------
CaseTypeOK ==
    /\ status \in [AlertIds -> {"absent", "open", "ack", "closed", "suppressed"}]
    /\ caseOf \in [AlertIds -> {NoCase} \cup DOMAIN cases]
    /\ \A c \in DOMAIN cases : cases[c].status \in CaseStatus
    /\ raced \cup reclosed \subseteq DOMAIN cases

(* add_alerts_to_case: a case is at least as severe as each alert in it,   *)
(* unless two attaches overlapped on it (the second reads the severity     *)
(* before the first writes) or somebody set the severity by hand.          *)
SeverityRollsUp ==
    \A a \in AlertIds :
        caseOf[a] # NoCase /\ caseOf[a] \notin raced
            => AlertFacts[a].level <= cases[caseOf[a]].severity

(* auto_create: the scheduler never makes a second case of one story while *)
(* its first has stayed open, across its passes, crashes between the two   *)
(* transactions, and analysts who work on the same stories.                *)
SchedulerNeverRepeats ==
    \A c, d \in DOMAIN cases :
        /\ c < d
        /\ cases[c].by = "killchain" /\ cases[d].by = "killchain"
        /\ cases[c].signature = cases[d].signature
        => c \in reclosed

\* A story the scheduler would make a case of.
IsLiveStory(ids) == \E i \in DOMAIN Stories :
    Stories[i].signature = ids /\ Stories[i].severity >= MinSeverity

(* auto_create: a story severe enough ends up in an open kill-chain case,  *)
(* or stops being a story, whatever crashes between the two transactions.  *)
StoriesAreHandled ==
    \A ids \in AllSignatures :
        IsLiveStory(ids) ~> (~IsLiveStory(ids) \/ ids \in OpenSignatures)
=============================================================================
