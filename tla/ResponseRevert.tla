--------------------------- MODULE ResponseRevert ---------------------------
(***************************************************************************)
(* Time-boxed containment: the response engine's thread posts an action to  *)
(* the automation endpoint and records it in response_actions; the revert   *)
(* scheduler sweeps that table, posts the inverse of what is due and stamps *)
(* the row.  Posts may fail with or without having taken effect, inserts    *)
(* and updates may fail, and the process may die between any two steps and  *)
(* start again on the same table.  The audit row a revert inserts has no    *)
(* revert time and its failure is caught, so it is left out; so are the     *)
(* "log" actions and a missing endpoint, which post nothing.                *)
(***************************************************************************)
EXTENDS Naturals, FiniteSets

CONSTANTS
    Action,     \* executions: one playbook run for one alert
    Target,     \* addresses, users, hosts
    TargetOf,   \* TargetOf[e]: what execution e acts on
    After,      \* After[e]: revert_after, 0 if the playbook has none
    Limit,      \* rows one sweep takes
    None,       \* the engine's thread has no execution in hand
    MaxTime,    \* bound: the clock
    MaxFaults   \* bound: failures and crashes in a behaviour

ASSUME RevertAssumption ==
    /\ IsFiniteSet(Action) /\ None \notin Action
    /\ TargetOf \in [Action -> Target]
    /\ After \in [Action -> Nat]
    /\ Limit \in Nat \ {0}
    /\ MaxTime \in Nat /\ MaxFaults \in Nat

VARIABLES
    clock,
    phase,      \* phase[e]: how far the engine has come with e
    answer,     \* answer[e]: the status execute() put in the record
    current,    \* the execution the engine's thread has in hand
    row,        \* row[e]: response_actions.status, "none" while there is no row
    revertAt,   \* response_actions.revert_at, 0 for NULL
    reverted,   \* response_actions.reverted_at is set
    due,        \* rows the current sweep has still to handle
    undoing,    \* the row whose inverse was posted and not yet stamped
    attempts,   \* attempts[e]: inverse actions posted for e
    inForce,    \* the endpoint's state: targets under containment
    faults      \* failures and crashes so far

engine == <<phase, answer, current>>
table == <<row, revertAt, reverted>>
sweep == <<due, undoing>>
vars == <<clock, engine, table, sweep, attempts, inForce, faults>>

TypeOK ==
    /\ clock \in 0 .. MaxTime
    /\ phase \in [Action -> {"todo", "posting", "answered", "recorded", "unrecorded"}]
    /\ answer \in [Action -> {"none", "success", "failed"}]
    /\ current \in Action \cup {None}
    /\ row \in [Action -> {"none", "success", "failed"}]
    /\ revertAt \in [Action -> Nat]
    /\ reverted \in [Action -> BOOLEAN]
    /\ due \subseteq Action /\ Cardinality(due) <= Limit
    /\ undoing \in due \cup {None}
    /\ attempts \in [Action -> Nat]
    /\ inForce \subseteq Target
    /\ faults \in 0 .. MaxFaults

Init ==
    /\ clock = 0
    /\ phase = [e \in Action |-> "todo"] /\ answer = [e \in Action |-> "none"]
    /\ current = None
    /\ row = [e \in Action |-> "none"] /\ revertAt = [e \in Action |-> 0]
    /\ reverted = [e \in Action |-> FALSE]
    /\ due = {} /\ undoing = None
    /\ attempts = [e \in Action |-> 0]
    /\ inForce = {} /\ faults = 0

Tick ==
    /\ clock < MaxTime
    /\ clock' = clock + 1
    /\ UNCHANGED <<engine, table, sweep, attempts, inForce, faults>>

Fault == faults < MaxFaults /\ faults' = faults + 1

(* What a POST can come to: acknowledged; lost before it took effect; or     *)
(* effective with the answer lost.  "before" and "after" are the endpoint's  *)
(* states, "ok" what the caller learns.                                      *)
Post(ok, after) ==
    \/ ok /\ inForce' = after /\ UNCHANGED faults
    \/ ~ok /\ Fault /\ inForce' \in {inForce, after}

-----------------------------------------------------------------------------
(* ResponseEngine._run: execute() computes revert_at, posts, and the record  *)
(* is inserted.                                                              *)

Begin(e) ==
    /\ current = None /\ phase[e] = "todo"
    /\ current' = e
    /\ phase' = [phase EXCEPT ![e] = "posting"]
    /\ revertAt' = [revertAt EXCEPT ![e] = IF After[e] = 0 THEN 0 ELSE clock + After[e]]
    /\ UNCHANGED <<clock, answer, row, reverted, sweep, attempts, inForce, faults>>

Act(e) ==
    /\ current = e /\ phase[e] = "posting"
    /\ phase' = [phase EXCEPT ![e] = "answered"]
    /\ \E ok \in BOOLEAN :
         /\ Post(ok, inForce \cup {TargetOf[e]})
         /\ answer' = [answer EXCEPT ![e] = IF ok THEN "success" ELSE "failed"]
    /\ UNCHANGED <<clock, current, table, sweep, attempts>>

Record(e) ==
    /\ current = e /\ phase[e] = "answered"
    /\ current' = None
    /\ \/ /\ row' = [row EXCEPT ![e] = answer[e]]
          /\ phase' = [phase EXCEPT ![e] = "recorded"]
          /\ UNCHANGED faults
       \/ /\ Fault
          /\ phase' = [phase EXCEPT ![e] = "unrecorded"]
          /\ UNCHANGED row
    /\ UNCHANGED <<clock, answer, revertAt, reverted, sweep, attempts, inForce>>

-----------------------------------------------------------------------------
(* process_due_reverts. *)

IsDueUnlessFailed(e) ==
    row[e] # "none" /\ revertAt[e] # 0 /\ revertAt[e] <= clock /\ ~reverted[e]

(* The condition of due_reverts. *)
IsDue(e) == row[e] = "success" /\ revertAt[e] # 0 /\ revertAt[e] <= clock /\ ~reverted[e]

TakenAll(batch, all) == batch = all
TakenOnTime(batch, all) ==
    /\ batch \subseteq all /\ Cardinality(batch) = 1
    /\ \A x \in batch : revertAt[x] = clock

(* The first Limit of them in the order of revert_at. *)
Taken(batch, all) ==
    /\ batch \subseteq all
    /\ Cardinality(batch) <= Limit
    /\ batch = all \/ Cardinality(batch) = Limit
    /\ \A x \in batch, y \in all \ batch : revertAt[x] <= revertAt[y]

StartSweep ==
    /\ due = {}
    /\ LET all == {e \in Action : IsDue(e)} IN
         all # {} /\ \E batch \in SUBSET all : Taken(batch, all) /\ due' = batch
    /\ UNCHANGED <<clock, engine, table, undoing, attempts, inForce, faults>>

Undo(e) ==
    /\ undoing = None /\ e \in due
    /\ \A x \in due : revertAt[e] <= revertAt[x]
    /\ undoing' = e
    /\ attempts' = [attempts EXCEPT ![e] = @ + 1]
    /\ \E ok \in BOOLEAN : Post(ok, inForce \ {TargetOf[e]})
    /\ UNCHANGED <<clock, engine, table, due>>

StampWhenLifted(e) ==
    reverted' = [reverted EXCEPT ![e] = TargetOf[e] \notin inForce]
StampAllDue(e) == reverted' = [x \in Action |-> IsDue(x) \/ reverted[x]]

(* mark_reverted, whatever came of the inverse action. *)
Stamp(e) == reverted' = [reverted EXCEPT ![e] = TRUE]

(* The stamp succeeds and the loop goes on, or it raises out of the loop.    *)
Mark(e) ==
    /\ undoing = e /\ undoing' = None
    /\ \/ Stamp(e) /\ due' = due \ {e} /\ UNCHANGED faults
       \/ Fault /\ due' = {} /\ UNCHANGED reverted
    /\ UNCHANGED <<clock, engine, row, revertAt, attempts, inForce>>

(* The process dies and starts again: an execution in hand is forgotten.     *)
Crash ==
    /\ Fault
    /\ current' = None /\ due' = {} /\ undoing' = None
    /\ phase' = [e \in Action |-> IF e = current THEN "unrecorded" ELSE phase[e]]
    /\ UNCHANGED <<clock, answer, table, attempts, inForce>>

Engine(e) == Begin(e) \/ Act(e) \/ Record(e)
Sweeping == StartSweep \/ \E e \in Action : Undo(e) \/ Mark(e)

Idle ==
    /\ clock = MaxTime /\ current = None /\ due = {}
    /\ \A e \in Action : phase[e] # "todo" /\ ~IsDue(e)
    /\ UNCHANGED vars

Next == Tick \/ (\E e \in Action : Engine(e)) \/ Sweeping \/ Crash \/ Idle

(* Time passes, the scheduler keeps sweeping, and both threads run on. *)
Fairness ==
    /\ WF_vars(Tick) /\ WF_vars(Sweeping)
    /\ \A e \in Action : WF_vars(current = e /\ Engine(e))

Spec == Init /\ [][Next]_vars
FairSpec == Spec /\ Fairness

-----------------------------------------------------------------------------
(* Only an action that was recorded as successful and time-boxed is undone,  *)
(* and never before its time: a failed or a permanent action is not.         *)
UndoneWhenDue ==
    \A e \in Action : attempts[e] > 0 =>
        row[e] = "success" /\ After[e] > 0 /\ revertAt[e] <= clock

(* Each repetition of a revert is due to a failure or a crash of its own.    *)
RepeatsNeedFaults == \A e \in Action : attempts[e] <= 1 + faults

(* A stamped row was acted on: no revert is skipped by the sweep.            *)
StampedWasAttempted == \A e \in Action : reverted[e] => attempts[e] > 0

(* A revert undoes what is due and nothing else, is repeated only for a      *)
(* fault, and is stamped only when it was posted.                            *)
RevertSafety == TypeOK /\ UndoneWhenDue /\ RepeatsNeedFaults /\ StampedWasAttempted

(* "a bad endpoint can't wedge the loop": every due action gets its attempt, *)
(* with more rows due than one sweep takes, and failing posts.               *)
EveryDueActionIsAttempted ==
    \A e \in Action : IsDue(e) ~> attempts[e] > 0

(* Every action on t is time-boxed and recorded. *)
OnlyTemporary(t) ==
    \A e \in Action : TargetOf[e] = t => After[e] > 0 /\ revertAt[e] \in 1 .. MaxTime

(* While nothing fails, temporary containment lifts: a target on which only  *)
(* time-boxed actions have begun does not stay contained.                    *)
ContainmentLifts ==
    \A t \in Target : t \in inForce /\ OnlyTemporary(t) ~> t \notin inForce \/ faults > 0

(* Every due action gets its attempt, and temporary containment ends.        *)
RevertSettles == EveryDueActionIsAttempted /\ ContainmentLifts

(* revert.py: "stamps reverted_at so each action is undone exactly once".    *)
UndoneOnce == \A e \in Action : attempts[e] <= 1

(* revert.py: "block an IP for 10 minutes": a recorded action stays in force *)
(* until its time.                                                           *)
ContainmentLasts ==
    \A e \in Action : row[e] = "success" /\ clock < revertAt[e] => TargetOf[e] \in inForce
=============================================================================
