--------------------------- MODULE AlertDispatch ---------------------------
(***************************************************************************)
(* From a committed batch to the outside world: alert_actions.dispatch      *)
(* hands new alerts to the notification dispatcher and to the response      *)
(* engine.  Each of the two keeps a bounded queue that pool threads fill    *)
(* without blocking and one daemon thread empties, calling every handler    *)
(* (channel or matching playbook) for an alert.  Shutdown stops the two in  *)
(* turn with a sentinel while threads that outlived their tasks may still   *)
(* be dispatching.                                                          *)
(*                                                                         *)
(* A queue is kept as the log of everything ever put on it and the number   *)
(* of entries its thread has taken.                                         *)
(***************************************************************************)
EXTENDS Naturals, Sequences, FiniteSets

CONSTANTS
    Producer,     \* threads that commit a batch and dispatch its alerts
    Raised,       \* Raised[p]: how many new alerts the batch of p raised
    QueueMax,     \* QueueMax[s]: capacity of the queue of sink s
    HandlerCount, \* HandlerCount[s]: channels, or playbooks
    Wanted,       \* Wanted[s]: alerts submit() does not filter out by level
    Matching,     \* Matching[s][h]: alerts handler h of sink s acts on
    Sentinel

(* An alert is known by the batch that raised it and its place there.       *)
Alert == UNION {{[from |-> p, no |-> k] : k \in 1 .. Raised[p]} : p \in Producer}

Notifier == 1
Responder == 2
Sink == {Notifier, Responder}

ASSUME DispatchAssumption ==
    /\ IsFiniteSet(Producer)
    /\ Raised \in [Producer -> Nat]
    /\ QueueMax \in [Sink -> Nat \ {0}]
    /\ HandlerCount \in [Sink -> Nat \ {0}]
    /\ Wanted \in [Sink -> SUBSET Alert]
    /\ \A s \in Sink : Matching[s] \in [1 .. HandlerCount[s] -> SUBSET Alert]
    /\ Sentinel \notin Alert

VARIABLES
    at, turn, no, \* each producer: what it does, for which sink, which alert is next
    submitted,    \* submitted[s]: alerts submit() was called with
    log,          \* log[s]: what was put on the queue of s, in order
    taken,        \* taken[s]: how many of these the thread of s has taken
    worker,       \* the thread of s: "waiting", "handling" or "exited"
    handler,      \* handler[s]: the handler whose turn it is
    calls,        \* calls[s]: the handler calls made, in order
    dropped,      \* NotificationDispatcher.dropped, ResponseEngine.dropped
    active,       \* the module globals _dispatcher and _engine are set
    main,         \* the event loop: "serving", "putting", "joining" or "exited"
    stopping      \* the sink lifespan is stopping

producers == <<at, turn, no>>
threads == <<taken, worker, handler, calls>>
shutdown == <<active, main, stopping>>
vars == <<producers, submitted, log, threads, dropped, shutdown>>

(* The calls a thread makes. *)
Call == [alert : Alert, handler : Nat]

TypeOK ==
    /\ at \in [Producer -> {"writing", "looking", "putting", "done"}]
    /\ turn \in [Producer -> Sink \cup {3}]
    /\ no \in [Producer -> Nat]
    /\ submitted \in [Sink -> SUBSET Alert]
    /\ log \in [Sink -> Seq(Alert \cup {Sentinel})]
    /\ taken \in [Sink -> Nat]
    /\ worker \in [Sink -> {"waiting", "handling", "exited"}]
    /\ handler \in [Sink -> Nat]
    /\ calls \in [Sink -> Seq(Call)]
    /\ dropped \in [Sink -> Nat]
    /\ active \in [Sink -> BOOLEAN]
    /\ main \in {"serving", "putting", "joining", "exited"}
    /\ stopping \in Sink
    /\ \A s \in Sink : taken[s] <= Len(log[s]) /\ Len(log[s]) <= taken[s] + QueueMax[s]

Init ==
    /\ at = [p \in Producer |-> "writing"]
    /\ turn = [p \in Producer |-> Notifier]
    /\ no = [p \in Producer |-> 1]
    /\ submitted = [s \in Sink |-> {}]
    /\ log = [s \in Sink |-> <<>>]
    /\ taken = [s \in Sink |-> 0]
    /\ worker = [s \in Sink |-> "waiting"]
    /\ handler = [s \in Sink |-> 1]
    /\ calls = [s \in Sink |-> <<>>]
    /\ dropped = [s \in Sink |-> 0]
    /\ active = [s \in Sink |-> TRUE]
    /\ main = "serving"
    /\ stopping = Notifier

-----------------------------------------------------------------------------
(* Producers. *)

(* write_stream asks active() whether to collect its new alerts at all; then *)
(* the batch is written and committed.                                       *)
Begin(p) ==
    /\ at[p] = "writing"
    /\ at' = [at EXCEPT ![p] = IF \E s \in Sink : active[s] THEN "looking" ELSE "done"]
    /\ UNCHANGED <<turn, no, submitted, log, threads, dropped, shutdown>>

(* submit_alerts reads the global once and keeps what it read. *)
Look(p) ==
    /\ at[p] = "looking"
    /\ IF turn[p] \in Sink
       THEN IF active[turn[p]]
            THEN /\ at' = [at EXCEPT ![p] = "putting"]
                 /\ no' = [no EXCEPT ![p] = 1]
                 /\ UNCHANGED turn
            ELSE /\ turn' = [turn EXCEPT ![p] = @ + 1]
                 /\ UNCHANGED <<at, no>>
       ELSE at' = [at EXCEPT ![p] = "done"] /\ UNCHANGED <<turn, no>>
    /\ UNCHANGED <<submitted, log, threads, dropped, shutdown>>

HasRoomOffByOne(s) == Len(log[s]) - taken[s] <= QueueMax[s]
HasRoom(s) == Len(log[s]) - taken[s] < QueueMax[s]

OfferUncounted(s, a) ==
    IF a \in Wanted[s] /\ HasRoom(s)
    THEN log' = [log EXCEPT ![s] = Append(@, a)] /\ UNCHANGED dropped
    ELSE UNCHANGED <<log, dropped>>

(* submit(): filter by level, put without blocking, count a full queue.      *)
Offer(s, a) ==
    \/ a \notin Wanted[s] /\ UNCHANGED <<log, dropped>>
    \/ /\ a \in Wanted[s] /\ HasRoom(s)
       /\ log' = [log EXCEPT ![s] = Append(@, a)]
       /\ UNCHANGED dropped
    \/ /\ a \in Wanted[s] /\ ~HasRoom(s)
       /\ dropped' = [dropped EXCEPT ![s] = @ + 1]
       /\ UNCHANGED log

Put(p) ==
    LET s == turn[p]  a == [from |-> p, no |-> no[p]] IN
    /\ at[p] = "putting" /\ no[p] <= Raised[p]
    /\ Offer(s, a)
    /\ submitted' = [submitted EXCEPT ![s] = @ \cup {a}]
    /\ no' = [no EXCEPT ![p] = @ + 1]
    /\ UNCHANGED <<at, turn, threads, shutdown>>

(* The loop over the alerts ends: on to the next sink. *)
Advance(p) ==
    /\ at[p] = "putting" /\ no[p] > Raised[p]
    /\ at' = [at EXCEPT ![p] = "looking"]
    /\ turn' = [turn EXCEPT ![p] = @ + 1]
    /\ UNCHANGED <<no, submitted, log, threads, dropped, shutdown>>

-----------------------------------------------------------------------------
(* The daemon threads. *)

InHand(s) == log[s][taken[s]]

GetUnlessStopping(s) ==
    /\ worker[s] = "waiting" /\ taken[s] < Len(log[s])
    /\ taken' = [taken EXCEPT ![s] = @ + 1]
    /\ worker' = [worker EXCEPT ![s] =
            IF log[s][taken[s] + 1] = Sentinel \/ (main # "serving" /\ stopping = s)
            THEN "exited" ELSE "handling"]
    /\ handler' = [handler EXCEPT ![s] = 1]
    /\ UNCHANGED calls

(* _q.get(); the sentinel ends the loop. *)
Get(s) ==
    /\ worker[s] = "waiting" /\ taken[s] < Len(log[s])
    /\ taken' = [taken EXCEPT ![s] = @ + 1]
    /\ worker' = [worker EXCEPT ![s] =
            IF log[s][taken[s] + 1] = Sentinel THEN "exited" ELSE "handling"]
    /\ handler' = [handler EXCEPT ![s] = 1]
    /\ UNCHANGED calls

NextHandler(s) ==
    /\ handler' = [handler EXCEPT ![s] = @ + 1]
    /\ worker' = [worker EXCEPT ![s] = IF handler[s] = HandlerCount[s] THEN "waiting" ELSE @]

(* What a failed call would do in a thread that gave up, started over, or    *)
(* let the exception end it.                                                 *)
GiveUp(s) ==
    \/ NextHandler(s)
    \/ worker' = [worker EXCEPT ![s] = "waiting"] /\ UNCHANGED handler
StartOver(s) ==
    \/ NextHandler(s)
    \/ handler' = [handler EXCEPT ![s] = 1] /\ UNCHANGED worker
Die(s) ==
    \/ NextHandler(s)
    \/ worker' = [worker EXCEPT ![s] = "exited"] /\ UNCHANGED handler

(* After a call the loop goes on with the next handler, the call having      *)
(* succeeded or raised: the exception is caught inside the loop.             *)
AfterCall(s) == NextHandler(s)

(* One turn of the loop over channels, or over playbooks. *)
Handle(s) ==
    /\ worker[s] = "handling"
    /\ IF InHand(s) \in Matching[s][handler[s]]
       THEN /\ calls' = [calls EXCEPT ![s] =
                            Append(@, [alert |-> InHand(s), handler |-> handler[s]])]
            /\ AfterCall(s)
       ELSE NextHandler(s) /\ UNCHANGED calls
    /\ UNCHANGED taken

Thread(s) ==
    /\ Get(s) \/ Handle(s)
    /\ UNCHANGED <<producers, submitted, log, dropped, shutdown>>

-----------------------------------------------------------------------------
(* Shutdown: lifespan stops the dispatcher, then the engine. *)

BeginStop ==
    /\ main = "serving"
    /\ main' = "putting"
    /\ UNCHANGED <<producers, submitted, log, threads, dropped, active, stopping>>

(* The put of the sentinel blocks while the queue is full. *)
PutSentinel ==
    /\ main = "putting" /\ HasRoom(stopping)
    /\ log' = [log EXCEPT ![stopping] = Append(@, Sentinel)]
    /\ main' = "joining"
    /\ UNCHANGED <<producers, submitted, threads, dropped, active, stopping>>

(* join() returns because the thread ended or because its timeout passed,    *)
(* and the global is cleared.                                                *)
EndJoin ==
    /\ main = "joining"
    /\ active' = [active EXCEPT ![stopping] = FALSE]
    /\ IF stopping = Notifier THEN stopping' = Responder /\ main' = "putting"
                              ELSE main' = "exited" /\ UNCHANGED stopping
    /\ UNCHANGED <<producers, submitted, log, threads, dropped>>
Joined == worker[stopping] = "exited" /\ EndJoin
JoinTimeout == worker[stopping] # "exited" /\ EndJoin

(* The process is gone, and its daemon and pool threads with it. *)
Exited == main = "exited" /\ UNCHANGED vars

Produce(p) == Begin(p) \/ Look(p) \/ Put(p) \/ Advance(p)
Next ==
    \/ /\ main # "exited"
       /\ \/ \E p \in Producer : Produce(p)
          \/ \E s \in Sink : Thread(s)
          \/ BeginStop \/ PutSentinel \/ Joined \/ JoinTimeout
    \/ Exited

(* Threads run, handlers return (their calls have timeouts), and a shutdown  *)
(* that has begun goes on.                                                   *)
Fairness ==
    /\ \A p \in Producer : WF_vars(main # "exited" /\ Produce(p))
    /\ \A s \in Sink : WF_vars(main # "exited" /\ Thread(s))
    /\ WF_vars(PutSentinel) /\ WF_vars(Joined \/ JoinTimeout)

Spec == Init /\ [][Next]_vars
FairSpec == Spec /\ Fairness

-----------------------------------------------------------------------------
(* No channel and no playbook is called twice for one alert, whatever fails  *)
(* and however many threads dispatch.                                        *)
OncePerHandler ==
    \A s \in Sink : \A i, j \in DOMAIN calls[s] : calls[s][i] = calls[s][j] => i = j

Called(s, h, a) == \E i \in DOMAIN calls[s] : calls[s][i] = [alert |-> a, handler |-> h]

(* The thread is through with what it has taken, up to k. *)
HandledUpTo(s, k) ==
    \A i \in 1 .. k : log[s][i] # Sentinel =>
        \A h \in 1 .. HandlerCount[s] : log[s][i] \in Matching[s][h] => Called(s, h, log[s][i])

(* A failing channel or playbook costs no other one its alert: what the      *)
(* thread has put behind it was offered to every handler it concerns.        *)
NoHandlerSkipped ==
    \A s \in Sink :
        HandledUpTo(s, IF worker[s] = "handling" THEN taken[s] - 1 ELSE taken[s])

(* Every alert submitted and wanted is on the queue's log or counted.        *)
LossCounted ==
    \A s \in Sink :
        LET logged == {a \in Alert : \E i \in DOMAIN log[s] : log[s][i] = a}
        IN  /\ logged \subseteq submitted[s] \cap Wanted[s]
            /\ dropped[s] = Cardinality((submitted[s] \cap Wanted[s]) \ logged)

(* A thread ends only at the sentinel, all alerts before it handled: alerts  *)
(* submitted before stop() are never abandoned by a thread that ended.       *)
ExitDrains ==
    \A s \in Sink : worker[s] = "exited" =>
        InHand(s) = Sentinel /\ \A i \in 1 .. taken[s] - 1 : log[s][i] # Sentinel

(* Every alert is on a queue's log or counted as lost, the thread of a queue *)
(* offers each to every handler it concerns and to none twice, and leaves    *)
(* none behind when it ends.                                                 *)
DispatchSafety == TypeOK /\ OncePerHandler /\ NoHandlerSkipped /\ LossCounted /\ ExitDrains

(* lifespan's shutdown returns although stop() may block on a full queue.    *)
StopReturns == main = "putting" ~> main = "exited"

(* While the process serves, an alert on a queue reaches all its handlers.   *)
EveryAlertIsHandled ==
    \A s \in Sink, a \in Alert :
        (\E i \in DOMAIN log[s] : log[s][i] = a)
        ~> (\A h \in 1 .. HandlerCount[s] : a \in Matching[s][h] => Called(s, h, a))
           \/ main # "serving"

(* Alerts are handled while the process serves, and its shutdown ends.       *)
DispatchSettles == StopReturns /\ EveryAlertIsHandled
=============================================================================
