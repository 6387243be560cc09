------------------------ MODULE AlertDispatch_proofs ------------------------
(***************************************************************************)
(* Proofs about AlertDispatch for any number of threads, alerts, channels   *)
(* and playbooks and queues of any capacity.                                *)
(***************************************************************************)
EXTENDS AlertDispatch, FiniteSetTheorems, TLAPS

LEMMA NextCases ==
    ASSUME [Next]_vars
    PROVE  \/ \E p \in Producer : Begin(p) \/ Look(p) \/ Put(p) \/ Advance(p)
           \/ \E s \in Sink : Thread(s)
           \/ BeginStop \/ PutSentinel \/ EndJoin
           \/ UNCHANGED vars
BY DEF Next, Produce, Exited, Joined, JoinTimeout

(* The only ways the log, what is submitted and the losses change. *)
LEMMA SinkIsNumber == Sink = {1, 2} /\ Notifier = 1 /\ Responder = 2
BY DEF Sink, Notifier, Responder

LEMMA AlertOf ==
    ASSUME NEW p \in Producer, NEW k \in Nat, 1 <= k, k <= Raised[p]
    PROVE  [from |-> p, no |-> k] \in Alert
BY DispatchAssumption DEF Alert

LEMMA AlertFields ==
    ASSUME NEW a \in Alert
    PROVE  /\ a.from \in Producer /\ a.no \in 1 .. Raised[a.from]
           /\ a = [from |-> a.from, no |-> a.no]
BY DispatchAssumption DEF Alert

-----------------------------------------------------------------------------
(* The inductive invariant.  The producers' part: what is submitted lies     *)
(* behind the producer's position, and the log holds each submitted alert,   *)
(* and each sentinel, once.                                                  *)
Numbers == \A p \in Producer : no[p] >= 1

SubmittedBehind ==
    \A s \in Sink : \A a \in submitted[s] :
        \/ s < turn[a.from]
        \/ s = turn[a.from] /\ at[a.from] = "putting" /\ a.no < no[a.from]

LoggedWasSubmitted ==
    \A s \in Sink : \A i \in DOMAIN log[s] :
        \/ log[s][i] \in submitted[s] /\ log[s][i] \in Wanted[s]
        \/ /\ log[s][i] = Sentinel
           /\ s < stopping \/ (s = stopping /\ main \in {"joining", "exited"})

LoggedOnce == \A s \in Sink : \A i, j \in DOMAIN log[s] : log[s][i] = log[s][j] => i = j

PuttingIsAtSink == \A p \in Producer : at[p] = "putting" => turn[p] \in Sink

(* The threads' part: the sentinel ends a thread, and a call was made for an *)
(* alert already taken, the one in hand included up to the current handler.  *)
SentinelEnds ==
    \A s \in Sink :
        /\ worker[s] # "waiting" => taken[s] >= 1
        /\ worker[s] = "exited" => log[s][taken[s]] = Sentinel
        /\ \A i \in 1 .. taken[s] : log[s][i] = Sentinel => worker[s] = "exited"
                                                           /\ i = taken[s]

HandlerInRange ==
    \A s \in Sink : worker[s] = "handling" => handler[s] \in 1 .. HandlerCount[s]

CallsBehind ==
    \A s \in Sink : \A c \in DOMAIN calls[s] : \E k \in 1 .. taken[s] :
        /\ log[s][k] = calls[s][c].alert
        /\ k = taken[s] /\ worker[s] = "handling" => calls[s][c].handler < handler[s]

InHandCalled ==
    \A s \in Sink : worker[s] = "handling" =>
        \A h \in 1 .. handler[s] - 1 :
            InHand(s) \in Matching[s][h] => Called(s, h, InHand(s))

Inv ==
    /\ TypeOK /\ Numbers /\ PuttingIsAtSink
    /\ SubmittedBehind /\ LoggedWasSubmitted /\ LoggedOnce
    /\ SentinelEnds /\ HandlerInRange /\ CallsBehind /\ InHandCalled
    /\ OncePerHandler /\ NoHandlerSkipped

-----------------------------------------------------------------------------
(* What Append does to a sequence. *)
LEMMA AppendFacts ==
    ASSUME NEW T, NEW sq \in Seq(T), NEW x \in T
    PROVE  /\ Append(sq, x) \in Seq(T)
           /\ Len(Append(sq, x)) = Len(sq) + 1
           /\ DOMAIN Append(sq, x) = 1 .. Len(sq) + 1
           /\ Append(sq, x)[Len(sq) + 1] = x
           /\ \A i \in 1 .. Len(sq) : Append(sq, x)[i] = sq[i]
           /\ DOMAIN sq = 1 .. Len(sq) /\ Len(sq) \in Nat
OBVIOUS

(* Putting an entry on the log of one sink. *)
LogGrows(s, x) ==
    /\ log' = [log EXCEPT ![s] = Append(@, x)]
    /\ HasRoom(s)
    /\ x \in Alert \cup {Sentinel}

LEMMA LogGrowsFacts ==
    ASSUME TypeOK, NEW s \in Sink, NEW x, LogGrows(s, x)
    PROVE  /\ log' \in [Sink -> Seq(Alert \cup {Sentinel})]
           /\ log'[s][Len(log[s]) + 1] = x
           /\ DOMAIN log'[s] = DOMAIN log[s] \cup {Len(log[s]) + 1}
           /\ Len(log'[s]) = Len(log[s]) + 1 /\ Len(log[s]) \in Nat
           /\ Len(log'[s]) <= taken[s] + QueueMax[s]
           /\ \A t \in Sink : t # s => log'[t] = log[t]
           /\ \A t \in Sink : DOMAIN log[t] = 1 .. Len(log[t])
           /\ \A t \in Sink : \A i \in DOMAIN log[t] : log'[t][i] = log[t][i]
<1> DEFINE T == Alert \cup {Sentinel}
<1>1. log \in [Sink -> Seq(T)] /\ x \in T /\ taken[s] \in Nat /\ QueueMax[s] \in Nat
  BY DispatchAssumption DEF TypeOK, LogGrows
<1>2. /\ Append(log[s], x) \in Seq(T)
      /\ Len(Append(log[s], x)) = Len(log[s]) + 1
      /\ DOMAIN Append(log[s], x) = 1 .. Len(log[s]) + 1
      /\ Append(log[s], x)[Len(log[s]) + 1] = x
      /\ \A i \in 1 .. Len(log[s]) : Append(log[s], x)[i] = log[s][i]
      /\ DOMAIN log[s] = 1 .. Len(log[s]) /\ Len(log[s]) \in Nat
  BY <1>1, AppendFacts
<1>3. log'[s] = Append(log[s], x) /\ \A t \in Sink : t # s => log'[t] = log[t]
  BY <1>1 DEF LogGrows
<1>4. \A t \in Sink : DOMAIN log[t] = 1 .. Len(log[t])
  BY <1>1
<1>5. log' \in [Sink -> Seq(T)]
  BY <1>1, <1>2 DEF LogGrows
<1>6. Len(log'[s]) <= taken[s] + QueueMax[s]
  BY <1>1, <1>2, <1>3 DEF LogGrows, HasRoom
<1>7. DOMAIN log'[s] = DOMAIN log[s] \cup {Len(log[s]) + 1}
  <2>1. 1 .. Len(log[s]) + 1 = (1 .. Len(log[s])) \cup {Len(log[s]) + 1}
    BY <1>2
  <2> QED
    BY <1>2, <1>3, <2>1
<1>8. \A t \in Sink : \A i \in DOMAIN log[t] : log'[t][i] = log[t][i]
  BY <1>2, <1>3
<1>9. /\ log'[s][Len(log[s]) + 1] = x
      /\ Len(log'[s]) = Len(log[s]) + 1 /\ Len(log[s]) \in Nat
  BY <1>2, <1>3
<1> QED
  BY <1>3, <1>4, <1>5, <1>6, <1>7, <1>8, <1>9

(* A longer log disturbs nothing the threads have done. *)
ThreadPart == /\ SentinelEnds /\ HandlerInRange /\ CallsBehind /\ InHandCalled
              /\ OncePerHandler /\ NoHandlerSkipped

LEMMA ThreadPartKept ==
    ASSUME Inv, UNCHANGED threads,
           \A t \in Sink : \A i \in DOMAIN log[t] : log'[t][i] = log[t][i]
    PROVE  ThreadPart'
<1>1. \A t \in Sink : \A i \in 1 .. taken[t] : log'[t][i] = log[t][i]
  <2>1. \A t \in Sink : log[t] \in Seq(Alert \cup {Sentinel})
                        /\ taken[t] \in Nat /\ taken[t] <= Len(log[t])
    BY DEF Inv, TypeOK
  <2>2. \A t \in Sink : DOMAIN log[t] = 1 .. Len(log[t]) /\ Len(log[t]) \in Nat
    BY <2>1
  <2> QED
    BY <2>1, <2>2
<1>2. \A t \in Sink : taken[t] \in Nat
  BY DEF Inv, TypeOK
<1> USE DEF threads
<1>3. SentinelEnds' /\ HandlerInRange' /\ OncePerHandler'
  BY <1>1, <1>2 DEF Inv, SentinelEnds, HandlerInRange, OncePerHandler
<1>4. CallsBehind'
  BY <1>1, <1>2 DEF Inv, CallsBehind
<1>5. InHandCalled'
  <2>1. \A t \in Sink : worker[t] = "handling" => log'[t][taken[t]] = log[t][taken[t]]
    BY <1>1, <1>2 DEF Inv, SentinelEnds
  <2> QED
    BY <2>1 DEF Inv, InHandCalled, InHand, Called
<1>6. NoHandlerSkipped'
  BY <1>1, <1>2 DEF Inv, NoHandlerSkipped, HandledUpTo, Called
<1> QED
  BY <1>3, <1>4, <1>5, <1>6 DEF ThreadPart

LEMMA ThreadStepKeepsProducers ==
    ASSUME Inv, NEW s \in Sink, Thread(s)
    PROVE  Numbers' /\ PuttingIsAtSink' /\ SubmittedBehind' /\ LoggedWasSubmitted' /\ LoggedOnce'
BY DEF Thread, producers, shutdown, Inv, Numbers, PuttingIsAtSink, SubmittedBehind,
   LoggedWasSubmitted, LoggedOnce

LEMMA GetKeepsInv ==
    ASSUME Inv, NEW s \in Sink, Get(s), Thread(s)
    PROVE  Inv'
<1> USE DEF Get
<1>1. /\ log \in [Sink -> Seq(Alert \cup {Sentinel})] /\ taken \in [Sink -> Nat]
      /\ worker \in [Sink -> {"waiting", "handling", "exited"}]
      /\ handler \in [Sink -> Nat] /\ QueueMax \in [Sink -> Nat \ {0}]
      /\ HandlerCount \in [Sink -> Nat \ {0}]
  BY DispatchAssumption DEF Inv, TypeOK
<1>2. UNCHANGED <<producers, submitted, log, dropped, shutdown>> /\ calls' = calls
  BY DEF Thread
<1>3. /\ taken'[s] = taken[s] + 1 /\ taken[s] < Len(log[s]) /\ handler'[s] = 1
      /\ \A t \in Sink : t # s => /\ taken'[t] = taken[t] /\ worker'[t] = worker[t]
                                  /\ handler'[t] = handler[t]
  BY <1>1
<1>4. \A t \in Sink : DOMAIN log[t] = 1 .. Len(log[t]) /\ Len(log[t]) \in Nat
  BY <1>1
<1>5. TypeOK'
  <2>1. /\ taken' \in [Sink -> Nat] /\ handler' \in [Sink -> Nat]
        /\ worker' \in [Sink -> {"waiting", "handling", "exited"}]
    BY <1>1
  <2>2. \A t \in Sink : taken'[t] <= Len(log[t]) /\ Len(log[t]) <= taken'[t] + QueueMax[t]
    <3> SUFFICES ASSUME NEW t \in Sink
                 PROVE  taken'[t] <= Len(log[t]) /\ Len(log[t]) <= taken'[t] + QueueMax[t]
      OBVIOUS
    <3>1. taken[t] <= Len(log[t]) /\ Len(log[t]) <= taken[t] + QueueMax[t]
      BY DEF Inv, TypeOK
    <3> QED
      BY <1>1, <1>3, <1>4, <3>1
  <2> QED
    BY <1>2, <2>1, <2>2 DEF Inv, TypeOK, producers, shutdown
<1>6. \/ worker'[s] = "exited" /\ log[s][taken[s] + 1] = Sentinel
      \/ worker'[s] = "handling" /\ log[s][taken[s] + 1] # Sentinel
  BY <1>1
<1>7. \A i \in 1 .. taken[s] : log[s][i] # Sentinel
  BY <1>1, <1>4 DEF Inv, SentinelEnds
<1>8. SentinelEnds'
  <2> SUFFICES ASSUME NEW t \in Sink
               PROVE  /\ worker'[t] # "waiting" => taken'[t] >= 1
                      /\ worker'[t] = "exited" => log[t][taken'[t]] = Sentinel
                      /\ \A i \in 1 .. taken'[t] : log[t][i] = Sentinel =>
                            worker'[t] = "exited" /\ i = taken'[t]
    BY <1>2 DEF SentinelEnds
  <2>1. CASE t = s
    BY <1>1, <1>3, <1>4, <1>6, <1>7, <2>1
  <2>2. CASE t # s
    BY <1>3, <2>2 DEF Inv, SentinelEnds
  <2> QED
    BY <2>1, <2>2
<1>9. HandlerInRange'
  BY <1>1, <1>3 DEF Inv, HandlerInRange
<1>10. CallsBehind'
  <2> SUFFICES ASSUME NEW t \in Sink, NEW c \in DOMAIN calls[t]
               PROVE  \E k \in 1 .. taken'[t] :
                        /\ log[t][k] = calls[t][c].alert
                        /\ k = taken'[t] /\ worker'[t] = "handling" =>
                             calls[t][c].handler < handler'[t]
    BY <1>2 DEF CallsBehind
  <2>1. PICK k \in 1 .. taken[t] :
          /\ log[t][k] = calls[t][c].alert
          /\ k = taken[t] /\ worker[t] = "handling" => calls[t][c].handler < handler[t]
    BY DEF Inv, CallsBehind
  <2>2. k \in 1 .. taken'[t] /\ (t = s => k # taken'[t])
    BY <1>1, <1>3, <2>1
  <2> QED
    BY <1>3, <2>1, <2>2
<1>11. InHandCalled'
  <2> SUFFICES ASSUME NEW t \in Sink, worker'[t] = "handling",
                      NEW h \in 1 .. handler'[t] - 1, InHand(t)' \in Matching[t][h]
               PROVE  Called(t, h, InHand(t))'
    BY DEF InHandCalled
  <2>1. t # s
    BY <1>3
  <2> QED
    BY <1>2, <1>3, <2>1 DEF Inv, InHandCalled, InHand, Called
<1>12. NoHandlerSkipped'
  <2> DEFINE upTo(t) == IF worker[t] = "handling" THEN taken[t] - 1 ELSE taken[t]
             upTo1(t) == IF worker'[t] = "handling" THEN taken'[t] - 1 ELSE taken'[t]
  <2>1. ASSUME NEW t \in Sink, NEW i \in 1 .. upTo1(t), log[t][i] # Sentinel
        PROVE  i \in 1 .. upTo(t)
    <3>1. CASE t = s
      <4>1. upTo(s) = taken[s] /\ upTo1(s) <= taken[s] + 1
            /\ (upTo1(s) = taken[s] + 1 => log[s][taken[s] + 1] = Sentinel)
        BY <1>1, <1>3, <1>6
      <4> QED
        BY <1>1, <2>1, <3>1, <4>1
    <3>2. CASE t # s
      BY <1>3, <2>1, <3>2
    <3> QED
      BY <3>1, <3>2
  <2>2. \A t \in Sink : HandledUpTo(t, upTo(t))
    BY DEF Inv, NoHandlerSkipped
  <2>3. \A t \in Sink : \A i \in 1 .. upTo1(t) : log[t][i] # Sentinel =>
            \A h \in 1 .. HandlerCount[t] :
                log[t][i] \in Matching[t][h] => Called(t, h, log[t][i])
    BY <2>1, <2>2 DEF HandledUpTo
  <2> QED
    BY <1>2, <2>3 DEF NoHandlerSkipped, HandledUpTo, Called
<1>13. OncePerHandler'
  BY <1>2 DEF Inv, OncePerHandler
<1> QED
  BY <1>5, <1>8, <1>9, <1>10, <1>11, <1>12, <1>13, ThreadStepKeepsProducers DEF Inv

(* One turn of the handler loop.  The call made, if any, is new: the calls   *)
(* made so far concern earlier entries, or earlier handlers.                 *)
LEMMA HandleKeepsInv ==
    ASSUME Inv, NEW s \in Sink, Handle(s), Thread(s)
    PROVE  Inv'
<1> DEFINE call == [alert |-> InHand(s), handler |-> handler[s]]
           acts == InHand(s) \in Matching[s][handler[s]]
           calledNow(t, h, a) ==
               \E i \in DOMAIN calls'[t] : calls'[t][i] = [alert |-> a, handler |-> h]
<1>0. /\ worker[s] = "handling" /\ taken' = taken
      /\ handler' = [handler EXCEPT ![s] = @ + 1]
      /\ worker' = [worker EXCEPT ![s] = IF handler[s] = HandlerCount[s] THEN "waiting" ELSE @]
      /\ calls' = IF acts THEN [calls EXCEPT ![s] = Append(@, call)] ELSE calls
  BY DEF Handle, AfterCall, NextHandler
<1>1. /\ log \in [Sink -> Seq(Alert \cup {Sentinel})] /\ taken \in [Sink -> Nat]
      /\ worker \in [Sink -> {"waiting", "handling", "exited"}]
      /\ handler \in [Sink -> Nat] /\ HandlerCount \in [Sink -> Nat \ {0}]
      /\ taken[s] \in 1 .. Len(log[s]) /\ handler[s] \in 1 .. HandlerCount[s]
      /\ worker[s] = "handling"
  <2>1. taken[s] >= 1 /\ handler[s] \in 1 .. HandlerCount[s]
    BY <1>0 DEF Inv, SentinelEnds, HandlerInRange
  <2>2. taken[s] <= Len(log[s])
    BY DEF Inv, TypeOK
  <2>3. /\ log \in [Sink -> Seq(Alert \cup {Sentinel})] /\ taken \in [Sink -> Nat]
        /\ worker \in [Sink -> {"waiting", "handling", "exited"}]
        /\ handler \in [Sink -> Nat] /\ HandlerCount \in [Sink -> Nat \ {0}]
    BY DispatchAssumption DEF Inv, TypeOK
  <2> QED
    BY <1>0, <2>1, <2>2, <2>3
<1>2. UNCHANGED <<producers, submitted, log, dropped, shutdown>> /\ taken' = taken
  BY <1>0 DEF Thread
<1>3. /\ handler'[s] = handler[s] + 1
      /\ worker'[s] = IF handler[s] = HandlerCount[s] THEN "waiting" ELSE "handling"
      /\ \A t \in Sink : t # s => worker'[t] = worker[t] /\ handler'[t] = handler[t]
      /\ handler' \in [Sink -> Nat]
      /\ worker' \in [Sink -> {"waiting", "handling", "exited"}]
  BY <1>0, <1>1
<1>4. \A t \in Sink : DOMAIN log[t] = 1 .. Len(log[t]) /\ Len(log[t]) \in Nat
  BY <1>1
<1>5. InHand(s) \in Alert /\ InHand(s) # Sentinel
  <2>1. log[s][taken[s]] # Sentinel
    <3>1. taken[s] \in 1 .. taken[s]
      BY <1>1, <1>4
    <3> QED
      BY <1>0, <3>1 DEF Inv, SentinelEnds
  <2>2. log[s][taken[s]] \in Alert \cup {Sentinel}
    BY <1>1, <1>4
  <2> QED
    BY <2>1, <2>2 DEF InHand
<1>6. \A t \in Sink :
        /\ calls[t] \in Seq(Call)
        /\ DOMAIN calls[t] = 1 .. Len(calls[t]) /\ Len(calls[t]) \in Nat
  <2>1. calls \in [Sink -> Seq(Call)]
    BY DEF Inv, TypeOK
  <2> QED
    BY <2>1
<1>7. /\ calls'[s] = IF acts THEN Append(calls[s], call) ELSE calls[s]
      /\ \A t \in Sink : t # s => calls'[t] = calls[t]
      /\ DOMAIN calls' = Sink
  BY <1>0 DEF Inv, TypeOK
<1> HIDE DEF acts
<1>8. call \in Call
  BY <1>1, <1>5 DEF Call
<1>9. /\ Append(calls[s], call) \in Seq(Call)
      /\ DOMAIN Append(calls[s], call) = 1 .. Len(calls[s]) + 1
      /\ Append(calls[s], call)[Len(calls[s]) + 1] = call
      /\ \A i \in 1 .. Len(calls[s]) : Append(calls[s], call)[i] = calls[s][i]
  BY <1>6, <1>8, AppendFacts
<1> HIDE DEF call
<1>10. ASSUME NEW t \in Sink, NEW h, NEW a, Called(t, h, a)
       PROVE  calledNow(t, h, a)
  <2>1. PICK i \in DOMAIN calls[t] : calls[t][i] = [alert |-> a, handler |-> h]
    BY <1>10 DEF Called
  <2>2. i \in DOMAIN calls'[t] /\ calls'[t][i] = calls[t][i]
    BY <1>6, <1>7, <1>9, <2>1
  <2> QED
    BY <2>1, <2>2
<1>11. acts => calledNow(s, handler[s], InHand(s))
  BY <1>6, <1>7, <1>9 DEF Called, call
<1>12. \A c \in DOMAIN calls[s] : calls[s][c] # call
  <2> SUFFICES ASSUME NEW c \in DOMAIN calls[s], calls[s][c] = call PROVE FALSE
    OBVIOUS
  <2>1. PICK k \in 1 .. taken[s] :
          /\ log[s][k] = calls[s][c].alert
          /\ k = taken[s] => calls[s][c].handler < handler[s]
    BY <1>1 DEF Inv, CallsBehind
  <2>2. log[s][k] = log[s][taken[s]] /\ calls[s][c].handler = handler[s]
    BY <2>1 DEF call, InHand
  <2>3. k = taken[s]
    BY <1>1, <1>4, <2>1, <2>2 DEF Inv, LoggedOnce
  <2> QED
    BY <1>1, <2>1, <2>2, <2>3
<1>13. TypeOK'
  <2>1. calls' \in [Sink -> Seq(Call)]
    <3>1. calls \in [Sink -> Seq(Call)]
      BY DEF Inv, TypeOK
    <3> QED
      BY <1>0, <1>9, <3>1
  <2> QED
    BY <1>2, <1>3, <2>1 DEF Inv, TypeOK, producers, shutdown
<1>14. OncePerHandler'
  <2> SUFFICES ASSUME NEW t \in Sink, NEW i \in DOMAIN calls'[t], NEW j \in DOMAIN calls'[t],
                      calls'[t][i] = calls'[t][j]
               PROVE  i = j
    BY DEF OncePerHandler
  <2>1. CASE t # s \/ ~acts
    BY <1>7, <2>1 DEF Inv, OncePerHandler
  <2>2. CASE t = s /\ acts
    BY <1>6, <1>7, <1>9, <1>12, <2>2 DEF Inv, OncePerHandler
  <2> QED
    BY <2>1, <2>2
<1>15. SentinelEnds' /\ HandlerInRange'
  <2>1. \A i \in 1 .. taken[s] : log[s][i] # Sentinel
    BY <1>0 DEF Inv, SentinelEnds
  <2>2. SentinelEnds'
    <3> SUFFICES ASSUME NEW t \in Sink
                 PROVE  /\ worker'[t] # "waiting" => taken[t] >= 1
                        /\ worker'[t] = "exited" => log[t][taken[t]] = Sentinel
                        /\ \A i \in 1 .. taken[t] : log[t][i] = Sentinel =>
                              worker'[t] = "exited" /\ i = taken[t]
      BY <1>2 DEF SentinelEnds
    <3>1. CASE t = s
      BY <1>1, <1>3, <2>1, <3>1
    <3>2. CASE t # s
      BY <1>3, <3>2 DEF Inv, SentinelEnds
    <3> QED
      BY <3>1, <3>2
  <2>3. HandlerInRange'
    <3>1. HandlerCount[s] \in Nat /\ handler[s] \in Nat
      BY <1>1
    <3>2. worker'[s] = "handling" => handler'[s] \in 1 .. HandlerCount[s]
      BY <1>1, <1>3, <3>1
    <3>3. \A t \in Sink : t # s /\ worker'[t] = "handling" =>
              handler'[t] \in 1 .. HandlerCount[t]
      BY <1>3 DEF Inv, HandlerInRange
    <3> QED
      BY <3>2, <3>3 DEF HandlerInRange
  <2> QED
    BY <2>2, <2>3
<1>16. CallsBehind'
  <2> SUFFICES ASSUME NEW t \in Sink, NEW c \in DOMAIN calls'[t]
               PROVE  \E k \in 1 .. taken[t] :
                        /\ log[t][k] = calls'[t][c].alert
                        /\ k = taken[t] /\ worker'[t] = "handling" =>
                             calls'[t][c].handler < handler'[t]
    BY <1>2 DEF CallsBehind
  <2>1. CASE c \in DOMAIN calls[t] /\ calls'[t][c] = calls[t][c]
    <3>1. PICK k \in 1 .. taken[t] :
            /\ log[t][k] = calls[t][c].alert
            /\ k = taken[t] /\ worker[t] = "handling" => calls[t][c].handler < handler[t]
      BY <2>1 DEF Inv, CallsBehind
    <3>2. calls[t][c].handler \in Nat
      <4>1. calls[t][c] \in Call
        BY <1>6, <2>1
      <4> QED
        BY <4>1 DEF Call
    <3> QED
      BY <1>1, <1>3, <2>1, <3>1, <3>2
  <2>2. CASE t = s /\ calls'[t][c] = call
    BY <1>1, <1>3, <2>2 DEF call, InHand
  <2> QED
    BY <1>6, <1>7, <1>9, <2>1, <2>2
<1>17. ASSUME NEW h \in 1 .. handler[s], InHand(s) \in Matching[s][h]
       PROVE  calledNow(s, h, InHand(s))
  <2>1. CASE h = handler[s]
    BY <1>11, <1>17, <2>1 DEF acts
  <2>2. CASE h # handler[s]
    <3>1. h \in 1 .. handler[s] - 1
      BY <1>1, <2>2
    <3>2. Called(s, h, InHand(s))
      BY <1>1, <1>17, <3>1 DEF Inv, InHandCalled
    <3> QED
      BY <1>10, <3>2
  <2> QED
    BY <2>1, <2>2
<1>18. InHandCalled'
  <2> SUFFICES ASSUME NEW t \in Sink, worker'[t] = "handling",
                      NEW h \in 1 .. handler'[t] - 1, InHand(t) \in Matching[t][h]
               PROVE  calledNow(t, h, InHand(t))
    <3>1. \A t \in Sink : InHand(t)' = InHand(t)
      BY <1>2 DEF InHand
    <3> QED
      BY <3>1 DEF InHandCalled, Called
  <2>1. CASE t = s
    <3>1. h \in 1 .. handler[s]
      BY <1>1, <1>3, <2>1
    <3> QED
      BY <1>17, <2>1, <3>1
  <2>2. CASE t # s
    <3>1. Called(t, h, InHand(t))
      BY <1>3, <2>2 DEF Inv, InHandCalled
    <3> QED
      BY <1>2, <1>10, <3>1 DEF InHand, Called
  <2> QED
    BY <2>1, <2>2
<1>19. NoHandlerSkipped'
  <2> SUFFICES ASSUME NEW t \in Sink,
                      NEW i \in 1 .. (IF worker'[t] = "handling" THEN taken[t] - 1 ELSE taken[t]),
                      log[t][i] # Sentinel,
                      NEW h \in 1 .. HandlerCount[t], log[t][i] \in Matching[t][h]
               PROVE  calledNow(t, h, log[t][i])
    BY <1>2 DEF NoHandlerSkipped, HandledUpTo, Called
  <2>1. CASE i \in 1 .. (IF worker[t] = "handling" THEN taken[t] - 1 ELSE taken[t])
    <3>1. Called(t, h, log[t][i])
      BY <2>1 DEF Inv, NoHandlerSkipped, HandledUpTo
    <3> QED
      BY <1>2, <1>10, <3>1 DEF Called
  <2>2. CASE t = s /\ i = taken[s] /\ handler[s] = HandlerCount[s]
    <3>1. calledNow(s, h, InHand(s))
      BY <1>17, <2>2 DEF InHand
    <3> QED
      BY <1>2, <2>2, <3>1 DEF InHand, Called
  <2> QED
    BY <1>1, <1>3, <2>1, <2>2
<1> QED
  BY <1>13, <1>14, <1>15, <1>16, <1>18, <1>19, ThreadStepKeepsProducers DEF Inv

(* Steps that neither put on a log nor concern a thread. *)
LEMMA QuietStep ==
    ASSUME Inv, UNCHANGED <<log, threads, dropped>>
    PROVE  ThreadPart' /\ LoggedOnce'
<1>1. ThreadPart'
  BY ThreadPartKept
<1>2. LoggedOnce'
  BY DEF Inv, LoggedOnce
<1> QED
  BY <1>1, <1>2

LEMMA ProducerStepsKeepInv ==
    ASSUME Inv, NEW p \in Producer, Begin(p) \/ Look(p) \/ Advance(p)
    PROVE  Inv'
<1> USE DEF producers, shutdown, threads
<1>1. UNCHANGED <<submitted, log, threads, dropped, shutdown>>
  BY DEF Begin, Look, Advance
<1>2. /\ at \in [Producer -> {"writing", "looking", "putting", "done"}]
      /\ turn \in [Producer -> {1, 2, 3}] /\ no \in [Producer -> Nat]
  BY SinkIsNumber DEF Inv, TypeOK
<1>3. ThreadPart' /\ LoggedOnce'
  BY <1>1, QuietStep
<1>4. LoggedWasSubmitted'
  BY <1>1 DEF Inv, LoggedWasSubmitted
<1>5. \A q \in Producer : q # p => at'[q] = at[q] /\ turn'[q] = turn[q] /\ no'[q] = no[q]
  BY <1>2 DEF Begin, Look, Advance
<1>6. /\ at'[p] = "putting" => turn'[p] \in Sink /\ at[p] = "looking"
      /\ turn[p] <= turn'[p]
      /\ at[p] = "putting" => turn'[p] = turn[p] + 1
      /\ no'[p] >= 1
  BY <1>2, SinkIsNumber DEF Begin, Look, Advance, Inv, Numbers
<1>7. TypeOK'
  <2>1. /\ at' \in [Producer -> {"writing", "looking", "putting", "done"}]
        /\ turn' \in [Producer -> {1, 2, 3}] /\ no' \in [Producer -> Nat]
    BY <1>2, SinkIsNumber DEF Begin, Look, Advance, Inv, PuttingIsAtSink
  <2> QED
    BY <1>1, <2>1, SinkIsNumber DEF Inv, TypeOK
<1>8. Numbers' /\ PuttingIsAtSink'
  BY <1>5, <1>6 DEF Inv, Numbers, PuttingIsAtSink
<1>9. SubmittedBehind'
  <2> SUFFICES ASSUME NEW s \in Sink, NEW a \in submitted[s]
               PROVE  \/ s < turn'[a.from]
                      \/ s = turn'[a.from] /\ at'[a.from] = "putting" /\ a.no < no'[a.from]
    BY <1>1 DEF SubmittedBehind
  <2>1. a.from \in Producer
    BY AlertFields DEF Inv, TypeOK
  <2>2. \/ s < turn[a.from]
        \/ s = turn[a.from] /\ at[a.from] = "putting" /\ a.no < no[a.from]
    BY DEF Inv, SubmittedBehind
  <2>3. CASE a.from # p
    BY <1>5, <2>1, <2>2, <2>3
  <2>4. CASE a.from = p
    <3>1. s \in {1, 2} /\ turn[p] \in {1, 2, 3} /\ turn'[p] \in {1, 2, 3, 4}
      BY <1>2, <1>6, SinkIsNumber DEF Begin, Look, Advance
    <3>2. s < turn[p] \/ (s = turn[p] /\ at[p] = "putting")
      BY <2>2, <2>4
    <3> QED
      BY <1>6, <2>4, <3>1, <3>2
  <2> QED
    BY <2>3, <2>4
<1> QED
  BY <1>3, <1>4, <1>7, <1>8, <1>9 DEF Inv, ThreadPart

LEMMA PutKeepsInv ==
    ASSUME Inv, NEW p \in Producer, Put(p)
    PROVE  Inv'
<1> DEFINE s == turn[p]
           a == [from |-> p, no |-> no[p]]
<1>1. /\ at[p] = "putting" /\ s \in Sink /\ no[p] \in Nat /\ no[p] >= 1
      /\ no' = [no EXCEPT ![p] = @ + 1] /\ Offer(s, a)
      /\ submitted' = [submitted EXCEPT ![s] = @ \cup {a}]
      /\ UNCHANGED <<at, turn, threads, shutdown>>
  BY DEF Put, Inv, TypeOK, Numbers, PuttingIsAtSink
<1>2. a \in Alert
  BY <1>1, AlertOf DEF Put
<1>3. a \notin submitted[s]
  <2>1. a.from = p /\ a.no = no[p]
    OBVIOUS
  <2>2. s \in {1, 2} /\ s = turn[p]
    BY <1>1, SinkIsNumber
  <2>0. \A t \in Sink : \A b \in submitted[t] :
          t < turn[b.from] \/ (t = turn[b.from] /\ b.no < no[b.from])
    BY DEF Inv, SubmittedBehind
  <2> HIDE DEF s, a
  <2>3. ASSUME a \in submitted[s] PROVE FALSE
    <3>1. s < turn[p] \/ no[p] < no[p]
      BY <1>1, <2>0, <2>1, <2>3
    <3> QED
      BY <1>1, <2>2, <3>1
  <2> QED
    BY <2>3
<1> HIDE DEF s, a
<1>4. /\ no' \in [Producer -> Nat] /\ no'[p] = no[p] + 1
      /\ \A q \in Producer : q # p => no'[q] = no[q]
  BY <1>1 DEF Inv, TypeOK
<1>5. /\ submitted' \in [Sink -> SUBSET Alert] /\ submitted'[s] = submitted[s] \cup {a}
      /\ \A t \in Sink : t # s => submitted'[t] = submitted[t]
  BY <1>1, <1>2 DEF Inv, TypeOK
<1>6. Numbers' /\ PuttingIsAtSink'
  BY <1>1, <1>4 DEF Inv, Numbers, PuttingIsAtSink
<1>7. SubmittedBehind'
  <2> SUFFICES ASSUME NEW t \in Sink, NEW b \in submitted'[t]
               PROVE  \/ t < turn[b.from]
                      \/ t = turn[b.from] /\ at[b.from] = "putting" /\ b.no < no'[b.from]
    BY <1>1 DEF SubmittedBehind
  <2>1. b.from \in Producer /\ b.no \in Nat
    <3>1. b \in Alert
      BY <1>5
    <3> QED
      BY <3>1, AlertFields, DispatchAssumption
  <2>2. CASE b \in submitted[t]
    <3>1. \/ t < turn[b.from]
          \/ t = turn[b.from] /\ at[b.from] = "putting" /\ b.no < no[b.from]
      BY <2>2 DEF Inv, SubmittedBehind
    <3> QED
      BY <1>1, <1>4, <2>1, <3>1
  <2>3. CASE t = s /\ b = a
    BY <1>1, <1>4, <2>3 DEF s, a
  <2> QED
    BY <1>5, <2>2, <2>3
<1>8. CASE LogGrows(s, a) /\ UNCHANGED dropped /\ a \in Wanted[s]
  <2>0. /\ log' \in [Sink -> Seq(Alert \cup {Sentinel})]
        /\ log'[s][Len(log[s]) + 1] = a
        /\ DOMAIN log'[s] = DOMAIN log[s] \cup {Len(log[s]) + 1}
        /\ Len(log'[s]) = Len(log[s]) + 1 /\ Len(log[s]) \in Nat
        /\ Len(log'[s]) <= taken[s] + QueueMax[s]
        /\ \A t \in Sink : t # s => log'[t] = log[t]
        /\ \A t \in Sink : DOMAIN log[t] = 1 .. Len(log[t])
        /\ \A t \in Sink : \A i \in DOMAIN log[t] : log'[t][i] = log[t][i]
    BY <1>1, <1>8, LogGrowsFacts DEF Inv
  <2>1. ThreadPart'
    BY <1>1, <2>0, ThreadPartKept
  <2>2. TypeOK'
    <3>1. \A t \in Sink : taken[t] <= Len(log'[t]) /\ Len(log'[t]) <= taken[t] + QueueMax[t]
      <4>1. \A t \in Sink : /\ taken[t] \in Nat
                            /\ taken[t] <= Len(log[t]) /\ Len(log[t]) <= taken[t] + QueueMax[t]
        BY DEF Inv, TypeOK
      <4> QED
        BY <1>1, <2>0, <4>1
    <3> QED
      BY <1>1, <1>4, <1>5, <1>8, <2>0, <3>1 DEF Inv, TypeOK, threads, shutdown
  <2>3. LoggedWasSubmitted'
    BY <1>1, <1>5, <1>8, <2>0 DEF Inv, LoggedWasSubmitted, shutdown
  <2>4. \A i \in DOMAIN log[s] : log[s][i] # a
    BY <1>1, <1>2, <1>3, DispatchAssumption DEF Inv, LoggedWasSubmitted
  <2>5. LoggedOnce'
    <3> SUFFICES ASSUME NEW t \in Sink, NEW i \in DOMAIN log'[t], NEW j \in DOMAIN log'[t],
                        log'[t][i] = log'[t][j]
                 PROVE  i = j
      BY DEF LoggedOnce
    <3>1. CASE t # s
      BY <2>0, <3>1 DEF Inv, LoggedOnce
    <3>2. CASE t = s
      BY <2>0, <2>4, <3>2 DEF Inv, LoggedOnce
    <3> QED
      BY <3>1, <3>2
  <2> QED
    BY <1>6, <1>7, <2>1, <2>2, <2>3, <2>5 DEF Inv, ThreadPart
<1>9. CASE UNCHANGED log /\ dropped' \in [Sink -> Nat]
  <2>1. ThreadPart' /\ LoggedOnce'
    BY <1>1, <1>9, ThreadPartKept DEF Inv, LoggedOnce
  <2>2. TypeOK'
    BY <1>1, <1>4, <1>5, <1>9 DEF Inv, TypeOK, threads, shutdown
  <2>3. LoggedWasSubmitted'
    BY <1>1, <1>5, <1>9 DEF Inv, LoggedWasSubmitted, shutdown
  <2> QED
    BY <1>6, <1>7, <2>1, <2>2, <2>3 DEF Inv, ThreadPart
<1>10. dropped \in [Sink -> Nat]
  BY DEF Inv, TypeOK
<1> QED
  BY <1>1, <1>2, <1>8, <1>9, <1>10 DEF Offer, LogGrows

(* Shutdown.  The sentinel goes on each log once, before its sink is left.   *)
LEMMA BeginStopKeepsInv == Inv /\ BeginStop => Inv'
<1> SUFFICES ASSUME Inv, BeginStop PROVE Inv'
  OBVIOUS
<1>1. ThreadPart' /\ LoggedOnce'
  BY QuietStep DEF BeginStop
<1>2. LoggedWasSubmitted'
  BY DEF BeginStop, Inv, LoggedWasSubmitted
<1>3. TypeOK' /\ Numbers' /\ PuttingIsAtSink' /\ SubmittedBehind'
  BY DEF BeginStop, Inv, TypeOK, Numbers, PuttingIsAtSink, SubmittedBehind, producers,
     threads
<1> QED
  BY <1>1, <1>2, <1>3 DEF Inv, ThreadPart

LEMMA EndJoinKeepsInv == Inv /\ EndJoin => Inv'
<1> SUFFICES ASSUME Inv, EndJoin PROVE Inv'
  OBVIOUS
<1>1. ThreadPart' /\ LoggedOnce'
  BY QuietStep DEF EndJoin
<1>2. LoggedWasSubmitted'
  BY SinkIsNumber DEF EndJoin, Inv, TypeOK, LoggedWasSubmitted
<1>3. TypeOK'
  BY SinkIsNumber DEF EndJoin, Inv, TypeOK, producers, threads
<1>4. Numbers' /\ PuttingIsAtSink' /\ SubmittedBehind'
  BY DEF EndJoin, Inv, Numbers, PuttingIsAtSink, SubmittedBehind, producers
<1> QED
  BY <1>1, <1>2, <1>3, <1>4 DEF Inv, ThreadPart

LEMMA PutSentinelKeepsInv == Inv /\ PutSentinel => Inv'
<1> SUFFICES ASSUME Inv, PutSentinel PROVE Inv'
  OBVIOUS
<1> DEFINE s == stopping
<1>1. /\ s \in Sink /\ LogGrows(s, Sentinel) /\ main = "putting" /\ main' = "joining"
      /\ UNCHANGED <<producers, submitted, threads, dropped, active, stopping>>
  BY DEF PutSentinel, LogGrows, Inv, TypeOK
<1> HIDE DEF s
<1>2. /\ log' \in [Sink -> Seq(Alert \cup {Sentinel})]
      /\ log'[s][Len(log[s]) + 1] = Sentinel
      /\ DOMAIN log'[s] = DOMAIN log[s] \cup {Len(log[s]) + 1}
      /\ Len(log'[s]) = Len(log[s]) + 1 /\ Len(log[s]) \in Nat
      /\ Len(log'[s]) <= taken[s] + QueueMax[s]
      /\ \A t \in Sink : t # s => log'[t] = log[t]
      /\ \A t \in Sink : DOMAIN log[t] = 1 .. Len(log[t])
      /\ \A t \in Sink : \A i \in DOMAIN log[t] : log'[t][i] = log[t][i]
  BY <1>1, LogGrowsFacts DEF Inv
<1>3. ThreadPart'
  BY <1>1, <1>2, ThreadPartKept
<1>4. TypeOK'
  <2>1. \A t \in Sink : taken[t] <= Len(log'[t]) /\ Len(log'[t]) <= taken[t] + QueueMax[t]
    <3>1. \A t \in Sink : /\ taken[t] \in Nat
                          /\ taken[t] <= Len(log[t]) /\ Len(log[t]) <= taken[t] + QueueMax[t]
      BY DEF Inv, TypeOK
    <3> QED
      BY <1>1, <1>2, <3>1
  <2> QED
    BY <1>1, <1>2, <2>1 DEF Inv, TypeOK, threads, producers
<1>5. Numbers' /\ PuttingIsAtSink' /\ SubmittedBehind'
  BY <1>1 DEF Inv, Numbers, PuttingIsAtSink, SubmittedBehind, producers
<1>6. \A i \in DOMAIN log[s] : log[s][i] # Sentinel
  <2>1. \A b \in submitted[s] : b # Sentinel
    BY <1>1, DispatchAssumption DEF Inv, TypeOK
  <2>2. ~(s < s)
    BY <1>1, SinkIsNumber
  <2> QED
    BY <1>1, <2>1, <2>2 DEF Inv, LoggedWasSubmitted, s
<1>7. LoggedWasSubmitted'
  BY <1>1, <1>2 DEF Inv, LoggedWasSubmitted, s
<1>8. LoggedOnce'
  <2> SUFFICES ASSUME NEW t \in Sink, NEW i \in DOMAIN log'[t], NEW j \in DOMAIN log'[t],
                      log'[t][i] = log'[t][j]
               PROVE  i = j
    BY DEF LoggedOnce
  <2>1. CASE t # s
    BY <1>2, <2>1 DEF Inv, LoggedOnce
  <2>2. CASE t = s
    BY <1>2, <1>6, <2>2 DEF Inv, LoggedOnce
  <2> QED
    BY <2>1, <2>2
<1> QED
  BY <1>3, <1>4, <1>5, <1>7, <1>8 DEF Inv, ThreadPart

LEMMA InvInit == Init => Inv
<1> SUFFICES ASSUME Init PROVE Inv
  OBVIOUS
<1> USE DEF Init
<1>1. TypeOK
  BY DispatchAssumption, SinkIsNumber DEF TypeOK
<1>2. \A s \in Sink : DOMAIN log[s] = {} /\ DOMAIN calls[s] = {} /\ taken[s] = 0
  OBVIOUS
<1>3. Numbers /\ PuttingIsAtSink /\ SubmittedBehind /\ LoggedWasSubmitted /\ LoggedOnce
  BY <1>2 DEF Numbers, PuttingIsAtSink, SubmittedBehind, LoggedWasSubmitted, LoggedOnce
<1>4. SentinelEnds /\ HandlerInRange /\ CallsBehind /\ InHandCalled /\ OncePerHandler
      /\ NoHandlerSkipped
  BY <1>2 DEF SentinelEnds, HandlerInRange, CallsBehind, InHandCalled, OncePerHandler,
     NoHandlerSkipped, HandledUpTo
<1> QED
  BY <1>1, <1>3, <1>4 DEF Inv

LEMMA InvNext == Inv /\ [Next]_vars => Inv'
<1> SUFFICES ASSUME Inv, [Next]_vars PROVE Inv'
  OBVIOUS
<1>1. CASE UNCHANGED vars
  <2>1. ThreadPart' /\ LoggedOnce'
    BY <1>1, QuietStep DEF vars
  <2>2. LoggedWasSubmitted' /\ TypeOK' /\ Numbers' /\ PuttingIsAtSink' /\ SubmittedBehind'
    BY <1>1 DEF vars, producers, threads, shutdown, Inv, LoggedWasSubmitted, TypeOK,
       Numbers, PuttingIsAtSink, SubmittedBehind
  <2> QED
    BY <2>1, <2>2 DEF Inv, ThreadPart
<1>2. ASSUME NEW s \in Sink, Thread(s) PROVE Inv'
  BY <1>2, GetKeepsInv, HandleKeepsInv DEF Thread
<1> QED
  BY <1>1, <1>2, ProducerStepsKeepInv, PutKeepsInv, BeginStopKeepsInv, EndJoinKeepsInv,
     PutSentinelKeepsInv, NextCases

LEMMA InvHolds == Spec => []Inv
BY InvInit, InvNext, PTL DEF Spec

-----------------------------------------------------------------------------
(* Type correctness: no queue exceeds its capacity, whoever submits.         *)
THEOREM TypeCorrect == Spec => []TypeOK
<1>1. Inv => TypeOK
  BY DEF Inv
<1> QED
  BY <1>1, InvHolds, PTL

(* No channel or playbook is called twice for an alert.                      *)
THEOREM HandlersAreCalledOnce == Spec => []OncePerHandler
<1>1. Inv => OncePerHandler
  BY DEF Inv
<1> QED
  BY <1>1, InvHolds, PTL

(* What a thread has left behind was offered to every handler it concerns.   *)
THEOREM NoHandlerIsSkipped == Spec => []NoHandlerSkipped
<1>1. Inv => NoHandlerSkipped
  BY DEF Inv
<1> QED
  BY <1>1, InvHolds, PTL

(* A thread that ended has taken everything put before its sentinel.         *)
THEOREM ThreadsDrainBeforeExit == Spec => []ExitDrains
<1>1. Inv => ExitDrains
  <2> SUFFICES ASSUME Inv, NEW s \in Sink, worker[s] = "exited"
               PROVE  InHand(s) = Sentinel /\ \A i \in 1 .. taken[s] - 1 : log[s][i] # Sentinel
    BY DEF ExitDrains
  <2>1. taken[s] \in Nat
    BY DEF Inv, TypeOK
  <2> QED
    BY <2>1 DEF Inv, SentinelEnds, InHand
<1> QED
  BY <1>1, InvHolds, PTL

-----------------------------------------------------------------------------
(* The books: what is wanted and not on the log was counted as dropped.      *)
LoggedAlerts(s) == {a \in Alert : \E i \in DOMAIN log[s] : log[s][i] = a}
Lost(s) == (submitted[s] \cap Wanted[s]) \ LoggedAlerts(s)
Counted == \A s \in Sink : IsFiniteSet(submitted[s]) /\ dropped[s] = Cardinality(Lost(s))

LEMMA LoggedAlertsWereSubmitted ==
    ASSUME Inv
    PROVE  \A s \in Sink : LoggedAlerts(s) \subseteq submitted[s] \cap Wanted[s]
BY DispatchAssumption DEF Inv, LoggedWasSubmitted, LoggedAlerts

LEMMA CountedKept ==
    ASSUME Counted, UNCHANGED <<submitted, dropped>>,
           \A s \in Sink : LoggedAlerts(s)' = LoggedAlerts(s)
    PROVE  Counted'
BY DEF Counted, Lost

LEMMA CountedPut ==
    ASSUME Inv, Counted, NEW p \in Producer, Put(p)
    PROVE  Counted'
<1>a. turn[p] \in Sink /\ [from |-> p, no |-> no[p]] \in Alert
  BY AlertOf DEF Put, Inv, TypeOK, Numbers, PuttingIsAtSink
<1>b. PICK s \in Sink : s = turn[p]
  BY <1>a
<1>c. PICK a \in Alert : a = [from |-> p, no |-> no[p]]
  BY <1>a
<1>1. Offer(s, a) /\ submitted' = [submitted EXCEPT ![s] = @ \cup {a}]
  BY <1>b, <1>c DEF Put
<1>2. a \notin submitted[s]
  <2>1. \A b \in submitted[s] : b.no < no[p] \/ b.from # p
    <3>1. no[p] \in Nat /\ at[p] = "putting" /\ s \in {1, 2}
      BY SinkIsNumber DEF Put, Inv, TypeOK
    <3> QED
      BY <1>b, <3>1 DEF Inv, SubmittedBehind
  <2>2. a.from = p /\ a.no = no[p] /\ ~(no[p] < no[p])
    BY <1>c DEF Inv, TypeOK
  <2> QED
    BY <2>1, <2>2
<1>3. /\ submitted'[s] = submitted[s] \cup {a}
      /\ \A t \in Sink : t # s => submitted'[t] = submitted[t]
  BY <1>1 DEF Inv, TypeOK
<1>4. \A t \in Sink : t # s => log'[t] = log[t] /\ dropped'[t] = dropped[t]
  BY <1>1 DEF Offer, Inv, TypeOK
<1>5. \A t \in Sink : t # s => Lost(t)' = Lost(t)
  BY <1>3, <1>4 DEF Lost, LoggedAlerts
<1>6. IsFiniteSet(submitted[s]) /\ dropped[s] = Cardinality(Lost(s)) /\ dropped[s] \in Nat
  BY <1>1 DEF Counted, Inv, TypeOK
<1>7. IsFiniteSet(submitted'[s]) /\ IsFiniteSet(Lost(s))
  BY <1>3, <1>6, FS_AddElement, FS_Subset DEF Lost
<1>8. dropped'[s] = Cardinality(Lost(s)')
  <2>1. CASE a \notin Wanted[s] /\ UNCHANGED <<log, dropped>>
    <3>1. Lost(s)' = Lost(s)
      BY <1>3, <2>1 DEF Lost, LoggedAlerts
    <3> QED
      BY <1>6, <2>1, <3>1
  <2>2. CASE LogGrows(s, a) /\ UNCHANGED dropped
    <3>1. /\ log'[s][Len(log[s]) + 1] = a
          /\ DOMAIN log'[s] = DOMAIN log[s] \cup {Len(log[s]) + 1}
          /\ \A i \in DOMAIN log[s] : log'[s][i] = log[s][i]
      BY <1>1, <2>2, LogGrowsFacts DEF Inv
    <3>2. LoggedAlerts(s)' = LoggedAlerts(s) \cup {a}
      BY <1>1, <3>1 DEF LoggedAlerts
    <3>3. Lost(s)' = Lost(s)
      BY <1>2, <1>3, <3>2 DEF Lost
    <3> QED
      BY <1>6, <2>2, <3>3
  <2>3. CASE a \in Wanted[s] /\ UNCHANGED log /\ dropped' = [dropped EXCEPT ![s] = @ + 1]
    <3>1. LoggedAlerts(s) \subseteq submitted[s]
      BY <1>1, LoggedAlertsWereSubmitted
    <3>2. Lost(s)' = Lost(s) \cup {a} /\ a \notin Lost(s)
      BY <1>2, <1>3, <2>3, <3>1 DEF Lost, LoggedAlerts
    <3>3. Cardinality(Lost(s)') = Cardinality(Lost(s)) + 1
      BY <1>7, <3>2, FS_AddElement
    <3>4. dropped'[s] = dropped[s] + 1
      BY <1>1, <2>3 DEF Inv, TypeOK
    <3> QED
      BY <1>6, <3>3, <3>4
  <2> QED
    BY <1>1, <2>1, <2>2, <2>3 DEF Offer, LogGrows
<1> QED
  BY <1>3, <1>4, <1>5, <1>7, <1>8 DEF Counted

LEMMA CountedSentinel == Inv /\ Counted /\ PutSentinel => Counted'
<1> SUFFICES ASSUME Inv, Counted, PutSentinel PROVE Counted'
  OBVIOUS
<1> DEFINE s == stopping
<1>1. s \in Sink /\ LogGrows(s, Sentinel) /\ UNCHANGED <<submitted, dropped>>
  BY DEF PutSentinel, LogGrows, Inv, TypeOK
<1> HIDE DEF s
<1>2. /\ log'[s][Len(log[s]) + 1] = Sentinel
      /\ DOMAIN log'[s] = DOMAIN log[s] \cup {Len(log[s]) + 1}
      /\ \A t \in Sink : t # s => log'[t] = log[t]
      /\ \A i \in DOMAIN log[s] : log'[s][i] = log[s][i]
  BY <1>1, LogGrowsFacts DEF Inv
<1>3. \A t \in Sink : LoggedAlerts(t)' = LoggedAlerts(t)
  BY <1>2, DispatchAssumption DEF LoggedAlerts
<1> QED
  BY <1>1, <1>3, CountedKept

LEMMA CountedNext == Inv /\ Counted /\ [Next]_vars => Counted'
<1> SUFFICES ASSUME Inv, Counted, [Next]_vars PROVE Counted'
  OBVIOUS
<1>1. ASSUME UNCHANGED <<submitted, log, dropped>> PROVE Counted'
  BY <1>1, CountedKept DEF LoggedAlerts
<1>2. ASSUME NEW p \in Producer, Begin(p) \/ Look(p) \/ Advance(p) PROVE Counted'
  BY <1>1, <1>2 DEF Begin, Look, Advance
<1>3. ASSUME NEW s \in Sink, Thread(s) PROVE Counted'
  BY <1>1, <1>3 DEF Thread
<1>4. CASE BeginStop \/ EndJoin \/ UNCHANGED vars
  BY <1>1, <1>4 DEF BeginStop, EndJoin, vars
<1> QED
  BY <1>2, <1>3, <1>4, CountedPut, CountedSentinel, NextCases

(* An alert that is submitted and wanted is on the log or was counted.       *)
THEOREM EveryLossIsCounted == Spec => []LossCounted
<1>1. Init => Counted
  <2> SUFFICES ASSUME Init, NEW s \in Sink
               PROVE  IsFiniteSet(submitted[s]) /\ dropped[s] = Cardinality(Lost(s))
    BY DEF Counted
  <2>1. submitted[s] = {} /\ dropped[s] = 0 /\ Lost(s) = {}
    BY DEF Init, Lost
  <2> QED
    BY <2>1, FS_EmptySet
<1>2. Inv /\ Counted => LossCounted
  BY LoggedAlertsWereSubmitted DEF Counted, LossCounted, Lost, LoggedAlerts
<1> QED
  BY <1>1, <1>2, CountedNext, InvHolds, PTL DEF Spec

(* All that holds of the two dispatchers at every step, together            *)
(* (notify/dispatcher.py and response/engine.py, submit, _run and stop).    *)
THEOREM DispatchIsSafe == Spec => []DispatchSafety
BY TypeCorrect, HandlersAreCalledOnce, NoHandlerIsSkipped, ThreadsDrainBeforeExit, EveryLossIsCounted, PTL DEF DispatchSafety
=============================================================================
