------------------------- MODULE IngestQueue_proofs -------------------------
(***************************************************************************)
(* Proofs about IngestQueue for every number of items, sources, workers    *)
(* and events, every queue capacity and every flush size, and about the    *)
(* other ways in over the network: the collector endpoint (HecEndpoint),   *)
(* for every set of bodies, and the template cache of the flow receiver    *)
(* (FlowTemplates), for every set of exporters, template ids and shapes    *)
(* and every size of the cache.                                            *)
(***************************************************************************)
EXTENDS IngestQueue, HecEndpoint, FlowTemplates, FiniteSetTheorems, SequenceTheorems, TLAPS

(* A step of Next, one disjunct per operation: the case analysis of every    *)
(* preservation proof.                                                       *)
LEMMA NextCases ==
    ASSUME [Next]_vars
    PROVE  \/ \E i \in Item : Submit(i)
           \/ \E w \in Worker :
                \/ Take(w) \/ Timeout(w) \/ Resume(w) \/ Cancelled(w)
                \/ Commit(w) \/ Rollback(w) \/ Return(w) \/ FailLate(w)
                \/ OrphanEnds(w)
           \/ Stop \/ Stopped
           \/ UNCHANGED vars
BY DEF Next, Loop, Thread, Terminating

(* The events of any set of items are finitely many, so they can be counted, *)
(* and the count of a union is at most the sum of the counts.                *)
LEMMA EventCountNat ==
    ASSUME NEW S \in SUBSET Item
    PROVE  IsFiniteSet(EventsIn(S)) /\ EventCount(S) \in Nat
<1>1. EventsIn(S) \in SUBSET Event
  BY ItemAssumption DEF EventsIn
<1>2. IsFiniteSet(EventsIn(S))
  BY <1>1, FS_Subset, ItemAssumption
<1> QED
  BY <1>2, FS_CardinalityType DEF EventCount

LEMMA EventCountUnion ==
    ASSUME NEW S \in SUBSET Item, NEW T \in SUBSET Item
    PROVE  EventCount(S \cup T) <= EventCount(S) + EventCount(T)
<1>1. EventsIn(S \cup T) = EventsIn(S) \cup EventsIn(T)
  BY DEF EventsIn
<1>2. /\ IsFiniteSet(EventsIn(S)) /\ IsFiniteSet(EventsIn(T))
      /\ EventCount(S) \in Nat /\ EventCount(T) \in Nat
  BY EventCountNat
<1>3. EventCount(S \cup T) =
        EventCount(S) + EventCount(T) - Cardinality(EventsIn(S) \cap EventsIn(T))
  BY <1>1, <1>2, FS_Union DEF EventCount
<1>4. Cardinality(EventsIn(S) \cap EventsIn(T)) \in Nat
  BY <1>2, FS_Subset, FS_CardinalityType, EventsIn(S) \cap EventsIn(T) \in SUBSET EventsIn(S)
<1> QED
  BY <1>2, <1>3, <1>4

LEMMA EventCountEmpty == EventCount({}) = 0
BY FS_EmptySet DEF EventCount, EventsIn

(* What a queue holds after an append and after a removal at the head. *)
LEMMA ItemsOfAppend ==
    ASSUME NEW s \in Seq(Item), NEW i \in Item
    PROVE  ItemsOf(Append(s, i)) = ItemsOf(s) \cup {i}
<1> DEFINE t == Append(s, i)
<1>1. t \in Seq(Item) /\ Len(t) = Len(s) + 1
  OBVIOUS
<1>2. /\ DOMAIN s = 1 .. Len(s) /\ DOMAIN t = 1 .. Len(s) + 1 /\ Len(s) \in Nat
      /\ \A k \in 1 .. Len(s) : t[k] = s[k]
      /\ t[Len(s) + 1] = i
  BY <1>1
<1>3. DOMAIN t = DOMAIN s \cup {Len(s) + 1}
  BY <1>2
<1> HIDE DEF t
<1>4. ItemsOf(t) = ItemsOf(s) \cup {i}
  BY <1>2, <1>3, Zenon DEF ItemsOf
<1> QED
  BY <1>4 DEF t

LEMMA ItemsOfTail ==
    ASSUME NEW s \in Seq(Item), s # << >>
    PROVE  /\ Head(s) \in Item /\ Tail(s) \in Seq(Item)
           /\ Len(Tail(s)) = Len(s) - 1
           /\ ItemsOf(s) = ItemsOf(Tail(s)) \cup {Head(s)}
<1> DEFINE t == Tail(s)
<1>1. /\ Head(s) \in Item /\ t \in Seq(Item) /\ Len(t) = Len(s) - 1
      /\ Head(s) = s[1]
  OBVIOUS
<1>2. /\ DOMAIN s = 1 .. Len(s) /\ DOMAIN t = 1 .. Len(s) - 1
      /\ Len(s) \in Nat /\ Len(s) > 0
      /\ \A k \in 1 .. Len(s) - 1 : t[k] = s[k + 1]
  BY <1>1
<1> HIDE DEF t
<1>3. ASSUME NEW x \in ItemsOf(s) PROVE x \in ItemsOf(t) \cup {Head(s)}
  <2>1. PICK k \in 1 .. Len(s) : x = s[k]
    BY <1>2 DEF ItemsOf
  <2>2. CASE k = 1
    BY <1>1, <2>1, <2>2
  <2>3. CASE k # 1
    <3>1. k - 1 \in DOMAIN t /\ t[k - 1] = x
      BY <1>2, <2>1, <2>3
    <3> QED
      BY <3>1 DEF ItemsOf
  <2> QED
    BY <2>2, <2>3
<1>4. Head(s) \in ItemsOf(s)
  BY <1>1, <1>2 DEF ItemsOf
<1>5. ASSUME NEW x \in ItemsOf(t) PROVE x \in ItemsOf(s)
  <2>1. PICK k \in 1 .. Len(s) - 1 : x = t[k]
    BY <1>2 DEF ItemsOf
  <2>2. k + 1 \in DOMAIN s /\ s[k + 1] = x
    BY <1>2, <2>1
  <2> QED
    BY <2>2 DEF ItemsOf
<1>6. ItemsOf(s) = ItemsOf(t) \cup {Head(s)}
  BY <1>3, <1>4, <1>5
<1> QED
  BY <1>1, <1>6 DEF t

-----------------------------------------------------------------------------
(* Type correctness: in particular the queue never exceeds its capacity.     *)
LEMMA TypeInit == Init => TypeOK
<1> SUFFICES ASSUME Init PROVE TypeOK
  OBVIOUS
<1>1. (CHOOSE s \in Source : TRUE) \in Source
  BY ItemAssumption
<1> QED
  BY <1>1, SizeAssumption DEF Init, TypeOK, PC

LEMMA TypeNext == TypeOK /\ [Next]_vars => TypeOK'
<1> SUFFICES ASSUME TypeOK, [Next]_vars PROVE TypeOK'
  OBVIOUS
<1> USE DEF TypeOK, PC
<1>1. ASSUME NEW i \in Item, Submit(i) PROVE TypeOK'
  <2>1. CASE Enqueue(i)
    <3>1. q' \in Seq(Item) /\ Len(q') <= MaxSize
      BY <2>1, SizeAssumption DEF Enqueue, HasRoom
    <3> QED
      BY <1>1, <2>1, <3>1 DEF Submit, Enqueue, tasks, threads, stats
  <2>2. CASE Drop(i)
    BY <1>1, <2>2 DEF Submit, Drop, tasks, threads, stats
  <2> QED
    BY <1>1, <2>1, <2>2 DEF Submit
<1>2. ASSUME NEW w \in Worker, NEW S \in SUBSET Item, BeginWrite(w, Groups(S))
      PROVE  /\ cur' \in [Worker -> Source]
             /\ left' \in [Worker -> SUBSET Source]
             /\ wr' \in [Worker -> {"idle", "begun", "committed", "returned", "raised"}]
  BY <1>2, ItemAssumption DEF BeginWrite, Groups
<1>3. ASSUME NEW w \in Worker, Take(w) PROVE TypeOK'
  <2>1. /\ Head(q) \in Item /\ q' \in Seq(Item) /\ Len(q') <= MaxSize
    BY <1>3, ItemsOfTail, SizeAssumption DEF Take, Dequeue
  <2>2. buf[w] \cup {Head(q)} \in SUBSET Item
    BY <2>1
  <2>3. /\ cur' \in [Worker -> Source]
        /\ left' \in [Worker -> SUBSET Source]
        /\ wr' \in [Worker -> {"idle", "begun", "committed", "returned", "raised"}]
        /\ pc' \in [Worker -> PC]
    BY <1>2, <1>3, <2>2 DEF Take
  <2> QED
    BY <1>3, <2>1, <2>2, <2>3 DEF Take, stats, offers
<1>4. ASSUME NEW w \in Worker, Timeout(w) PROVE TypeOK'
  BY <1>2, <1>4 DEF Timeout, stats, offers
<1>5. ASSUME NEW w \in Worker, Resume(w) PROVE TypeOK'
  <2>1. Group(w) \in SUBSET Item /\ EventCount(Group(w)) \in Nat
    BY EventCountNat DEF Group
  <2>2. /\ written' \in Nat /\ flushErrors' \in Nat /\ eventsLost' \in Nat
        /\ reported' \subseteq Item
    <3>1. CASE CountRows(w)
      BY <3>1 DEF CountRows
    <3>2. CASE CountLoss(w)
      BY <2>1, <3>2 DEF CountLoss
    <3> QED
      BY <1>5, <3>1, <3>2 DEF Resume
  <2>3. /\ pc' \in [Worker -> PC] /\ buf' \in [Worker -> SUBSET Item]
        /\ left' \in [Worker -> SUBSET Source] /\ cur' \in [Worker -> Source]
        /\ wr' \in [Worker -> {"idle", "begun", "committed", "returned", "raised"}]
    <3>1. CASE BeginWrite(w, left[w] \ {cur[w]}) /\ UNCHANGED <<pc, buf>>
      <4>1. PICK s \in left[w] \ {cur[w]} : cur' = [cur EXCEPT ![w] = s]
        BY <3>1 DEF BeginWrite
      <4> QED
        BY <3>1, <4>1 DEF BeginWrite
    <3>2. CASE left[w] = {cur[w]}
      BY <1>5, <3>2 DEF Resume
    <3> QED
      BY <1>5, <3>1, <3>2 DEF Resume
  <2> QED
    BY <1>5, <2>2, <2>3 DEF Resume, offers
<1>6. ASSUME NEW w \in Worker, Cancelled(w) PROVE TypeOK'
  <2>1. /\ cur' \in [Worker -> Source]
        /\ left' \in [Worker -> SUBSET Source]
        /\ wr' \in [Worker -> {"idle", "begun", "committed", "returned", "raised"}]
        /\ pc' \in [Worker -> PC]
    BY <1>2, <1>6 DEF Cancelled, Drain, EndIdle, EndInTimer
  <2>2. orphan' \in [Worker -> SUBSET Item]
    BY <1>6 DEF Cancelled, Group
  <2> QED
    BY <1>6, <2>1, <2>2 DEF Cancelled, stats, offers
<1>7. ASSUME NEW w \in Worker, Commit(w) PROVE TypeOK'
  <2>1. Group(w) \in SUBSET Item /\ NewRows(w) \in Nat
    BY EventCountNat DEF Group, NewRows
  <2> QED
    BY <1>7, <2>1 DEF Commit, tasks, stats, offers
<1>8. ASSUME NEW w \in Worker, Rollback(w) \/ Return(w) \/ FailLate(w) PROVE TypeOK'
  BY <1>8 DEF Rollback, Return, FailLate, tasks, stats, offers
<1>9. ASSUME NEW w \in Worker, OrphanEnds(w) PROVE TypeOK'
  BY <1>9 DEF OrphanEnds, tasks, stats, offers
<1>10. CASE Stop \/ Stopped
  BY <1>10 DEF Stop, Stopped, tasks, threads, stats, offers
<1>11. CASE UNCHANGED vars
  BY <1>11 DEF vars, tasks, threads, stats, offers
<1> QED
  BY <1>1, <1>3, <1>4, <1>5, <1>6, <1>7, <1>8, <1>9, <1>10, <1>11, NextCases

(* The queue is well-typed and within its capacity in every reachable state. *)
THEOREM TypeCorrect == Spec => []TypeOK
BY TypeInit, TypeNext, PTL DEF Spec

-----------------------------------------------------------------------------
(* The inductive invariant behind the accounting.  A finished write is in    *)
(* the table, a worker waiting for input awaits no thread, and everything    *)
(* the process holds or has written was accepted first.                      *)
WrittenIsStored ==
    \A w \in Worker : wr[w] \in {"committed", "returned"} => Group(w) \subseteq stored

GetIsIdle == \A w \in Worker : pc[w] = "get" => wr[w] = "idle"

HeldIsAccepted ==
    /\ ItemsOf(q) \subseteq accepted
    /\ \A w \in Worker : buf[w] \subseteq accepted /\ orphan[w] \subseteq accepted
    /\ stored \subseteq accepted /\ reported \subseteq accepted

BooksInv == WrittenIsStored /\ GetIsIdle /\ HeldIsAccepted

LEMMA BooksInit == Init => BooksInv /\ NoSilentLoss
BY DEF Init, BooksInv, WrittenIsStored, GetIsIdle, HeldIsAccepted, NoSilentLoss, ItemsOf

LEMMA BooksNext == TypeOK /\ BooksInv /\ [Next]_vars => BooksInv'
<1> SUFFICES ASSUME TypeOK, BooksInv, [Next]_vars PROVE BooksInv'
  OBVIOUS
<1> USE DEF BooksInv
<1>1. ASSUME NEW i \in Item, Submit(i) PROVE BooksInv'
  <2>1. CASE Enqueue(i)
    <3>1. ItemsOf(q') = ItemsOf(q) \cup {i}
      BY <2>1, ItemsOfAppend DEF Enqueue, TypeOK
    <3> QED
      BY <1>1, <2>1, <3>1 DEF Submit, Enqueue, tasks, threads, stats,
         WrittenIsStored, GetIsIdle, HeldIsAccepted, Group
  <2>2. CASE Drop(i)
    BY <1>1, <2>2 DEF Submit, Drop, tasks, threads, stats,
       WrittenIsStored, GetIsIdle, HeldIsAccepted, Group
  <2> QED
    BY <1>1, <2>1, <2>2 DEF Submit
<1>2. ASSUME NEW w \in Worker, Take(w) PROVE BooksInv'
  <2>1. /\ Head(q) \in ItemsOf(q) /\ ItemsOf(q') \subseteq ItemsOf(q)
    BY <1>2, ItemsOfTail DEF Take, Dequeue, TypeOK
  <2>2. HeldIsAccepted'
    BY <1>2, <2>1 DEF Take, HeldIsAccepted, stats, offers, TypeOK
  <2>3. WrittenIsStored' /\ GetIsIdle'
    <3>1. wr[w] = "idle"
      BY <1>2 DEF Take, GetIsIdle
    <3>2. \A v \in Worker \ {w} :
            wr'[v] = wr[v] /\ pc'[v] = pc[v] /\ Group(v)' = Group(v)
      BY <1>2 DEF Take, BeginWrite, Group, TypeOK
    <3>3. wr'[w] \in {"idle", "begun"} /\ (pc'[w] = "get" => wr'[w] = "idle")
      BY <1>2, <3>1 DEF Take, BeginWrite, TypeOK
    <3> QED
      BY <1>2, <3>2, <3>3 DEF Take, WrittenIsStored, GetIsIdle
  <2> QED
    BY <2>2, <2>3
<1>3. ASSUME NEW w \in Worker, Timeout(w) PROVE BooksInv'
  BY <1>3 DEF Timeout, BeginWrite, WrittenIsStored, GetIsIdle, HeldIsAccepted,
     Group, stats, offers, TypeOK
<1>4. ASSUME NEW w \in Worker, Resume(w) PROVE BooksInv'
  <2>1. Group(w) \subseteq accepted
    BY DEF Group, HeldIsAccepted
  <2>2. HeldIsAccepted'
    BY <1>4, <2>1 DEF Resume, CountRows, CountLoss, HeldIsAccepted, offers, TypeOK
  <2>3. \A v \in Worker \ {w} :
          wr'[v] = wr[v] /\ pc'[v] = pc[v] /\ Group(v)' = Group(v)
    BY <1>4 DEF Resume, BeginWrite, Group, TypeOK
  <2>4. wr'[w] \in {"idle", "begun"} /\ (pc'[w] = "get" => wr'[w] = "idle")
    BY <1>4 DEF Resume, BeginWrite, TypeOK, PC
  <2> QED
    BY <1>4, <2>2, <2>3, <2>4 DEF Resume, WrittenIsStored, GetIsIdle
<1>5. ASSUME NEW w \in Worker, Cancelled(w) PROVE BooksInv'
  <2>1. HeldIsAccepted'
    BY <1>5 DEF Cancelled, HeldIsAccepted, Group, stats, offers, TypeOK
  <2>2. \A v \in Worker \ {w} :
          wr'[v] = wr[v] /\ pc'[v] = pc[v] /\ Group(v)' = Group(v)
    BY <1>5 DEF Cancelled, Drain, EndIdle, EndInTimer, BeginWrite, Group, TypeOK
  <2>3. wr'[w] \in {"idle", "begun"} /\ pc'[w] # "get"
    BY <1>5 DEF Cancelled, Drain, EndIdle, EndInTimer, BeginWrite, GetIsIdle, TypeOK
  <2> QED
    BY <1>5, <2>1, <2>2, <2>3 DEF Cancelled, WrittenIsStored, GetIsIdle
<1>6. ASSUME NEW w \in Worker, Commit(w) PROVE BooksInv'
  BY <1>6 DEF Commit, WrittenIsStored, GetIsIdle, HeldIsAccepted, Group,
     tasks, stats, offers, TypeOK
<1>7. ASSUME NEW w \in Worker, Rollback(w) \/ Return(w) \/ FailLate(w) PROVE BooksInv'
  BY <1>7 DEF Rollback, Return, FailLate, WrittenIsStored, GetIsIdle, HeldIsAccepted,
     Group, tasks, stats, offers, TypeOK
<1>8. ASSUME NEW w \in Worker, OrphanEnds(w) PROVE BooksInv'
  BY <1>8 DEF OrphanEnds, WrittenIsStored, GetIsIdle, HeldIsAccepted, Group,
     tasks, stats, offers, TypeOK
<1>9. CASE Stop \/ Stopped
  BY <1>9 DEF Stop, Stopped, WrittenIsStored, GetIsIdle, HeldIsAccepted, Group,
     tasks, threads, stats, offers
<1>10. CASE UNCHANGED vars
  BY <1>10 DEF vars, WrittenIsStored, GetIsIdle, HeldIsAccepted, Group,
     tasks, threads, stats, offers
<1> QED
  BY <1>1, <1>2, <1>3, <1>4, <1>5, <1>6, <1>7, <1>8, <1>9, <1>10, NextCases

(* No accepted item leaves the books: the three steps that take an item away *)
(* from its holder are Take, which hands it to a worker, the end of a group, *)
(* which has stored or reported it, and a cancellation, which either puts    *)
(* the whole buffer back in a flush or leaves it where it was.               *)
LEMMA NoSilentLossNext ==
    TypeOK /\ BooksInv /\ NoSilentLoss /\ [Next]_vars => NoSilentLoss'
<1> SUFFICES ASSUME TypeOK, BooksInv, NoSilentLoss, [Next]_vars,
                    NEW i \in accepted'
             PROVE  \/ i \in ItemsOf(q') \/ i \in stored' \/ i \in reported'
                    \/ \E w \in Worker : i \in Unflushed(w)'
  BY DEF NoSilentLoss, ItemsOf
<1> DEFINE Kept == \/ i \in ItemsOf(q') \/ i \in stored' \/ i \in reported'
                   \/ \E w \in Worker : i \in Unflushed(w)'
<1>0. \/ i \notin accepted
      \/ i \in ItemsOf(q) \/ i \in stored \/ i \in reported
      \/ \E w \in Worker : i \in Unflushed(w)
  BY DEF NoSilentLoss
<1>1. ASSUME NEW j \in Item, Submit(j) PROVE Kept
  <2>1. CASE Enqueue(j)
    <3>1. ItemsOf(q') = ItemsOf(q) \cup {j} /\ accepted' = accepted \cup {j}
      BY <2>1, ItemsOfAppend DEF Enqueue, TypeOK
    <3>2. \A w \in Worker : Unflushed(w)' = Unflushed(w)
      BY <1>1 DEF Submit, tasks, Unflushed
    <3> QED
      BY <1>0, <1>1, <3>1, <3>2 DEF Submit, threads, stats
  <2>2. CASE Drop(j)
    BY <1>0, <1>1, <2>2 DEF Submit, Drop, tasks, threads, stats, Unflushed
  <2> QED
    BY <1>1, <2>1, <2>2 DEF Submit
<1>2. ASSUME NEW w \in Worker, Take(w) PROVE Kept
  <2>1. ItemsOf(q) = ItemsOf(q') \cup {Head(q)}
    BY <1>2, ItemsOfTail DEF Take, Dequeue, TypeOK
  <2>2. \A v \in Worker \ {w} : Unflushed(v)' = Unflushed(v)
    BY <1>2 DEF Take, BeginWrite, Unflushed, TypeOK
  <2>3. Unflushed(w)' = buf[w] \cup {Head(q)} /\ Unflushed(w) = buf[w]
    BY <1>2 DEF Take, BeginWrite, Unflushed, Groups, TypeOK
  <2> QED
    BY <1>0, <1>2, <2>1, <2>2, <2>3 DEF Take, stats, offers
<1>3. ASSUME NEW w \in Worker, Timeout(w) PROVE Kept
  <2>1. \A v \in Worker \ {w} : Unflushed(v)' = Unflushed(v)
    BY <1>3 DEF Timeout, BeginWrite, Unflushed, TypeOK
  <2>2. Unflushed(w)' = Unflushed(w)
    BY <1>3 DEF Timeout, BeginWrite, Unflushed, Groups, TypeOK
  <2> QED
    BY <1>0, <1>3, <2>1, <2>2 DEF Timeout, stats, offers
<1>4. ASSUME NEW w \in Worker, Resume(w) PROVE Kept
  <2>1. \A v \in Worker \ {w} : Unflushed(v)' = Unflushed(v)
    BY <1>4 DEF Resume, BeginWrite, Unflushed, TypeOK
  <2>2. Group(w) \subseteq stored' \cup reported'
    BY <1>4 DEF Resume, CountRows, CountLoss, BooksInv, WrittenIsStored
  <2>3. Unflushed(w) \subseteq Group(w) \cup Unflushed(w)'
    <3>1. pc[w] # "get" /\ Unflushed(w) = {k \in buf[w] : SourceOf[k] \in left[w]}
      BY <1>4 DEF Resume, Unflushed
    <3>2. CASE left[w] # {cur[w]}
      <4>1. /\ pc' = pc /\ buf' = buf /\ left'[w] = left[w] \ {cur[w]}
        BY <1>4, <3>2 DEF Resume, BeginWrite, TypeOK
      <4> QED
        BY <3>1, <4>1 DEF Unflushed, Group
    <3>3. CASE left[w] = {cur[w]}
      BY <3>1, <3>3 DEF Group
    <3> QED
      BY <3>2, <3>3
  <2>4. stored \subseteq stored' /\ reported \subseteq reported'
    BY <1>4 DEF Resume, CountRows, CountLoss
  <2> QED
    BY <1>0, <1>4, <2>1, <2>2, <2>3, <2>4 DEF Resume, offers
<1>5. ASSUME NEW w \in Worker, Cancelled(w) PROVE Kept
  <2>1. \A v \in Worker \ {w} : Unflushed(v)' = Unflushed(v)
    BY <1>5 DEF Cancelled, Drain, EndIdle, EndInTimer, BeginWrite, Unflushed, TypeOK
  <2>2. Unflushed(w) \subseteq Unflushed(w)'
    <3>1. CASE Drain(w)
      BY <1>5, <3>1 DEF Cancelled, Drain, BeginWrite, Unflushed, Groups, TypeOK
    <3>2. CASE EndIdle(w)
      BY <3>2 DEF EndIdle, Unflushed
    <3>3. CASE EndInTimer(w)
      BY <1>5, <3>3 DEF Cancelled, EndInTimer, Unflushed, TypeOK
    <3> QED
      BY <1>5, <3>1, <3>2, <3>3 DEF Cancelled
  <2> QED
    BY <1>0, <1>5, <2>1, <2>2 DEF Cancelled, stats, offers
<1>6. ASSUME NEW w \in Worker, Commit(w) \/ OrphanEnds(w) PROVE Kept
  <2>1. stored \subseteq stored' /\ UNCHANGED <<q, pc, buf, left, reported, accepted>>
    BY <1>6 DEF Commit, OrphanEnds, tasks, stats, offers
  <2> QED
    BY <1>0, <2>1 DEF Unflushed
<1>7. ASSUME NEW w \in Worker, Rollback(w) \/ Return(w) \/ FailLate(w) PROVE Kept
  BY <1>0, <1>7 DEF Rollback, Return, FailLate, Unflushed, tasks, stats, offers
<1>8. CASE Stop \/ Stopped \/ UNCHANGED vars
  BY <1>0, <1>8 DEF Stop, Stopped, vars, Unflushed, tasks, threads, stats, offers
<1> QED
  BY <1>1, <1>2, <1>3, <1>4, <1>5, <1>6, <1>7, <1>8, NextCases

(* Every accepted item is on the queue, with a worker, stored or counted as  *)
(* lost, in every reachable state of every instance.                         *)
THEOREM NothingLostSilently == Spec => []NoSilentLoss
<1>1. TypeOK /\ BooksInv /\ NoSilentLoss /\ [Next]_vars
        => (TypeOK /\ BooksInv /\ NoSilentLoss)'
  BY TypeNext, BooksNext, NoSilentLossNext
<1>2. Init => TypeOK /\ BooksInv /\ NoSilentLoss
  BY TypeInit, BooksInit
<1> QED
  BY <1>1, <1>2, PTL DEF Spec

-----------------------------------------------------------------------------
(* Only a Take moves items, from the head of the queue to one buffer, and    *)
(* Submit appends an item that was never accepted before.                    *)
LEMMA OneHolderNext ==
    TypeOK /\ BooksInv /\ OneHolder /\ [Next]_vars => OneHolder'
<1> SUFFICES ASSUME TypeOK, BooksInv, OneHolder, [Next]_vars PROVE OneHolder'
  OBVIOUS
<1>1. ASSUME NEW i \in Item, Submit(i) PROVE OneHolder'
  <2>1. CASE Enqueue(i)
    <3>1. /\ ItemsOf(q') = ItemsOf(q) \cup {i}
          /\ \A k \in DOMAIN q' : q'[k] = i <=> k = Len(q) + 1
          /\ \A k \in DOMAIN q' : k # Len(q) + 1 => k \in DOMAIN q /\ q'[k] = q[k]
      <4>1. i \notin ItemsOf(q)
        BY <1>1 DEF Submit, BooksInv, HeldIsAccepted
      <4>2. \A k \in DOMAIN q : q[k] # i
        BY <4>1 DEF ItemsOf
      <4>3. q' = Append(q, i) /\ q \in Seq(Item)
        BY <2>1 DEF Enqueue, TypeOK
      <4> QED
        BY <4>2, <4>3, ItemsOfAppend
    <3>2. \A w \in Worker : i \notin buf[w] /\ buf'[w] = buf[w]
      BY <1>1 DEF Submit, BooksInv, HeldIsAccepted, tasks
    <3> QED
      BY <3>1, <3>2 DEF OneHolder, ItemsOf
  <2>2. CASE Drop(i)
    BY <1>1, <2>2 DEF Submit, Drop, tasks, OneHolder, ItemsOf
  <2> QED
    BY <1>1, <2>1, <2>2 DEF Submit
<1>2. ASSUME NEW w \in Worker, Take(w) PROVE OneHolder'
  <2>1. /\ ItemsOf(q) = ItemsOf(Tail(q)) \cup {Head(q)}
        /\ q' = Tail(q) /\ q \in Seq(Item) /\ q # << >>
    BY <1>2, ItemsOfTail DEF Take, Dequeue, TypeOK
  <2>2. /\ \A k \in DOMAIN Tail(q) : k + 1 \in DOMAIN q /\ Tail(q)[k] = q[k + 1]
        /\ Head(q) = q[1] /\ 1 \in DOMAIN q
        /\ \A k \in DOMAIN Tail(q) : k \in Nat \ {0}
    BY <2>1
  <2>3. Head(q) \notin ItemsOf(Tail(q))
    BY <2>2 DEF OneHolder, ItemsOf
  <2>4. \A j, k \in DOMAIN Tail(q) : j # k => Tail(q)[j] # Tail(q)[k]
    BY <2>2 DEF OneHolder
  <2>5. buf' = [buf EXCEPT ![w] = buf[w] \cup {Head(q)}]
    BY <1>2 DEF Take
  <2>6. \A v \in Worker : ItemsOf(Tail(q)) \cap buf'[v] = {}
    BY <2>1, <2>3, <2>5 DEF OneHolder, TypeOK
  <2>7. \A v, x \in Worker : v # x => buf'[v] \cap buf'[x] = {}
    BY <2>1, <2>5 DEF OneHolder, TypeOK
  <2> QED
    BY <2>1, <2>4, <2>6, <2>7 DEF OneHolder, ItemsOf
<1>3. ASSUME NEW w \in Worker, Resume(w) PROVE OneHolder'
  <2>1. q' = q /\ \A v \in Worker : buf'[v] \subseteq buf[v]
    BY <1>3 DEF Resume, TypeOK
  <2> QED
    BY <2>1 DEF OneHolder, ItemsOf
<1>4. ASSUME UNCHANGED <<q, buf>> PROVE OneHolder'
  BY <1>4 DEF OneHolder, ItemsOf
<1>5. ASSUME NEW w \in Worker,
             \/ Timeout(w) \/ Cancelled(w) \/ Commit(w) \/ Rollback(w)
             \/ Return(w) \/ FailLate(w) \/ OrphanEnds(w)
      PROVE  UNCHANGED <<q, buf>>
  BY <1>5 DEF Timeout, Cancelled, Commit, Rollback, Return, FailLate, OrphanEnds, tasks
<1>6. ASSUME Stop \/ Stopped \/ UNCHANGED vars PROVE UNCHANGED <<q, buf>>
  BY <1>6 DEF Stop, Stopped, vars, tasks
<1> QED
  BY <1>1, <1>2, <1>3, <1>4, <1>5, <1>6, NextCases

(* The queue and the buffers never hold an item twice: however the workers   *)
(* race for the queue, no two of them own the same item.                     *)
THEOREM EveryItemHasOneHolder == Spec => []OneHolder
<1>1. Init => TypeOK /\ BooksInv /\ OneHolder
  <2>1. Init => OneHolder
    BY DEF Init, OneHolder, ItemsOf
  <2> QED
    BY <2>1, TypeInit, BooksInit
<1>2. TypeOK /\ BooksInv /\ OneHolder /\ [Next]_vars => (TypeOK /\ BooksInv /\ OneHolder)'
  BY TypeNext, BooksNext, OneHolderNext
<1> QED
  BY <1>1, <1>2, PTL DEF Spec

-----------------------------------------------------------------------------
LEMMA BufferNext ==
    TypeOK /\ BufferBelowFlushMax /\ [Next]_vars => BufferBelowFlushMax'
<1> SUFFICES ASSUME TypeOK, BufferBelowFlushMax, [Next]_vars,
                    NEW v \in Worker, pc'[v] = "get"
             PROVE  EventCount(buf'[v]) < FlushMax
  BY DEF BufferBelowFlushMax, EventCount, EventsIn
<1>1. ASSUME pc[v] = "get", buf'[v] = buf[v] PROVE EventCount(buf'[v]) < FlushMax
  BY <1>1 DEF BufferBelowFlushMax
<1>2. ASSUME NEW w \in Worker, Take(w) PROVE EventCount(buf'[v]) < FlushMax
  <2>1. CASE v = w
    <3>1. EventCount(buf'[w]) \in Nat
      BY <1>2, TypeNext, EventCountNat DEF TypeOK
    <3>2. /\ buf'[w] = buf[w] \cup {Head(q)}
          /\ FlushDue(buf[w] \cup {Head(q)}) => pc'[w] = "flush"
      BY <1>2 DEF Take, TypeOK
    <3> QED
      BY <2>1, <3>1, <3>2, SizeAssumption DEF FlushDue
  <2>2. CASE v # w
    BY <1>1, <1>2, <2>2 DEF Take, TypeOK
  <2> QED
    BY <2>1, <2>2
<1>3. ASSUME NEW w \in Worker, Resume(w) PROVE EventCount(buf'[v]) < FlushMax
  <2>1. CASE v = w /\ left[w] = {cur[w]}
    <3>1. buf'[v] = {}
      BY <1>3, <2>1 DEF Resume, TypeOK
    <3> QED
      BY <3>1, EventCountEmpty, SizeAssumption
  <2>2. CASE v # w \/ left[w] # {cur[w]}
    BY <1>1, <1>3, <2>2 DEF Resume, TypeOK
  <2> QED
    BY <2>1, <2>2
<1>4. ASSUME NEW w \in Worker, Timeout(w) \/ Cancelled(w)
      PROVE  EventCount(buf'[v]) < FlushMax
  BY <1>1, <1>4 DEF Timeout, Cancelled, Drain, EndIdle, EndInTimer, TypeOK
<1>5. ASSUME UNCHANGED <<pc, buf>> PROVE EventCount(buf'[v]) < FlushMax
  BY <1>1, <1>5
<1>6. ASSUME NEW w \in Worker,
             Commit(w) \/ Rollback(w) \/ Return(w) \/ FailLate(w) \/ OrphanEnds(w)
      PROVE  UNCHANGED <<pc, buf>>
  BY <1>6 DEF Commit, Rollback, Return, FailLate, OrphanEnds, tasks
<1>7. ASSUME (\E i \in Item : Submit(i)) \/ Stop \/ Stopped \/ UNCHANGED vars
      PROVE  UNCHANGED <<pc, buf>>
  BY <1>7 DEF Submit, Stop, Stopped, vars, tasks
<1> QED
  BY <1>2, <1>3, <1>4, <1>5, <1>6, <1>7, NextCases

(* A worker that waits for the queue holds less than a flush of events, for  *)
(* every flush size and every size of the items.                             *)
THEOREM BuffersAreBounded == Spec => []BufferBelowFlushMax
<1>1. Init => TypeOK /\ BufferBelowFlushMax
  BY TypeInit, EventCountEmpty, SizeAssumption DEF Init, BufferBelowFlushMax
<1>2. TypeOK /\ BufferBelowFlushMax /\ [Next]_vars => (TypeOK /\ BufferBelowFlushMax)'
  BY TypeNext, BufferNext
<1> QED
  BY <1>1, <1>2, PTL DEF Spec

(* events_lost is never below the number of events given up.                 *)
THEOREM LossIsNeverUnderstated == Spec => []LossCounted
<1>1. Init => TypeOK /\ LossCounted
  BY TypeInit, EventCountEmpty DEF Init, LossCounted
<1>2. TypeOK /\ LossCounted /\ [Next]_vars => LossCounted'
  <2> SUFFICES ASSUME TypeOK, LossCounted, [Next]_vars PROVE LossCounted'
    OBVIOUS
  <2>1. ASSUME NEW w \in Worker, CountLoss(w) PROVE LossCounted'
    <3>1. Group(w) \in SUBSET Item /\ reported \in SUBSET Item /\ eventsLost \in Nat
      BY DEF Group, TypeOK
    <3>2. /\ EventCount(Group(w)) \in Nat /\ EventCount(reported) \in Nat
          /\ EventCount(reported \cup Group(w)) \in Nat
      BY <3>1, EventCountNat
    <3>3. EventCount(reported \cup Group(w)) <= EventCount(reported) + EventCount(Group(w))
      BY <3>1, EventCountUnion
    <3>4. /\ reported' = reported \cup Group(w)
          /\ eventsLost' = eventsLost + EventCount(Group(w))
      BY <2>1 DEF CountLoss
    <3>5. EventCount(reported)' = EventCount(reported')
      BY DEF EventCount, EventsIn
    <3>6. EventCount(reported) <= eventsLost
      BY DEF LossCounted
    <3> QED
      BY <3>1, <3>2, <3>3, <3>4, <3>5, <3>6 DEF LossCounted
  <2>2. ASSUME UNCHANGED <<reported, eventsLost>> PROVE LossCounted'
    BY <2>2 DEF LossCounted, EventCount, EventsIn
  <2>3. ASSUME NEW w \in Worker, Resume(w)
        PROVE  CountLoss(w) \/ UNCHANGED <<reported, eventsLost>>
    BY <2>3 DEF Resume, CountRows
  <2>4. ASSUME NEW w \in Worker,
               \/ Take(w) \/ Timeout(w) \/ Cancelled(w) \/ Commit(w)
               \/ Rollback(w) \/ Return(w) \/ FailLate(w) \/ OrphanEnds(w)
        PROVE  UNCHANGED <<reported, eventsLost>>
    BY <2>4 DEF Take, Timeout, Cancelled, Commit, Rollback, Return, FailLate,
       OrphanEnds, stats
  <2>5. ASSUME (\E i \in Item : Submit(i)) \/ Stop \/ Stopped \/ UNCHANGED vars
        PROVE  UNCHANGED <<reported, eventsLost>>
    BY <2>5 DEF Submit, Stop, Stopped, vars, stats
  <2> QED
    BY <2>1, <2>2, <2>3, <2>4, <2>5, NextCases
<1> QED
  BY <1>1, <1>2, TypeNext, PTL DEF Spec

-----------------------------------------------------------------------------
(* The inductive invariant behind written.  A drain writes groups again, so  *)
(* no sum over what was written bounds it; what does is whose each stored    *)
(* event is: counted already, or claimed by the one finished write whose     *)
(* rows are still to be counted.  A write claims what its commit adds, so no *)
(* event is ever claimed twice.                                              *)
Backs(claim, counted) ==
    /\ counted \subseteq EventsIn(stored) /\ Cardinality(counted) = written
    /\ \A w \in Worker :
          /\ claim[w] \subseteq EventsIn(stored) /\ claim[w] \cap counted = {}
          /\ wr[w] \in {"committed", "returned"} => Cardinality(claim[w]) = rows[w]
    /\ \A v, w \in Worker : v # w => claim[v] \cap claim[w] = {}

RowsAreClaimed ==
    \E claim \in [Worker -> SUBSET Event], counted \in SUBSET Event : Backs(claim, counted)

LEMMA ClaimsInit == Init => RowsAreClaimed
<1> SUFFICES ASSUME Init PROVE RowsAreClaimed
  OBVIOUS
<1> DEFINE none == [w \in Worker |-> {}]
<1>1. none \in [Worker -> SUBSET Event] /\ {} \in SUBSET Event
  OBVIOUS
<1>2. Backs(none, {})
  BY FS_EmptySet DEF Init, Backs
<1> QED
  BY <1>1, <1>2 DEF RowsAreClaimed

(* A step that stores no less, counts nothing and finishes no write leaves   *)
(* every claim where it is.                                                  *)
LEMMA ClaimsStay ==
    ASSUME RowsAreClaimed, stored \subseteq stored', written' = written,
           \A w \in Worker : wr'[w] \in {"committed", "returned"} =>
               wr[w] \in {"committed", "returned"} /\ rows'[w] = rows[w]
    PROVE  RowsAreClaimed'
<1>1. PICK claim \in [Worker -> SUBSET Event], counted \in SUBSET Event : Backs(claim, counted)
  BY DEF RowsAreClaimed
<1>2. EventsIn(stored) \subseteq EventsIn(stored)'
  BY DEF EventsIn
<1>3. Backs(claim, counted)'
  <2>1. (counted \subseteq EventsIn(stored) /\ Cardinality(counted) = written)'
    BY <1>1, <1>2 DEF Backs
  <2>2. ASSUME NEW w \in Worker
        PROVE  (/\ claim[w] \subseteq EventsIn(stored) /\ claim[w] \cap counted = {}
                /\ wr[w] \in {"committed", "returned"} => Cardinality(claim[w]) = rows[w])'
    BY <1>1, <1>2 DEF Backs
  <2>3. \A v, w \in Worker : v # w => claim[v] \cap claim[w] = {}
    BY <1>1 DEF Backs
  <2> QED
    BY <2>1, <2>2, <2>3 DEF Backs
<1> QED
  BY <1>3 DEF RowsAreClaimed

(* A commit claims the events it adds.                                       *)
LEMMA ClaimsCommit ==
    ASSUME TypeOK, RowsAreClaimed, NEW w \in Worker, Commit(w)
    PROVE  RowsAreClaimed'
<1>1. PICK claim \in [Worker -> SUBSET Event], counted \in SUBSET Event : Backs(claim, counted)
  BY DEF RowsAreClaimed
<1> DEFINE added == Group(w) \ stored
<1>2. added \in SUBSET Item /\ stored \in SUBSET Item
  BY DEF TypeOK, Group
<1>3. /\ stored' = stored \cup added /\ written' = written
      /\ wr' = [wr EXCEPT ![w] = "committed"]
      /\ rows' = [rows EXCEPT ![w] = EventCount(added)]
  BY DEF Commit, NewRows, stats
<1>4. wr \in [Worker -> {"idle", "begun", "committed", "returned", "raised"}] /\ rows \in [Worker -> Nat]
  BY DEF TypeOK
<1>5. EventsIn(stored)' = EventsIn(stored) \cup EventsIn(added)
  BY <1>3 DEF EventsIn
<1>6. EventsIn(added) \cap EventsIn(stored) = {}
  <2>1. \A i \in added, j \in stored : EventsOf[i] \cap EventsOf[j] = {}
    BY <1>2, ItemAssumption
  <2>2. SUFFICES ASSUME NEW e, e \in EventsIn(added), e \in EventsIn(stored) PROVE FALSE
    OBVIOUS
  <2>3. PICK i \in added : e \in EventsOf[i]
    BY <2>2 DEF EventsIn
  <2>4. PICK j \in stored : e \in EventsOf[j]
    BY <2>2 DEF EventsIn
  <2> QED
    BY <2>1, <2>3, <2>4
<1>7. EventsIn(added) \in SUBSET Event
  BY <1>2, ItemAssumption DEF EventsIn
<1>8. PICK claimed \in SUBSET Event : claimed = EventsIn(added)
  BY <1>7
<1>9. Cardinality(claimed) = EventCount(added)
  BY <1>8 DEF EventCount
<1> HIDE DEF added
<1>10. PICK next \in [Worker -> SUBSET Event] :
          next[w] = claimed /\ \A v \in Worker : v # w => next[v] = claim[v]
  <2> WITNESS [claim EXCEPT ![w] = claimed] \in [Worker -> SUBSET Event]
  <2> QED
    OBVIOUS
<1>11. Backs(next, counted)'
  <2>1. (counted \subseteq EventsIn(stored) /\ Cardinality(counted) = written)'
    BY <1>1, <1>3, <1>5 DEF Backs
  <2>2. ASSUME NEW v \in Worker
        PROVE  (/\ next[v] \subseteq EventsIn(stored) /\ next[v] \cap counted = {}
                /\ wr[v] \in {"committed", "returned"} => Cardinality(next[v]) = rows[v])'
    <3>1. CASE v = w
      <4>1. next[v] \subseteq EventsIn(stored)'
        BY <1>5, <1>8, <1>10, <3>1
      <4>2. next[v] \cap counted = {}
        BY <1>1, <1>6, <1>8, <1>10, <3>1 DEF Backs
      <4>3. Cardinality(next[v]) = rows'[v]
        BY <1>3, <1>4, <1>9, <1>10, <3>1
      <4> QED
        BY <4>1, <4>2, <4>3
    <3>2. CASE v # w
      <4>1. wr'[v] = wr[v] /\ rows'[v] = rows[v] /\ next[v] = claim[v]
        BY <1>3, <1>4, <1>10, <3>2
      <4>2. /\ claim[v] \subseteq EventsIn(stored) /\ claim[v] \cap counted = {}
            /\ wr[v] \in {"committed", "returned"} => Cardinality(claim[v]) = rows[v]
        BY <1>1 DEF Backs
      <4> QED
        BY <1>5, <4>1, <4>2
    <3> QED
      BY <3>1, <3>2
  <2>3. ASSUME NEW u \in Worker, NEW v \in Worker, u # v
        PROVE  next[u] \cap next[v] = {}
    <3>1. claim[u] \cap claim[v] = {} /\ claim[u] \subseteq EventsIn(stored) /\ claim[v] \subseteq EventsIn(stored)
      BY <1>1, <2>3 DEF Backs
    <3> QED
      BY <1>6, <1>8, <1>10, <2>3, <3>1
  <2> QED
    BY <2>1, <2>2, <2>3 DEF Backs
<1> QED
  BY <1>11 DEF RowsAreClaimed

(* Counting a returned write turns its claim into counted events.            *)
LEMMA ClaimsCount ==
    ASSUME TypeOK, RowsAreClaimed, NEW w \in Worker, Resume(w), wr[w] = "returned", CountRows(w)
    PROVE  RowsAreClaimed'
<1>1. PICK claim \in [Worker -> SUBSET Event], counted \in SUBSET Event : Backs(claim, counted)
  BY DEF RowsAreClaimed
<1>2. /\ stored' = stored /\ rows' = rows /\ written' = written + rows[w]
      /\ wr' = [wr EXCEPT ![w] = "begun"] \/ wr' = [wr EXCEPT ![w] = "idle"]
  BY DEF Resume, CountRows, BeginWrite
<1>3. wr \in [Worker -> {"idle", "begun", "committed", "returned", "raised"}]
  BY DEF TypeOK
<1>4. wr'[w] \notin {"committed", "returned"} /\ \A v \in Worker : v # w => wr'[v] = wr[v]
  BY <1>2, <1>3
<1>5. EventsIn(stored)' = EventsIn(stored)
  BY <1>2 DEF EventsIn
<1>6. claim[w] \cap counted = {} /\ Cardinality(claim[w]) = rows[w] /\ Cardinality(counted) = written
  BY <1>1 DEF Backs
<1>7. claim[w] \in SUBSET Event
  OBVIOUS
<1>8. IsFiniteSet(claim[w]) /\ IsFiniteSet(counted)
  BY <1>7, FS_Subset, ItemAssumption
<1>9. PICK sum \in SUBSET Event : sum = counted \cup claim[w]
  BY <1>7
<1>10. Cardinality(sum) = written'
  <2>1. Cardinality(counted \cup claim[w]) =
            Cardinality(counted) + Cardinality(claim[w]) - Cardinality(counted \cap claim[w])
    BY <1>8, FS_Union
  <2>2. counted \cap claim[w] = {}
    BY <1>6
  <2>3. Cardinality({}) = 0
    BY FS_EmptySet
  <2>4. rows[w] \in Nat /\ written \in Nat
    BY DEF TypeOK
  <2>5. counted \cap claim[w] = {} /\ sum = counted \cup claim[w]
    BY <1>9, <2>2
  <2>6. Cardinality(sum) = Cardinality(counted) + Cardinality(claim[w]) - Cardinality({})
    BY <2>1, <2>5, Zenon
  <2>7. Cardinality(sum) = written + rows[w] - 0
    BY <1>6, <2>3, <2>6, Zenon
  <2> QED
    BY <1>2, <2>4, <2>7
<1>11. PICK next \in [Worker -> SUBSET Event] :
          next[w] = {} /\ \A v \in Worker : v # w => next[v] = claim[v]
  <2> WITNESS [claim EXCEPT ![w] = {}] \in [Worker -> SUBSET Event]
  <2> QED
    OBVIOUS
<1>12. Backs(next, sum)'
  <2>1. (sum \subseteq EventsIn(stored) /\ Cardinality(sum) = written)'
    BY <1>1, <1>5, <1>9, <1>10 DEF Backs
  <2>2. ASSUME NEW v \in Worker
        PROVE  (/\ next[v] \subseteq EventsIn(stored) /\ next[v] \cap sum = {}
                /\ wr[v] \in {"committed", "returned"} => Cardinality(next[v]) = rows[v])'
    <3>1. CASE v = w
      BY <1>4, <1>11, <3>1
    <3>2. CASE v # w
      <4>1. /\ claim[v] \subseteq EventsIn(stored) /\ claim[v] \cap counted = {} /\ claim[v] \cap claim[w] = {}
            /\ wr[v] \in {"committed", "returned"} => Cardinality(claim[v]) = rows[v]
        BY <1>1, <3>2 DEF Backs
      <4> QED
        BY <1>2, <1>4, <1>5, <1>9, <1>11, <3>2, <4>1
    <3> QED
      BY <3>1, <3>2
  <2>3. ASSUME NEW u \in Worker, NEW v \in Worker, u # v
        PROVE  next[u] \cap next[v] = {}
    BY <1>1, <1>11, <2>3 DEF Backs
  <2> QED
    BY <2>1, <2>2, <2>3 DEF Backs
<1> QED
  BY <1>12 DEF RowsAreClaimed

LEMMA ClaimsNext == TypeOK /\ RowsAreClaimed /\ [Next]_vars => RowsAreClaimed'
<1> SUFFICES ASSUME TypeOK, RowsAreClaimed, [Next]_vars PROVE RowsAreClaimed'
  OBVIOUS
<1> DEFINE Finished(w) == wr[w] \in {"committed", "returned"}
           Stays == /\ stored \subseteq stored' /\ written' = written
                    /\ \A w \in Worker : Finished(w)' => Finished(w) /\ rows'[w] = rows[w]
<1>1. ASSUME Stays PROVE RowsAreClaimed'
  BY <1>1, ClaimsStay
<1>2. wr \in [Worker -> {"idle", "begun", "committed", "returned", "raised"}]
  BY DEF TypeOK
<1>3. ASSUME NEW w \in Worker, Resume(w) PROVE RowsAreClaimed'
  <2>1. CASE wr[w] = "returned" /\ CountRows(w)
    BY <1>3, <2>1, ClaimsCount
  <2>2. CASE wr[w] = "raised" /\ CountLoss(w)
    <3>1. stored' = stored /\ written' = written /\ rows' = rows
      BY <1>3, <2>2 DEF Resume, CountLoss
    <3>2. wr' = [wr EXCEPT ![w] = "begun"] \/ wr' = [wr EXCEPT ![w] = "idle"]
      BY <1>3 DEF Resume, BeginWrite
    <3> QED
      BY <1>1, <1>2, <3>1, <3>2
  <2> QED
    BY <1>3, <2>1, <2>2 DEF Resume
<1>4. ASSUME NEW w \in Worker, Take(w) \/ Timeout(w) PROVE Stays
  <2>1. wr' = wr \/ wr' = [wr EXCEPT ![w] = "begun"]
    BY <1>4 DEF Take, Timeout, BeginWrite
  <2>2. stored' = stored /\ written' = written /\ rows' = rows
    BY <1>4 DEF Take, Timeout, stats
  <2> QED
    BY <1>2, <2>1, <2>2
<1>5. ASSUME NEW w \in Worker, Cancelled(w) PROVE Stays
  <2>1. wr' = wr \/ wr' = [wr EXCEPT ![w] = "begun"] \/ wr' = [wr EXCEPT ![w] = "idle"]
    BY <1>5 DEF Cancelled, Drain, EndIdle, EndInTimer, BeginWrite
  <2>2. stored' = stored /\ written' = written /\ rows' = rows
    BY <1>5 DEF Cancelled, stats
  <2> QED
    BY <1>2, <2>1, <2>2
<1>6. ASSUME NEW w \in Worker, Rollback(w) \/ Return(w) \/ FailLate(w) PROVE Stays
  <2>1. \/ wr' = [wr EXCEPT ![w] = "raised"]
        \/ wr[w] = "committed" /\ wr' = [wr EXCEPT ![w] = "returned"]
    BY <1>6 DEF Rollback, Return, FailLate
  <2>2. stored' = stored /\ written' = written /\ rows' = rows
    BY <1>6 DEF Rollback, Return, FailLate, stats
  <2> QED
    BY <1>2, <2>1, <2>2
<1>7. ASSUME NEW w \in Worker, OrphanEnds(w) PROVE Stays
  BY <1>7 DEF OrphanEnds, stats
<1>8. ASSUME (\E i \in Item : Submit(i)) \/ Stop \/ Stopped \/ UNCHANGED vars PROVE Stays
  BY <1>8 DEF Submit, Stop, Stopped, vars, stats, threads
<1> HIDE DEF Stays
<1>9. ASSUME NEW w \in Worker, Commit(w) PROVE RowsAreClaimed'
  BY <1>9, ClaimsCommit
<1> QED
  BY <1>1, <1>3, <1>4, <1>5, <1>6, <1>7, <1>8, <1>9, NextCases

(* written is never above the number of events in the table, however often   *)
(* groups are written again (streaming.py, _flush and the drain).            *)
THEOREM WrittenIsBacked == Spec => []WrittenBacked
<1>1. TypeOK /\ RowsAreClaimed => WrittenBacked
  <2> SUFFICES ASSUME TypeOK, RowsAreClaimed PROVE WrittenBacked
    OBVIOUS
  <2>1. PICK counted \in SUBSET Event :
            counted \subseteq EventsIn(stored) /\ Cardinality(counted) = written
    BY DEF RowsAreClaimed, Backs
  <2>2. IsFiniteSet(EventsIn(stored)) /\ counted \in SUBSET EventsIn(stored)
    BY <2>1, EventCountNat DEF TypeOK
  <2>3. Cardinality(counted) <= Cardinality(EventsIn(stored))
    BY <2>2, FS_Subset
  <2> QED
    BY <2>1, <2>3 DEF WrittenBacked, EventCount
<1> QED
  BY <1>1, TypeInit, TypeNext, ClaimsInit, ClaimsNext, PTL DEF Spec

-----------------------------------------------------------------------------
(* Every step of the queue is a step of the abstract delivery or a stutter.  *)
LEMMA DeliveryStep ==
    TypeOK /\ BooksInv /\ [Next]_vars => [Delivery!Next]_Delivery!vars
<1> SUFFICES ASSUME TypeOK, BooksInv, [Next]_vars
             PROVE  [Delivery!Next]_Delivery!vars
  OBVIOUS
<1> USE DEF Delivery!Next, Delivery!vars
<1>1. ASSUME NEW i \in Item, Submit(i) PROVE Delivery!Next
  BY <1>1 DEF Submit, Enqueue, Drop, threads, stats, Delivery!Accept, Delivery!Refuse
<1>2. ASSUME NEW w \in Worker, Resume(w) PROVE [Delivery!Next]_Delivery!vars
  <2>1. Group(w) \in SUBSET accepted
    BY DEF Group, BooksInv, HeldIsAccepted
  <2>2. CASE CountLoss(w)
    BY <1>2, <2>1, <2>2 DEF Resume, CountLoss, offers, Delivery!Report
  <2>3. CASE CountRows(w)
    BY <1>2, <2>3 DEF Resume, CountRows, offers
  <2> QED
    BY <1>2, <2>2, <2>3 DEF Resume
<1>3. ASSUME NEW w \in Worker, Commit(w) PROVE Delivery!Next
  <2>1. Group(w) \in SUBSET accepted
    BY DEF Group, BooksInv, HeldIsAccepted
  <2> QED
    BY <1>3, <2>1 DEF Commit, stats, offers, Delivery!Store
<1>4. ASSUME NEW w \in Worker, OrphanEnds(w) PROVE [Delivery!Next]_Delivery!vars
  <2>1. orphan[w] \in SUBSET accepted
    BY DEF BooksInv, HeldIsAccepted
  <2> QED
    BY <1>4, <2>1 DEF OrphanEnds, stats, offers, Delivery!Store
<1>5. ASSUME NEW w \in Worker,
             \/ Take(w) \/ Timeout(w) \/ Cancelled(w)
             \/ Rollback(w) \/ Return(w) \/ FailLate(w)
      PROVE  UNCHANGED Delivery!vars
  BY <1>5 DEF Take, Timeout, Cancelled, Rollback, Return, FailLate, stats, offers
<1>6. CASE Stop
  BY <1>6 DEF Stop, threads, stats, offers, Delivery!Close
<1>7. CASE Stopped \/ UNCHANGED vars
  BY <1>7 DEF Stopped, vars, threads, stats, offers
<1> QED
  BY <1>1, <1>2, <1>3, <1>4, <1>5, <1>6, <1>7, NextCases

(* The queue implements the abstract delivery: nothing refused or invented   *)
(* is ever stored or counted, and a fate is never taken back.                *)
THEOREM QueueImplementsDelivery == Spec => ImplementsDelivery
<1>1. Init => Delivery!Init
  BY DEF Init, Delivery!Init
<1>2. Init => TypeOK /\ BooksInv
  BY TypeInit, BooksInit
<1>3. TypeOK /\ BooksInv /\ [Next]_vars => (TypeOK /\ BooksInv)'
  BY TypeNext, BooksNext
<1> QED
  BY <1>1, <1>2, <1>3, DeliveryStep, PTL DEF Spec, ImplementsDelivery, Delivery!Spec

(* All that holds of the queue at every step, together (streaming.py, the   *)
(* workers with their pool threads and stop()).                             *)
THEOREM QueueIsSafe == Spec => []QueueSafety
BY TypeCorrect, NothingLostSilently, EveryItemHasOneHolder, BuffersAreBounded, LossIsNeverUnderstated, PTL DEF QueueSafety

-----------------------------------------------------------------------------
(***************************************************************************)
(* The HEC requests (HecEndpoint).                                         *)
(*                                                                         *)
(* A body that was posted twice at most, the second time after the first   *)
(* request was answered, and under no death: the first request finds and   *)
(* leaves each of its batches untouched or stored under one time, the time *)
(* that the second request then finds.  A line stands for one event of one *)
(* batch of one body.                                                      *)
(***************************************************************************)
LEMMA LeastOf ==
  ASSUME NEW T \in SUBSET Nat, T # {}
  PROVE  \E x \in T : \A y \in T : x <= y
<1> DEFINE R == OpToRel(<, Nat)
<1>1. IsWellFoundedOn(R, Nat)
  BY NatLessThanWellFounded
<1> HIDE DEF R
<1>2. PICK x \in T : \A y \in T : ~(<<y, x>> \in R)
  BY <1>1, WFMin
<1>3. \A y \in T : <<y, x>> \in R <=> y < x
  BY DEF R, OpToRel
<1>4. \A y \in T : ~(y < x)
  BY <1>2, <1>3
<1> QED
  BY <1>4

LEMMA ThreeCount ==
  ASSUME NEW x, NEW y, NEW z, x # y, y # z, x # z
  PROVE  Cardinality({x, y, z}) = 3
<1>1. IsFiniteSet({x}) /\ Cardinality({x}) = 1
  BY FS_Singleton
<1>2. IsFiniteSet({x} \cup {y}) /\ Cardinality({x} \cup {y}) = 2
  BY <1>1, FS_AddElement
<1>3. Cardinality(({x} \cup {y}) \cup {z}) = 3
  BY <1>2, FS_AddElement
<1>4. ({x} \cup {y}) \cup {z} = {x, y, z}
  OBVIOUS
<1> QED
  BY <1>3, <1>4

LinesAreApart ==
    \A b, c \in DOMAIN Bodies : \A g \in DOMAIN Bodies[b].groups, h \in DOMAIN Bodies[c].groups :
        LinesOf(Bodies[b].groups[g]) \cap LinesOf(Bodies[c].groups[h]) # {} => b = c /\ g = h

PostSet ==
    [body : DOMAIN Bodies, at : {"admit", "look", "write", "mark", "answered", "dead"},
     group : Nat, uploaded : Nat, fallback : Nat, answer : Int]
Rows == [line : UNION {LinesOfBody(b) : b \in DOMAIN Bodies}, time : Nat]

Batch(b, g) == Bodies[b].groups[g]
TimesIn(stock, l) == {r.time : r \in {s \in stock : s.line = l}}
TimesDone(done, batch) == {x.time : x \in {y \in done : y.lines = batch}}
Untouched(stock, done, b, g, l) == TimesIn(stock, l) = {} /\ TimesDone(done, Batch(b, g)) = {}
Settled(stock, done, b, g, l) ==
    Untouched(stock, done, b, g, l) \/ \E t \in Nat : TimesIn(stock, l) \subseteq {t} /\ TimesDone(done, Batch(b, g)) = {t}

PostTyped(p) ==
    /\ p.at \in {"look", "write", "mark"} => p.group \in DOMAIN Bodies[p.body].groups
    /\ p.at = "admit" => p.group = 1

HecTyped ==
    /\ posts \in Seq(PostSet) /\ \A i \in DOMAIN posts : PostTyped(posts[i]) /\ posts[i].uploaded <= now
    /\ now \in Nat /\ told = [b \in DOMAIN Bodies |-> told[b]]
    /\ eventRows \in SUBSET Rows /\ \A x \in batches : x.time \in 0 .. now

\* Past admission, and not refused.
TookIn(p) == p.at \in {"look", "write", "mark", "dead"} \/ (p.at = "answered" /\ p.answer \in {0, 8})

RowsHaveSource ==
    /\ \A r \in eventRows : \E i \in DOMAIN posts : r.line \in LinesOfBody(posts[i].body) /\ TookIn(posts[i])
    /\ \A r \in eventRows : r.line \in Dated => r.time = 0
    /\ \A x \in batches : \E i \in DOMAIN posts : \E g \in DOMAIN Bodies[posts[i].body].groups : x.lines = Batch(posts[i].body, g)

\* How far the request has got.
WrittenTo(p, lines) ==
    /\ p.at \in {"look", "write"} => \A g \in DOMAIN Bodies[p.body].groups : g < p.group => LinesOf(Batch(p.body, g)) \subseteq lines
    /\ p.at = "mark" => \A g \in DOMAIN Bodies[p.body].groups : g <= p.group => LinesOf(Batch(p.body, g)) \subseteq lines
    /\ p.at = "answered" /\ p.answer = 0 => LinesOfBody(p.body) \subseteq lines

Quiet(b) ==
    /\ b \notin overlapped \cup broken
    /\ \A i, j, k \in Sent(b) : i = j \/ j = k \/ i = k

OneAfterOther(b) ==
    /\ b \notin broken => \A i \in Sent(b) : posts[i].at # "dead"
    /\ b \notin overlapped \cup broken => \A i, j \in Sent(b) : i < j => i \notin Running

Ahead(p, g) == (p.at \in {"admit", "look"} /\ g >= p.group) \/ (p.at \in {"write", "mark"} /\ g > p.group)
Behind(p, g) == p.at = "answered" \/ (p.at \in {"look", "write", "mark"} /\ g < p.group)
Amid(p, g, at) == p.at = at /\ g = p.group

Place(i) ==
    IF Sent(posts[i].body) = {i} THEN "only"
    ELSE IF \A k \in Sent(posts[i].body) : i <= k THEN "first" ELSE "later"

Holds(p, place, stock, done) ==
    \A g \in DOMAIN Bodies[p.body].groups : \A l \in LinesOf(Batch(p.body, g)) \ Dated :
        /\ place # "later" /\ (Ahead(p, g) \/ Amid(p, g, "write")) => Untouched(stock, done, p.body, g, l)
        /\ place # "later" /\ (Amid(p, g, "write") \/ Amid(p, g, "mark")) => p.fallback = p.uploaded
        /\ place # "later" /\ Amid(p, g, "mark") => TimesDone(done, Batch(p.body, g)) = {}
        /\ place = "only" /\ Behind(p, g) => Settled(stock, done, p.body, g, l)
        /\ place = "later" /\ Ahead(p, g) => Settled(stock, done, p.body, g, l)
        /\ (Amid(p, g, "write") \/ Amid(p, g, "mark")) => TimesIn(stock, l) \subseteq {p.fallback}

PostHolds(i) == Quiet(posts[i].body) => Holds(posts[i], Place(i), eventRows, batches)

OneTime ==
    \A b \in DOMAIN Bodies : Quiet(b) =>
        \A g \in DOMAIN Bodies[b].groups : \A l \in LinesOf(Batch(b, g)) \ Dated :
            \A t, u \in TimesIn(eventRows, l) : t = u

HecInv ==
    /\ HecTyped /\ RowsHaveSource
    /\ \A i \in DOMAIN posts : WrittenTo(posts[i], RowLines) /\ PostHolds(i)
    /\ \A b \in DOMAIN Bodies : (told[b] = 0 => LinesOfBody(b) \subseteq RowLines) /\ OneAfterOther(b)
    /\ OneTime

LEMMA GroupsTyped ==
  ASSUME NEW b \in DOMAIN Bodies
  PROVE  /\ Len(Bodies[b].groups) \in Nat /\ DOMAIN Bodies[b].groups = 1 .. Len(Bodies[b].groups)
         /\ Bodies[b].groups # <<>> => Len(Bodies[b].groups) >= 1
<1>1. Bodies[b].groups \in Seq({Bodies[b].groups[g] : g \in DOMAIN Bodies[b].groups})
  BY HecAssumption
<1> DEFINE s == Bodies[b].groups
           T == {Bodies[b].groups[g] : g \in DOMAIN Bodies[b].groups}
<1>2. s \in Seq(T)
  BY <1>1
<1> HIDE DEF s, T
<1>3. Len(s) \in Nat /\ DOMAIN s = 1 .. Len(s) /\ (s # <<>> => Len(s) >= 1)
  BY <1>2
<1> QED
  BY <1>3 DEF s

(* What one batch adds does not touch the lines of another.                *)
LEMMA BatchesApart ==
  ASSUME LinesAreApart, NEW b \in DOMAIN Bodies, NEW g \in DOMAIN Bodies[b].groups, NEW l \in LinesOf(Batch(b, g)),
         NEW c \in DOMAIN Bodies, NEW h \in DOMAIN Bodies[c].groups, ~(b = c /\ g = h)
  PROVE  l \notin LinesOf(Batch(c, h)) /\ Batch(b, g) # Batch(c, h)
<1>1. LinesOf(Batch(b, g)) \cap LinesOf(Batch(c, h)) = {}
  BY DEF LinesAreApart, Batch
<1> QED
  BY <1>1

LEMMA TimesKept ==
  ASSUME NEW stock, NEW rows2, stock \subseteq rows2, NEW l, NEW lines, l \notin lines,
         \A r \in rows2 : r \in stock \/ r.line \in lines
  PROVE  TimesIn(rows2, l) = TimesIn(stock, l)
<1>1. {s \in rows2 : s.line = l} = {s \in stock : s.line = l}
  OBVIOUS
<1> QED
  BY <1>1 DEF TimesIn

LEMMA HoldsAdmitted ==
  ASSUME NEW p \in PostSet, p.at = "admit", p.group = 1, NEW place, NEW stock, NEW done, Holds(p, place, stock, done),
         NEW nxt \in PostSet, nxt.body = p.body, (nxt.at = "look" /\ nxt.group = 1) \/ nxt.at = "answered"
  PROVE  Holds(nxt, place, stock, done)
<1> SUFFICES ASSUME NEW g \in DOMAIN Bodies[p.body].groups, NEW l \in LinesOf(Batch(p.body, g)) \ Dated
             PROVE  /\ place # "later" /\ Ahead(nxt, g) => Untouched(stock, done, p.body, g, l)
                    /\ place = "only" => Settled(stock, done, p.body, g, l)
                    /\ place = "later" /\ Ahead(nxt, g) => Settled(stock, done, p.body, g, l)
                    /\ ~Amid(nxt, g, "write") /\ ~Amid(nxt, g, "mark")
  BY DEF Holds
<1>1. p.body \in DOMAIN Bodies
  BY DEF PostSet
<1>2. g \in Nat /\ g >= 1
  BY <1>1, GroupsTyped
<1>3. Ahead(p, g)
  BY <1>2 DEF Ahead
<1>4. place # "later" => Untouched(stock, done, p.body, g, l)
  BY <1>3 DEF Holds
<1>5. place = "later" => Settled(stock, done, p.body, g, l)
  BY <1>3 DEF Holds
<1>6. ~Amid(nxt, g, "write") /\ ~Amid(nxt, g, "mark")
  BY DEF Amid
<1> QED
  BY <1>4, <1>5, <1>6 DEF Settled

LEMMA HoldsLooked ==
  ASSUME NEW p \in PostSet, p.at = "look", NEW place, NEW stock, NEW done, Holds(p, place, stock, done),
         NEW nxt \in PostSet, nxt.body = p.body, nxt.at = "write", nxt.group = p.group,
         TimesDone(done, Batch(p.body, p.group)) = {} => nxt.fallback = nxt.uploaded,
         \A t \in Nat : TimesDone(done, Batch(p.body, p.group)) = {t} => nxt.fallback = t
  PROVE  Holds(nxt, place, stock, done)
<1> SUFFICES ASSUME NEW g \in DOMAIN Bodies[p.body].groups, NEW l \in LinesOf(Batch(p.body, g)) \ Dated
             PROVE  /\ place # "later" /\ (Ahead(nxt, g) \/ Amid(nxt, g, "write")) => Untouched(stock, done, p.body, g, l)
                    /\ place # "later" /\ (Amid(nxt, g, "write") \/ Amid(nxt, g, "mark")) => nxt.fallback = nxt.uploaded
                    /\ place # "later" /\ Amid(nxt, g, "mark") => TimesDone(done, Batch(p.body, g)) = {}
                    /\ place = "only" /\ Behind(nxt, g) => Settled(stock, done, p.body, g, l)
                    /\ place = "later" /\ Ahead(nxt, g) => Settled(stock, done, p.body, g, l)
                    /\ (Amid(nxt, g, "write") \/ Amid(nxt, g, "mark")) => TimesIn(stock, l) \subseteq {nxt.fallback}
  BY DEF Holds
<1>1. g \in Nat /\ p.group \in Nat
  BY GroupsTyped DEF PostSet
<1>2. /\ Ahead(nxt, g) => Ahead(p, g)
      /\ Amid(nxt, g, "write") => Ahead(p, g)
      /\ ~Amid(nxt, g, "mark")
      /\ Behind(nxt, g) => Behind(p, g)
  BY <1>1 DEF Ahead, Amid, Behind
<1>3. /\ place # "later" /\ Ahead(p, g) => Untouched(stock, done, p.body, g, l)
      /\ place = "only" /\ Behind(p, g) => Settled(stock, done, p.body, g, l)
      /\ place = "later" /\ Ahead(p, g) => Settled(stock, done, p.body, g, l)
  BY DEF Holds
<1>4. ASSUME Amid(nxt, g, "write")
      PROVE  (place # "later" => nxt.fallback = nxt.uploaded) /\ TimesIn(stock, l) \subseteq {nxt.fallback}
  <2>1. g = p.group /\ Ahead(p, g)
    BY <1>2, <1>4 DEF Amid
  <2>2. CASE place # "later"
    BY <2>1, <2>2, <1>3 DEF Untouched
  <2>3. CASE place = "later"
    <3>1. Settled(stock, done, p.body, g, l)
      BY <2>1, <2>3, <1>3
    <3> QED
      BY <2>1, <2>3, <3>1 DEF Settled, Untouched
  <2> QED
    BY <2>2, <2>3
<1> QED
  BY <1>2, <1>3, <1>4

LEMMA HoldsWritten ==
  ASSUME LinesAreApart, NEW p \in PostSet, p.at = "write", p.group \in DOMAIN Bodies[p.body].groups,
         NEW place, NEW stock, NEW done, Holds(p, place, stock, done),
         NEW nxt \in PostSet, nxt.body = p.body, nxt.at = "mark", nxt.group = p.group, nxt.fallback = p.fallback, nxt.uploaded = p.uploaded,
         NEW rows2, stock \subseteq rows2,
         \A r \in rows2 : r \in stock \/ (r.line \in LinesOf(Batch(p.body, p.group)) /\ (r.line \notin Dated => r.time = p.fallback))
  PROVE  /\ Holds(nxt, place, rows2, done)
         /\ \A l \in LinesOf(Batch(p.body, p.group)) \ Dated : TimesIn(rows2, l) \subseteq {p.fallback}
<1>b. p.body \in DOMAIN Bodies /\ p.group \in Nat
  BY DEF PostSet
<1>r. \A r \in rows2 : r \in stock \/ r.line \in LinesOf(Batch(p.body, p.group))
  OBVIOUS
<1>o. \A l \in LinesOf(Batch(p.body, p.group)) \ Dated : TimesIn(rows2, l) \subseteq {p.fallback}
  <2> SUFFICES ASSUME NEW l \in LinesOf(Batch(p.body, p.group)) \ Dated, NEW r \in rows2, r.line = l PROVE r.time = p.fallback
    BY DEF TimesIn
  <2>1. Amid(p, p.group, "write")
    BY DEF Amid
  <2>2. TimesIn(stock, l) \subseteq {p.fallback}
    BY <2>1 DEF Holds
  <2>3. CASE r \in stock
    BY <2>2, <2>3 DEF TimesIn
  <2>4. CASE r \notin stock
    BY <2>4
  <2> QED
    BY <2>3, <2>4
<1> SUFFICES ASSUME NEW g \in DOMAIN Bodies[p.body].groups, NEW l \in LinesOf(Batch(p.body, g)) \ Dated
             PROVE  /\ place # "later" /\ (Ahead(nxt, g) \/ Amid(nxt, g, "write")) => Untouched(rows2, done, p.body, g, l)
                    /\ place # "later" /\ (Amid(nxt, g, "write") \/ Amid(nxt, g, "mark")) => nxt.fallback = nxt.uploaded
                    /\ place # "later" /\ Amid(nxt, g, "mark") => TimesDone(done, Batch(p.body, g)) = {}
                    /\ place = "only" /\ Behind(nxt, g) => Settled(rows2, done, p.body, g, l)
                    /\ place = "later" /\ Ahead(nxt, g) => Settled(rows2, done, p.body, g, l)
                    /\ (Amid(nxt, g, "write") \/ Amid(nxt, g, "mark")) => TimesIn(rows2, l) \subseteq {nxt.fallback}
  BY <1>o DEF Holds
<1>1. g \in Nat
  BY <1>b, GroupsTyped
<1>2. CASE g = p.group
  <2>1. ~Ahead(nxt, g) /\ ~Behind(nxt, g) /\ ~Amid(nxt, g, "write") /\ Amid(p, g, "write")
    BY <1>b, <1>1, <1>2 DEF Ahead, Behind, Amid
  <2>2. /\ place # "later" => p.fallback = p.uploaded /\ Untouched(stock, done, p.body, g, l)
    BY <2>1 DEF Holds
  <2> QED
    BY <2>1, <2>2, <1>2, <1>o DEF Untouched
<1>3. CASE g # p.group
  <2>a. l \notin LinesOf(Batch(p.body, p.group))
    BY <1>b, <1>3, BatchesApart
  <2>1. TimesIn(rows2, l) = TimesIn(stock, l)
    BY <1>r, <2>a, TimesKept
  <2>2. ~Amid(nxt, g, "write") /\ ~Amid(nxt, g, "mark") /\ (Ahead(nxt, g) => Ahead(p, g)) /\ (Behind(nxt, g) => Behind(p, g))
    BY <1>3 DEF Ahead, Behind, Amid
  <2>3. /\ place # "later" /\ Ahead(p, g) => Untouched(stock, done, p.body, g, l)
        /\ place = "only" /\ Behind(p, g) => Settled(stock, done, p.body, g, l)
        /\ place = "later" /\ Ahead(p, g) => Settled(stock, done, p.body, g, l)
    BY DEF Holds
  <2> QED
    BY <2>1, <2>2, <2>3 DEF Settled, Untouched
<1> QED
  BY <1>2, <1>3

LEMMA HoldsMarked ==
  ASSUME LinesAreApart, NEW p \in PostSet, p.at = "mark", p.group \in DOMAIN Bodies[p.body].groups,
         NEW place, NEW stock, NEW done, Holds(p, place, stock, done),
         NEW nxt \in PostSet, nxt.body = p.body, (nxt.at = "look" /\ nxt.group = p.group + 1)
                                               \/ (nxt.at = "answered" /\ p.group = Len(Bodies[p.body].groups)),
         NEW done2, done2 = done \cup {[lines |-> Batch(p.body, p.group), time |-> p.uploaded]}
  PROVE  Holds(nxt, place, stock, done2)
<1>b. p.body \in DOMAIN Bodies /\ p.group \in Nat /\ p.uploaded \in Nat
  BY DEF PostSet
<1> SUFFICES ASSUME NEW g \in DOMAIN Bodies[p.body].groups, NEW l \in LinesOf(Batch(p.body, g)) \ Dated
             PROVE  /\ place # "later" /\ Ahead(nxt, g) => Untouched(stock, done2, p.body, g, l)
                    /\ place = "only" /\ Behind(nxt, g) => Settled(stock, done2, p.body, g, l)
                    /\ place = "later" /\ Ahead(nxt, g) => Settled(stock, done2, p.body, g, l)
                    /\ ~Amid(nxt, g, "write") /\ ~Amid(nxt, g, "mark")
  BY DEF Holds
<1>1. g \in Nat /\ g <= Len(Bodies[p.body].groups) /\ Len(Bodies[p.body].groups) \in Nat
  BY <1>b, GroupsTyped
<1>2. ~Amid(nxt, g, "write") /\ ~Amid(nxt, g, "mark")
  BY DEF Amid
<1>3. CASE g = p.group
  <2>1. ~Ahead(nxt, g) /\ Amid(p, g, "mark")
    BY <1>b, <1>1, <1>3 DEF Ahead, Amid
  <2>2. ASSUME place = "only" PROVE Settled(stock, done2, p.body, g, l)
    <3>1. p.fallback = p.uploaded /\ TimesDone(done, Batch(p.body, g)) = {} /\ TimesIn(stock, l) \subseteq {p.fallback}
      BY <2>1, <2>2 DEF Holds
    <3> DEFINE x0 == [lines |-> Batch(p.body, p.group), time |-> p.uploaded]
    <3>2. {y \in done2 : y.lines = Batch(p.body, g)} = {y \in done : y.lines = Batch(p.body, g)} \cup {x0}
      BY <1>3
    <3>3. TimesDone(done2, Batch(p.body, g)) = {p.uploaded}
      <4>1. x0.time = p.uploaded
        OBVIOUS
      <4>2. {x.time : x \in {y \in done : y.lines = Batch(p.body, g)}} = {}
        BY <3>1 DEF TimesDone
      <4> HIDE DEF x0
      <4>3. {x.time : x \in {y \in done : y.lines = Batch(p.body, g)} \cup {x0}} = {p.uploaded}
        BY <4>1, <4>2
      <4> QED
        BY <3>2, <4>3 DEF TimesDone
    <3>4. TimesIn(stock, l) \subseteq {p.uploaded}
      BY <3>1
    <3> QED
      BY <3>3, <3>4, <1>b DEF Settled
  <2> QED
    BY <1>2, <2>1, <2>2
<1>4. CASE g # p.group
  <2>1. TimesDone(done2, Batch(p.body, g)) = TimesDone(done, Batch(p.body, g))
    <3>1. \A x \in done2 : x \in done \/ x.lines = Batch(p.body, p.group)
      OBVIOUS
    <3>2. Batch(p.body, g) # Batch(p.body, p.group)
      BY <1>b, <1>4, BatchesApart
    <3> QED
      <4>1. {y \in done2 : y.lines = Batch(p.body, g)} = {y \in done : y.lines = Batch(p.body, g)}
        BY <3>1, <3>2
      <4> QED
        BY <4>1 DEF TimesDone
  <2>2. (Ahead(nxt, g) => Ahead(p, g)) /\ (Behind(nxt, g) => Behind(p, g))
    BY <1>b, <1>1, <1>4 DEF Ahead, Behind
  <2>3. /\ place # "later" /\ Ahead(p, g) => Untouched(stock, done, p.body, g, l)
        /\ place = "only" /\ Behind(p, g) => Settled(stock, done, p.body, g, l)
        /\ place = "later" /\ Ahead(p, g) => Settled(stock, done, p.body, g, l)
    BY DEF Holds
  <2> QED
    BY <1>2, <2>1, <2>2, <2>3 DEF Settled, Untouched
<1> QED
  BY <1>3, <1>4

LEMMA HoldsFailed ==
  ASSUME NEW p \in PostSet, p.at \in {"look", "write"}, NEW place, NEW stock, NEW done, Holds(p, place, stock, done),
         NEW nxt \in PostSet, nxt.body = p.body, nxt.at = "answered"
  PROVE  Holds(nxt, place, stock, done)
<1>b. p.body \in DOMAIN Bodies /\ p.group \in Nat
  BY DEF PostSet
<1> SUFFICES ASSUME NEW g \in DOMAIN Bodies[p.body].groups, NEW l \in LinesOf(Batch(p.body, g)) \ Dated
             PROVE  /\ ~Ahead(nxt, g)
                    /\ place = "only" => Settled(stock, done, p.body, g, l)
                    /\ ~Amid(nxt, g, "write") /\ ~Amid(nxt, g, "mark")
  BY DEF Holds
<1>1. g \in Nat
  BY <1>b, GroupsTyped
<1>2. ~Ahead(nxt, g) /\ ~Amid(nxt, g, "write") /\ ~Amid(nxt, g, "mark")
  BY DEF Ahead, Amid
<1>3. Ahead(p, g) \/ Amid(p, g, "write") \/ Behind(p, g)
  BY <1>b, <1>1 DEF Ahead, Amid, Behind
<1>4. /\ place # "later" /\ (Ahead(p, g) \/ Amid(p, g, "write")) => Untouched(stock, done, p.body, g, l)
      /\ place = "only" /\ Behind(p, g) => Settled(stock, done, p.body, g, l)
  BY DEF Holds
<1> QED
  BY <1>2, <1>3, <1>4 DEF Settled

LEMMA NewestTime ==
  ASSUME now \in Nat, NEW same, \A x \in same : x.time \in 0 .. now
  PROVE  /\ FallbackOf(same) \in Nat
         /\ same = {} => FallbackOf(same) = now
         /\ \A t : {x.time : x \in same} = {t} => FallbackOf(same) = t
<1>1. CASE same = {}
  BY <1>1 DEF FallbackOf
<1>2. CASE same # {}
  <2> DEFINE kept == {now - x.time : x \in same}
             newest == CHOOSE x \in same : \A y \in same : x.time >= y.time
  <2>1. kept \in SUBSET Nat /\ kept # {}
    BY <1>2
  <2>2. PICK d \in kept : \A e \in kept : d <= e
    <3> HIDE DEF kept
    <3> QED
      BY <2>1, LeastOf
  <2>3. PICK x \in same : d = now - x.time
    BY <2>2
  <2>4. \A y \in same : x.time >= y.time
    <3> SUFFICES ASSUME NEW y \in same PROVE x.time >= y.time
      OBVIOUS
    <3>1. now - y.time \in kept
      OBVIOUS
    <3>2. d <= now - y.time
      BY <2>2, <3>1
    <3> QED
      BY <2>3, <3>2
  <2>5. newest \in same
    BY <2>4
  <2>6. FallbackOf(same) = newest.time
    BY <1>2 DEF FallbackOf
  <2> HIDE DEF newest, kept
  <2> QED
    BY <1>2, <2>5, <2>6
<1> QED
  BY <1>1, <1>2

-----------------------------------------------------------------------------
(* A request moves on; the other requests and bodies keep what they had.   *)
LEMMA PostsStep ==
  ASSUME NEW s \in Seq(PostSet), NEW k \in DOMAIN s, NEW p \in PostSet
  PROVE  /\ [s EXCEPT ![k] = p] \in Seq(PostSet) /\ DOMAIN [s EXCEPT ![k] = p] = DOMAIN s
         /\ [s EXCEPT ![k] = p][k] = p /\ \A i \in DOMAIN s : i # k => [s EXCEPT ![k] = p][i] = s[i]
<1>1. Len(s) \in Nat /\ DOMAIN s = 1 .. Len(s) /\ \A i \in 1 .. Len(s) : s[i] \in PostSet
  OBVIOUS
<1> QED
  BY <1>1

LEMMA RequestStep ==
  ASSUME HecInv, LinesAreApart, NEW k \in DOMAIN posts, k \in Running, NEW p \in PostSet, posts' = [posts EXCEPT ![k] = p],
         p.body = posts[k].body, PostTyped(p), p.at # "dead", TookIn(posts[k]) => TookIn(p),
         now' \in Nat, now' >= now, p.uploaded <= now', UNCHANGED <<told, overlapped, broken>>,
         eventRows \subseteq eventRows', eventRows' \in SUBSET Rows,
         batches \subseteq batches', \A x \in batches' : x.time \in 0 .. now',
         \/ UNCHANGED <<eventRows, batches>>
         \/ /\ posts[k].group \in DOMAIN Bodies[p.body].groups
            /\ \A r \in eventRows' : r \in eventRows \/ (TookIn(p) /\ r.line \in LinesOf(Batch(p.body, posts[k].group))
                                                           /\ (r.line \in Dated => r.time = 0))
            /\ \A x \in batches' : x \in batches \/ x.lines = Batch(p.body, posts[k].group),
         WrittenTo(p, RowLines'),
         Quiet(p.body) => Holds(p, Place(k), eventRows', batches'),
         UNCHANGED eventRows \/ (Quiet(p.body) => \A l \in LinesOf(Batch(p.body, posts[k].group)) \ Dated :
                                                        \E t : TimesIn(eventRows', l) \subseteq {t})
  PROVE  HecInv'
<1>t. HecTyped /\ posts \in Seq(PostSet) /\ RowsHaveSource
  BY DEF HecInv, HecTyped
<1>1. /\ posts' \in Seq(PostSet) /\ DOMAIN posts' = DOMAIN posts /\ posts'[k] = p
      /\ \A i \in DOMAIN posts : i # k => posts'[i] = posts[i]
  BY <1>t, PostsStep
<1>b. p.body \in DOMAIN Bodies /\ \A i \in DOMAIN posts : posts[i].body \in DOMAIN Bodies
  <2>1. \A i \in DOMAIN posts : posts[i] \in PostSet
    BY <1>t
  <2> QED
    BY <2>1 DEF PostSet
<1>2. \A b : Sent(b)' = Sent(b)
  BY <1>1 DEF Sent
<1>3. \A i \in DOMAIN posts : Place(i)' = Place(i) /\ posts'[i].body = posts[i].body
  BY <1>1, <1>2 DEF Place
<1>4. \A b : Quiet(b)' = Quiet(b)
  BY <1>2 DEF Quiet
<1>5. HecTyped'
  <2>1. ASSUME NEW i \in DOMAIN posts' PROVE PostTyped(posts'[i]) /\ posts'[i].uploaded <= now'
    <3>1. CASE i = k
      BY <3>1, <1>1
    <3>2. CASE i # k
      <4>1. i \in DOMAIN posts /\ posts'[i] = posts[i] /\ posts[i] \in PostSet
        BY <3>2, <1>1, <1>t
      <4>2. PostTyped(posts[i]) /\ posts[i].uploaded <= now /\ posts[i].uploaded \in Nat /\ now \in Nat
        BY <4>1, <1>t DEF HecTyped, PostSet
      <4> QED
        BY <4>1, <4>2
    <3> QED
      BY <3>1, <3>2
  <2> QED
    BY <1>1, <1>t, <2>1 DEF HecTyped
<1>6. RowsHaveSource'
  <2>1. ASSUME NEW r \in eventRows' PROVE \E i \in DOMAIN posts' : r.line \in LinesOfBody(posts'[i].body) /\ TookIn(posts'[i])
    <3>1. CASE r \in eventRows
      <4>1. PICK i \in DOMAIN posts : r.line \in LinesOfBody(posts[i].body) /\ TookIn(posts[i])
        BY <3>1, <1>t DEF RowsHaveSource
      <4>2. i = k \/ posts'[i] = posts[i]
        BY <1>1
      <4> QED
        BY <4>1, <4>2, <1>1
    <3>2. CASE r \notin eventRows
      <4>1. TookIn(p) /\ r.line \in LinesOf(Batch(p.body, posts[k].group)) /\ posts[k].group \in DOMAIN Bodies[p.body].groups
        BY <3>2, <2>1
      <4>2. r.line \in LinesOfBody(p.body)
        BY <4>1 DEF LinesOfBody, Batch
      <4> QED
        BY <4>1, <4>2, <1>1
    <3> QED
      BY <3>1, <3>2
  <2>2. \A r \in eventRows' : r.line \in Dated => r.time = 0
    BY <1>t DEF RowsHaveSource
  <2>3. ASSUME NEW x \in batches'
        PROVE  \E i \in DOMAIN posts' : \E g \in DOMAIN Bodies[posts'[i].body].groups : x.lines = Batch(posts'[i].body, g)
    <3>1. CASE x \in batches
      <4>1. PICK i \in DOMAIN posts : \E g \in DOMAIN Bodies[posts[i].body].groups : x.lines = Batch(posts[i].body, g)
        BY <3>1, <1>t DEF RowsHaveSource
      <4>2. i \in DOMAIN posts' /\ posts'[i].body = posts[i].body
        BY <1>1, <1>3
      <4> QED
        BY <4>1, <4>2
    <3>2. CASE x \notin batches
      BY <3>2, <2>3, <1>1
    <3> QED
      BY <3>1, <3>2
  <2> QED
    BY <2>1, <2>2, <2>3 DEF RowsHaveSource
<1>7. RowLines \subseteq RowLines'
  BY DEF RowLines
<1>8. \A i \in DOMAIN posts' : WrittenTo(posts'[i], RowLines')
  <2> SUFFICES ASSUME NEW i \in DOMAIN posts PROVE WrittenTo(posts'[i], RowLines')
    BY <1>1
  <2>1. CASE i = k
    BY <2>1, <1>1
  <2>2. CASE i # k
    <3>1. posts'[i] = posts[i] /\ WrittenTo(posts[i], RowLines)
      BY <2>2, <1>1 DEF HecInv
    <3> QED
      BY <3>1, <1>7 DEF WrittenTo
  <2> QED
    BY <2>1, <2>2
<1>9. \A b \in DOMAIN Bodies : (told'[b] = 0 => LinesOfBody(b) \subseteq RowLines') /\ OneAfterOther(b)'
  <2> SUFFICES ASSUME NEW b \in DOMAIN Bodies PROVE (told'[b] = 0 => LinesOfBody(b) \subseteq RowLines') /\ OneAfterOther(b)'
    OBVIOUS
  <2>1. (told[b] = 0 => LinesOfBody(b) \subseteq RowLines) /\ OneAfterOther(b)
    BY DEF HecInv
  <2>2. \A i \in DOMAIN posts : /\ posts'[i].at = "dead" => posts[i].at = "dead"
                                /\ (i \in Running' => i \in Running)
    BY <1>1 DEF Running
  <2>3. Sent(b) \subseteq DOMAIN posts
    BY DEF Sent
  <2> QED
    BY <2>1, <2>2, <2>3, <1>2, <1>7 DEF OneAfterOther
<1>10. \A i \in DOMAIN posts' : PostHolds(i)'
  <2> SUFFICES ASSUME NEW i \in DOMAIN posts, Quiet(posts[i].body) PROVE Holds(posts'[i], Place(i), eventRows', batches')
    BY <1>1, <1>3, <1>4 DEF PostHolds
  <2>1. CASE i = k
    BY <2>1, <1>1
  <2>2. CASE i # k
    <3>p. posts'[i] = posts[i] /\ Holds(posts[i], Place(i), eventRows, batches)
      BY <2>2, <1>1 DEF HecInv, PostHolds
    <3>1. CASE posts[i].body # p.body
      <4> SUFFICES ASSUME NEW g \in DOMAIN Bodies[posts[i].body].groups, NEW l \in LinesOf(Batch(posts[i].body, g)) \ Dated
                   PROVE  /\ TimesIn(eventRows', l) = TimesIn(eventRows, l)
                          /\ TimesDone(batches', Batch(posts[i].body, g)) = TimesDone(batches, Batch(posts[i].body, g))
        BY <3>p DEF Holds, Untouched, Settled
      <4>1. CASE UNCHANGED <<eventRows, batches>>
        BY <4>1
      <4>2. CASE ~UNCHANGED <<eventRows, batches>>
        <5>1. posts[k].group \in DOMAIN Bodies[p.body].groups /\ ~(posts[i].body = p.body /\ g = posts[k].group)
          BY <4>2, <3>1
        <5>2. /\ \A r \in eventRows' : r \in eventRows \/ r.line \in LinesOf(Batch(p.body, posts[k].group))
              /\ \A x \in batches' : x \in batches \/ x.lines = Batch(p.body, posts[k].group)
          BY <4>2
        <5>3. posts[i].body \in DOMAIN Bodies /\ l \in LinesOf(Batch(posts[i].body, g))
          BY <1>b
        <5>4. l \notin LinesOf(Batch(p.body, posts[k].group)) /\ Batch(posts[i].body, g) # Batch(p.body, posts[k].group)
          BY <5>1, <5>3, <1>b, BatchesApart
        <5>5. TimesIn(eventRows', l) = TimesIn(eventRows, l)
          BY <5>2, <5>4, TimesKept
        <5>6. TimesDone(batches', Batch(posts[i].body, g)) = TimesDone(batches, Batch(posts[i].body, g))
          <6>1. {y \in batches' : y.lines = Batch(posts[i].body, g)} = {y \in batches : y.lines = Batch(posts[i].body, g)}
            BY <5>2, <5>4
          <6> QED
            BY <6>1 DEF TimesDone
        <5> QED
          BY <5>5, <5>6
      <4> QED
        BY <4>1, <4>2
    <3>2. CASE posts[i].body = p.body
      <4>1. i \in Sent(p.body) /\ k \in Sent(p.body) /\ i \in Nat /\ k \in Nat
        <5>1. DOMAIN posts = 1 .. Len(posts) /\ Len(posts) \in Nat
          BY <1>t
        <5> QED
          BY <3>2, <5>1 DEF Sent
      <4>2. OneAfterOther(p.body) /\ Quiet(p.body)
        BY <3>2, <1>b DEF HecInv
      <4>3. ~(k < i)
        BY <4>1, <4>2 DEF OneAfterOther, Quiet
      <4>4. i < k
        BY <4>1, <4>3, <2>2
      <4>5. i \notin Running /\ posts[i].at # "dead"
        BY <4>1, <4>2, <4>4 DEF OneAfterOther, Quiet
      <4>6. posts[i].at = "answered"
        BY <4>5 DEF Running
      <4>7. Place(i) # "only"
        BY <4>1, <3>2, <2>2 DEF Place
      <4> SUFFICES ASSUME NEW g \in DOMAIN Bodies[posts[i].body].groups
                   PROVE  ~Ahead(posts[i], g) /\ ~Amid(posts[i], g, "write") /\ ~Amid(posts[i], g, "mark")
        BY <3>p, <4>7 DEF Holds
      <4> QED
        BY <4>6 DEF Ahead, Amid
    <3> QED
      BY <3>1, <3>2
  <2> QED
    BY <2>1, <2>2
<1>11. OneTime'
  <2> SUFFICES ASSUME NEW b \in DOMAIN Bodies, Quiet(b), NEW g \in DOMAIN Bodies[b].groups, NEW l \in LinesOf(Batch(b, g)) \ Dated
               PROVE  \A t, u \in TimesIn(eventRows', l) : t = u
    BY <1>4 DEF OneTime
  <2>1. \A t, u \in TimesIn(eventRows, l) : t = u
    BY DEF HecInv, OneTime
  <2>2. CASE UNCHANGED eventRows
    BY <2>1, <2>2
  <2>3. CASE ~UNCHANGED eventRows
    <3>1. /\ posts[k].group \in DOMAIN Bodies[p.body].groups
          /\ \A r \in eventRows' : r \in eventRows \/ r.line \in LinesOf(Batch(p.body, posts[k].group))
      BY <2>3
    <3>2. CASE b = p.body /\ g = posts[k].group
      <4>1. PICK t : TimesIn(eventRows', l) \subseteq {t}
        BY <2>3, <3>2
      <4> QED
        BY <4>1
    <3>3. CASE ~(b = p.body /\ g = posts[k].group)
      <4>a. l \notin LinesOf(Batch(p.body, posts[k].group))
        BY <3>1, <3>3, <1>b, BatchesApart
      <4>1. TimesIn(eventRows', l) = TimesIn(eventRows, l)
        BY <3>1, <4>a, TimesKept
      <4> QED
        BY <2>1, <4>1
    <3> QED
      BY <3>2, <3>3
  <2> QED
    BY <2>2, <2>3
<1> QED
  BY <1>1, <1>5, <1>6, <1>8, <1>9, <1>10, <1>11 DEF HecInv

(* What a request reads of itself.                                         *)
LEMMA PostRead ==
  ASSUME HecInv, NEW k \in DOMAIN posts
  PROVE  /\ HecTyped /\ posts[k] \in PostSet /\ posts[k].body \in DOMAIN Bodies /\ PostTyped(posts[k])
         /\ posts[k].uploaded \in Nat /\ posts[k].uploaded <= now /\ now \in Nat /\ posts[k].group \in Nat
         /\ posts[k].fallback \in Nat /\ posts[k].answer \in Int
         /\ \A x \in batches : x.time \in 0 .. now
         /\ WrittenTo(posts[k], RowLines) /\ PostHolds(k)
<1>1. HecTyped /\ WrittenTo(posts[k], RowLines) /\ PostHolds(k)
  BY DEF HecInv
<1>2. posts[k] \in PostSet
  BY <1>1 DEF HecTyped
<1> QED
  BY <1>1, <1>2 DEF HecTyped, PostSet

AnsweredWith(p, code) == [p EXCEPT !.at = "answered", !.answer = code]
Onward3(p) == [p EXCEPT !.at = "look", !.group = @ + 1]

LEMMA PostAnswered ==
  ASSUME NEW p \in PostSet, NEW code \in Int
  PROVE  /\ AnsweredWith(p, code) \in PostSet /\ AnsweredWith(p, code).body = p.body
         /\ AnsweredWith(p, code).at = "answered" /\ AnsweredWith(p, code).group = p.group
         /\ AnsweredWith(p, code).uploaded = p.uploaded /\ AnsweredWith(p, code).fallback = p.fallback
         /\ AnsweredWith(p, code).answer = code
<1>nxt. PICK nxt : nxt = AnsweredWith(p, code)
  OBVIOUS
<1>1. p = [body |-> p.body, at |-> p.at, group |-> p.group, uploaded |-> p.uploaded, fallback |-> p.fallback, answer |-> p.answer]
  BY DEF PostSet
<1>2. /\ p.body \in DOMAIN Bodies /\ p.group \in Nat /\ p.uploaded \in Nat /\ p.fallback \in Nat
  BY DEF PostSet
<1>3. nxt = [body |-> p.body, at |-> "answered", group |-> p.group, uploaded |-> p.uploaded, fallback |-> p.fallback, answer |-> code]
  BY <1>1, <1>nxt DEF AnsweredWith
<1>4. nxt \in PostSet
  BY <1>2, <1>3 DEF PostSet
<1>5. nxt.body = p.body /\ nxt.at = "answered" /\ nxt.group = p.group /\ nxt.uploaded = p.uploaded /\ nxt.fallback = p.fallback /\ nxt.answer = code
  BY <1>3
<1> QED
  BY <1>nxt, <1>4, <1>5

LEMMA PostOnward ==
  ASSUME NEW p \in PostSet
  PROVE  /\ Onward3(p) \in PostSet /\ Onward3(p).body = p.body
         /\ Onward3(p).at = "look" /\ Onward3(p).group = p.group + 1
         /\ Onward3(p).uploaded = p.uploaded /\ Onward3(p).fallback = p.fallback /\ Onward3(p).answer = p.answer
<1>nxt. PICK nxt : nxt = Onward3(p)
  OBVIOUS
<1>1. p = [body |-> p.body, at |-> p.at, group |-> p.group, uploaded |-> p.uploaded, fallback |-> p.fallback, answer |-> p.answer]
  BY DEF PostSet
<1>2. /\ p.body \in DOMAIN Bodies /\ p.uploaded \in Nat /\ p.fallback \in Nat /\ p.answer \in Int /\ p.group \in Nat
  BY DEF PostSet
<1>3. nxt = [body |-> p.body, at |-> "look", group |-> p.group + 1, uploaded |-> p.uploaded, fallback |-> p.fallback, answer |-> p.answer]
  BY <1>1, <1>nxt DEF Onward3
<1>4. nxt \in PostSet
  BY <1>2, <1>3 DEF PostSet
<1>5. nxt.body = p.body /\ nxt.at = "look" /\ nxt.group = p.group + 1 /\ nxt.uploaded = p.uploaded /\ nxt.fallback = p.fallback /\ nxt.answer = p.answer
  BY <1>3
<1> QED
  BY <1>nxt, <1>4, <1>5

LEMMA AdmitStep == ASSUME HecInv, LinesAreApart, NEW k \in DOMAIN posts, Admit(k) PROVE HecInv'
<1>1. posts[k].at = "admit" /\ Admission(k) /\ KeepsRows
  BY DEF Admit
<1>2. posts[k] \in PostSet /\ posts[k].group = 1 /\ posts[k].body \in DOMAIN Bodies /\ now \in Nat /\ k \in Running
  BY <1>1, PostRead DEF PostTyped, Running
<1>3. \/ /\ BodyOf(k).groups # <<>> /\ Goes(k, "look")
      \/ \E code \in {2, 4, 5, 6, 9, 12} : Answers(k, code)
  BY <1>1 DEF Admission, Parsed
<1> DEFINE Moved(p) == /\ posts' = [posts EXCEPT ![k] = p]
                       /\ p.body = posts[k].body /\ p.group = 1 /\ p.uploaded = posts[k].uploaded
                       /\ \/ p.at = "look" /\ BodyOf(k).groups # <<>>
                          \/ p.at = "answered" /\ p.answer # 0
<1>4. \E p \in PostSet : Moved(p)
  <2>1. CASE BodyOf(k).groups # <<>> /\ Goes(k, "look")
    <3> DEFINE p == [posts[k] EXCEPT !.at = "look"]
    <3>1. p \in PostSet /\ posts' = [posts EXCEPT ![k] = p]
      BY <1>2, <2>1, PostRead DEF Goes, PostSet, HecTyped
    <3>2. p.body = posts[k].body /\ p.group = 1 /\ p.uploaded = posts[k].uploaded /\ p.at = "look"
      BY <1>2 DEF PostSet
    <3> QED
      BY <2>1, <3>1, <3>2
  <2>2. ASSUME NEW code \in {2, 4, 5, 6, 9, 12}, Answers(k, code) PROVE \E p \in PostSet : Moved(p)
    <3> DEFINE p == AnsweredWith(posts[k], code)
    <3>a. posts' = [posts EXCEPT ![k].at = "answered", ![k].answer = code] /\ posts \in Seq(PostSet)
      BY <2>2, PostRead DEF Answers, HecTyped
    <3>b. p \in PostSet
      BY <1>2, PostAnswered
    <3>1. p \in PostSet /\ posts' = [posts EXCEPT ![k] = p]
      BY <3>a, <3>b DEF AnsweredWith
    <3>2. p.body = posts[k].body /\ p.group = 1 /\ p.uploaded = posts[k].uploaded /\ p.at = "answered" /\ p.answer # 0
      <4>1. code \in Int /\ code # 0
        BY <2>2
      <4> QED
        BY <1>2, <4>1, PostAnswered
    <3> QED
      BY <3>1, <3>2
  <2> QED
    BY <1>3, <2>1, <2>2
<1>5. PICK p \in PostSet : Moved(p)
  BY <1>4
<1>6. /\ posts' = [posts EXCEPT ![k] = p] /\ p.body = posts[k].body /\ p.at # "dead" /\ ~TookIn(posts[k])
  BY <1>1, <1>5 DEF TookIn
<1>7. PostTyped(p)
  BY <1>2, <1>5, GroupsTyped DEF PostTyped, BodyOf
<1>8. now' = now /\ now' \in Nat /\ now' >= now /\ p.uploaded <= now' /\ UNCHANGED <<told, overlapped, broken, eventRows, batches>>
  BY <1>1, <1>2, <1>5, PostRead DEF KeepsRows
<1>9. WrittenTo(p, RowLines')
  <2>1. \A g \in DOMAIN Bodies[p.body].groups : g \in Nat /\ ~(g < 1)
    BY <1>2, <1>6, GroupsTyped
  <2> QED
    BY <1>5, <2>1 DEF WrittenTo
<1>10. Quiet(p.body) => Holds(p, Place(k), eventRows', batches')
  <2>1. Quiet(p.body) => Holds(posts[k], Place(k), eventRows, batches)
    BY <1>6, PostRead DEF PostHolds
  <2>2. Holds(posts[k], Place(k), eventRows, batches) => Holds(p, Place(k), eventRows, batches)
    BY <1>1, <1>2, <1>5, HoldsAdmitted
  <2> QED
    BY <1>8, <2>1, <2>2
<1>11. /\ eventRows' \in SUBSET Rows /\ \A x \in batches' : x.time \in 0 .. now'
       /\ eventRows \subseteq eventRows' /\ batches \subseteq batches'
  BY <1>8, PostRead DEF HecTyped
<1> QED
  BY <1>2, <1>6, <1>7, <1>8, <1>9, <1>10, <1>11, RequestStep

LEMMA Look3Step == ASSUME HecInv, LinesAreApart, NEW k \in DOMAIN posts, Look3(k) PROVE HecInv'
<1> DEFINE same == {x \in batches : x.lines = Batch3(k)}
           p == [posts[k] EXCEPT !.at = "write", !.uploaded = now, !.fallback = FallbackOf(same)]
<1>1. posts[k].at = "look" /\ now' = now + 1 /\ UNCHANGED <<told, batches, eventRows, overlapped, broken>> /\ k \in Running
  BY DEF Look3, Running
<1>2. posts[k] \in PostSet /\ now \in Nat /\ PostTyped(posts[k]) /\ \A x \in batches : x.time \in 0 .. now
  BY PostRead
<1>3. /\ FallbackOf(same) \in Nat
      /\ same = {} => FallbackOf(same) = now
      /\ \A t : {x.time : x \in same} = {t} => FallbackOf(same) = t
  <2>1. \A x \in same : x.time \in 0 .. now
    BY <1>2
  <2> HIDE DEF same
  <2> QED
    BY <1>2, <2>1, NewestTime
<1> DEFINE fallback == FallbackOf(same)
<1>4. posts' = [posts EXCEPT ![k].at = "write", ![k].uploaded = now, ![k].fallback = fallback]
  BY DEF Look3
<1>5. TimesDone(batches, Batch(posts[k].body, posts[k].group)) = {x.time : x \in same}
  BY DEF TimesDone, Batch, Batch3, BodyOf
<1>6. fallback \in Nat /\ (same = {} => fallback = now) /\ \A t : {x.time : x \in same} = {t} => fallback = t
  BY <1>3
<1>7. {x.time : x \in same} = {} => same = {}
  <2> HIDE DEF same
  <2> QED
    OBVIOUS
<1> HIDE DEF fallback
<1> DEFINE nxt == [posts[k] EXCEPT !.at = "write", !.uploaded = now, !.fallback = fallback]
<1>8. nxt \in PostSet /\ posts' = [posts EXCEPT ![k] = nxt]
  BY <1>2, <1>4, <1>6, PostRead DEF PostSet, HecTyped
<1>9. nxt.body = posts[k].body /\ nxt.at = "write" /\ nxt.group = posts[k].group /\ nxt.uploaded = now /\ nxt.fallback = fallback
  BY <1>2 DEF PostSet
<1>10. /\ TimesDone(batches, Batch(posts[k].body, posts[k].group)) = {} => nxt.fallback = nxt.uploaded
       /\ \A t \in Nat : TimesDone(batches, Batch(posts[k].body, posts[k].group)) = {t} => nxt.fallback = t
  BY <1>5, <1>6, <1>7, <1>9
<1> HIDE DEF nxt, same
<1>11. PostTyped(nxt) /\ nxt.at # "dead" /\ (TookIn(posts[k]) => TookIn(nxt))
  BY <1>1, <1>2, <1>9 DEF PostTyped, TookIn
<1>12. now' \in Nat /\ now' >= now /\ nxt.uploaded <= now'
  BY <1>1, <1>2, <1>9
<1>13. WrittenTo(nxt, RowLines')
  BY <1>1, <1>9, PostRead DEF WrittenTo, RowLines
<1>14. Quiet(nxt.body) => Holds(nxt, Place(k), eventRows', batches')
  <2>1. Quiet(nxt.body) => Holds(posts[k], Place(k), eventRows, batches)
    BY <1>9, PostRead DEF PostHolds
  <2>2. Holds(posts[k], Place(k), eventRows, batches) => Holds(nxt, Place(k), eventRows, batches)
    BY <1>1, <1>2, <1>8, <1>9, <1>10, HoldsLooked
  <2> QED
    BY <1>1, <2>1, <2>2
<1>15. /\ eventRows' \in SUBSET Rows /\ \A x \in batches' : x.time \in 0 .. now'
       /\ eventRows \subseteq eventRows' /\ batches \subseteq batches'
  BY <1>1, <1>2, PostRead DEF HecTyped
<1> QED
  BY <1>1, <1>8, <1>9, <1>11, <1>12, <1>13, <1>14, <1>15, RequestStep

LEMMA Write3Step == ASSUME HecInv, LinesAreApart, NEW k \in DOMAIN posts, Write3(k) PROVE HecInv'
<1> DEFINE p == posts[k]
           nxt == [posts[k] EXCEPT !.at = "mark"]
           lines == LinesOf(Batch(posts[k].body, posts[k].group))
<1>1. posts[k].at = "write" /\ now' = now /\ UNCHANGED <<told, batches, overlapped, broken>> /\ k \in Running
  BY DEF Write3, Running
<1>2. /\ posts[k] \in PostSet /\ now \in Nat /\ PostTyped(posts[k]) /\ posts[k].fallback \in Nat /\ posts[k].uploaded <= now
      /\ posts[k].body \in DOMAIN Bodies /\ posts[k].group \in DOMAIN Bodies[posts[k].body].groups
  BY <1>1, PostRead DEF PostTyped
<1>3. eventRows' = eventRows \cup {[line |-> l, time |-> IF l \in Dated THEN 0 ELSE posts[k].fallback] : l \in lines}
  BY DEF Write3, Batch, Batch3, BodyOf
<1>4. nxt \in PostSet /\ posts' = [posts EXCEPT ![k] = nxt]
  BY <1>2, PostRead DEF Write3, Goes, PostSet, HecTyped
<1>5. nxt.body = posts[k].body /\ nxt.at = "mark" /\ nxt.group = posts[k].group /\ nxt.uploaded = posts[k].uploaded /\ nxt.fallback = posts[k].fallback
  BY <1>2 DEF PostSet
<1> HIDE DEF nxt
<1>6. PostTyped(nxt) /\ nxt.at # "dead" /\ TookIn(nxt)
  BY <1>1, <1>2, <1>5 DEF PostTyped, TookIn
<1>7. /\ \A r \in eventRows' : r \in eventRows \/ (r.line \in lines /\ (r.line \in Dated => r.time = 0) /\ r \in Rows)
      /\ \A r \in eventRows' : r \in eventRows \/ (r.line \in lines /\ (r.line \notin Dated => r.time = posts[k].fallback))
      /\ \A l \in lines : l \in RowLines'
      /\ eventRows \subseteq eventRows'
  <2>1. lines \subseteq UNION {LinesOfBody(b) : b \in DOMAIN Bodies}
    BY <1>2 DEF LinesOfBody, Batch
  <2>2. ASSUME NEW l \in lines PROVE l \in RowLines'
    <3> DEFINE r == [line |-> l, time |-> IF l \in Dated THEN 0 ELSE posts[k].fallback]
    <3>1. r \in eventRows' /\ r.line = l
      BY <1>3
    <3> QED
      BY <3>1 DEF RowLines
  <2>3. ASSUME NEW r \in eventRows', r \notin eventRows
        PROVE  r.line \in lines /\ (r.line \in Dated => r.time = 0) /\ (r.line \notin Dated => r.time = posts[k].fallback) /\ r \in Rows
    <3>1. PICK l \in lines : r = [line |-> l, time |-> IF l \in Dated THEN 0 ELSE posts[k].fallback]
      BY <1>3, <2>3
    <3>2. (IF l \in Dated THEN 0 ELSE posts[k].fallback) \in Nat
      BY <1>2
    <3> QED
      BY <2>1, <3>1, <3>2 DEF Rows
  <2> QED
    BY <1>3, <2>2, <2>3
<1>8. WrittenTo(nxt, RowLines')
  <2>1. \A g \in DOMAIN Bodies[posts[k].body].groups : g < posts[k].group => LinesOf(Batch(posts[k].body, g)) \subseteq RowLines
    BY <1>1, PostRead DEF WrittenTo
  <2>2. RowLines \subseteq RowLines'
    BY <1>7 DEF RowLines
  <2>3. \A g \in DOMAIN Bodies[posts[k].body].groups : g <= posts[k].group => (g < posts[k].group \/ g = posts[k].group)
    BY <1>2, GroupsTyped
  <2> QED
    BY <1>5, <1>7, <2>1, <2>2, <2>3 DEF WrittenTo
<1>9. Quiet(nxt.body) => /\ Holds(nxt, Place(k), eventRows', batches')
                       /\ \A l \in lines \ Dated : TimesIn(eventRows', l) \subseteq {posts[k].fallback}
  <2>1. Quiet(nxt.body) => Holds(posts[k], Place(k), eventRows, batches)
    BY <1>5, PostRead DEF PostHolds
  <2>2. Holds(posts[k], Place(k), eventRows, batches)
          => /\ Holds(nxt, Place(k), eventRows', batches)
             /\ \A l \in lines \ Dated : TimesIn(eventRows', l) \subseteq {posts[k].fallback}
    BY <1>1, <1>2, <1>7, <1>4, <1>5, HoldsWritten
  <2> QED
    BY <1>1, <2>1, <2>2
<1>10. /\ eventRows' \in SUBSET Rows /\ \A x \in batches' : x.time \in 0 .. now'
       /\ eventRows \subseteq eventRows' /\ batches \subseteq batches'
  <2>1. eventRows \in SUBSET Rows
    BY PostRead DEF HecTyped
  <2> QED
    BY <1>1, <1>7, <2>1, PostRead
<1>11. /\ now' \in Nat /\ now' >= now /\ nxt.uploaded <= now'
       /\ posts[k].group \in DOMAIN Bodies[nxt.body].groups
       /\ \A r \in eventRows' : r \in eventRows \/ (TookIn(nxt) /\ r.line \in LinesOf(Batch(nxt.body, posts[k].group))
                                                      /\ (r.line \in Dated => r.time = 0))
       /\ \A x \in batches' : x \in batches \/ x.lines = Batch(nxt.body, posts[k].group)
       /\ Quiet(nxt.body) => \A l \in LinesOf(Batch(nxt.body, posts[k].group)) \ Dated : \E t : TimesIn(eventRows', l) \subseteq {t}
  BY <1>1, <1>2, <1>5, <1>6, <1>7, <1>9
<1> QED
  BY <1>1, <1>4, <1>5, <1>6, <1>8, <1>9, <1>10, <1>11, RequestStep
LEMMA Mark3Step == ASSUME HecInv, LinesAreApart, NEW k \in DOMAIN posts, Mark3(k) PROVE HecInv'
<1>1. posts[k].at = "mark" /\ now' = now /\ UNCHANGED <<told, eventRows, overlapped, broken>> /\ k \in Running
  BY DEF Mark3, Running
<1>2. /\ posts[k] \in PostSet /\ now \in Nat /\ PostTyped(posts[k]) /\ posts[k].uploaded <= now /\ posts[k].uploaded \in Nat
      /\ posts[k].body \in DOMAIN Bodies /\ posts[k].group \in DOMAIN Bodies[posts[k].body].groups
      /\ \A x \in batches : x.time \in 0 .. now
  BY <1>1, PostRead DEF PostTyped
<1> DEFINE b == posts[k].body
           n == Len(Bodies[b].groups)
<1>3. n \in Nat /\ DOMAIN Bodies[b].groups = 1 .. n /\ posts[k].group \in 1 .. n
  BY <1>2, GroupsTyped
<1>4. batches' = batches \cup {[lines |-> Batch(b, posts[k].group), time |-> posts[k].uploaded]}
  BY DEF Mark3, Batch, Batch3, BodyOf
<1> DEFINE Moved(p) == /\ posts' = [posts EXCEPT ![k] = p]
                       /\ p.body = b /\ p.uploaded = posts[k].uploaded
                       /\ \/ p.at = "look" /\ p.group = posts[k].group + 1 /\ p.group <= n
                          \/ p.at = "answered" /\ p.answer = 0 /\ posts[k].group = n
<1>5. \E p \in PostSet : Moved(p)
  <2>1. CASE posts[k].group = n
    <3> DEFINE p == AnsweredWith(posts[k], 0)
    <3>a. posts' = [posts EXCEPT ![k].at = "answered", ![k].answer = 0] /\ posts \in Seq(PostSet)
      BY <2>1, PostRead DEF Mark3, Answers, BodyOf, HecTyped
    <3>b. p \in PostSet
      BY <1>2, PostAnswered
    <3>1. posts' = [posts EXCEPT ![k] = p]
      BY <3>a, <3>b DEF AnsweredWith
    <3>2. p.body = b /\ p.uploaded = posts[k].uploaded /\ p.at = "answered" /\ p.answer = 0
      BY <1>2, PostAnswered
    <3> QED
      BY <2>1, <3>b, <3>1, <3>2
  <2>2. CASE posts[k].group # n
    <3> DEFINE p == Onward3(posts[k])
    <3>a. posts' = [posts EXCEPT ![k].at = "look", ![k].group = @ + 1] /\ posts \in Seq(PostSet)
      BY <2>2, PostRead DEF Mark3, BodyOf, HecTyped
    <3>b. p \in PostSet
      BY <1>2, <1>3, PostOnward
    <3>1. posts' = [posts EXCEPT ![k] = p]
      BY <3>a, <3>b DEF Onward3
    <3>2. p.body = b /\ p.uploaded = posts[k].uploaded /\ p.at = "look" /\ p.group = posts[k].group + 1 /\ p.group <= n
      BY <1>2, <1>3, <2>2, PostOnward
    <3> QED
      BY <3>b, <3>1, <3>2
  <2> QED
    BY <2>1, <2>2
<1>6. PICK p \in PostSet : Moved(p)
  BY <1>5
<1>7. PostTyped(p) /\ p.at # "dead" /\ TookIn(p)
  BY <1>3, <1>6 DEF PostTyped, TookIn
<1>8. WrittenTo(p, RowLines')
  <2>1. \A g \in DOMAIN Bodies[b].groups : g <= posts[k].group => LinesOf(Batch(b, g)) \subseteq RowLines
    BY <1>1, PostRead DEF WrittenTo
  <2>2. RowLines' = RowLines
    BY <1>1 DEF RowLines
  <2>3. CASE p.at = "look"
    BY <1>3, <1>6, <2>1, <2>2, <2>3 DEF WrittenTo
  <2>4. CASE p.at = "answered"
    <3>1. LinesOfBody(b) \subseteq RowLines
      BY <1>3, <1>6, <2>1, <2>4 DEF LinesOfBody, Batch
    <3> QED
      BY <1>6, <2>2, <2>4, <3>1 DEF WrittenTo
  <2> QED
    BY <1>6, <2>3, <2>4
<1>9. Quiet(p.body) => Holds(p, Place(k), eventRows', batches')
  <2>1. Quiet(p.body) => Holds(posts[k], Place(k), eventRows, batches)
    BY <1>6, PostRead DEF PostHolds
  <2>2. (p.at = "look" /\ p.group = posts[k].group + 1) \/ (p.at = "answered" /\ posts[k].group = Len(Bodies[posts[k].body].groups))
    BY <1>6
  <2>3. Holds(posts[k], Place(k), eventRows, batches) => Holds(p, Place(k), eventRows, batches')
    BY <1>1, <1>2, <1>4, <1>6, <2>2, HoldsMarked
  <2> QED
    BY <1>1, <2>1, <2>3
<1>10. /\ eventRows' \in SUBSET Rows /\ \A x \in batches' : x.time \in 0 .. now'
       /\ eventRows \subseteq eventRows' /\ batches \subseteq batches'
  <2>1. eventRows \in SUBSET Rows
    BY PostRead DEF HecTyped
  <2> QED
    BY <1>1, <1>2, <1>4, <2>1
<1>11. /\ now' \in Nat /\ now' >= now /\ p.uploaded <= now' /\ p.body = posts[k].body
       /\ posts[k].group \in DOMAIN Bodies[p.body].groups
       /\ \A r \in eventRows' : r \in eventRows \/ (TookIn(p) /\ r.line \in LinesOf(Batch(p.body, posts[k].group))
                                                      /\ (r.line \in Dated => r.time = 0))
       /\ \A x \in batches' : x \in batches \/ x.lines = Batch(p.body, posts[k].group)
  BY <1>1, <1>2, <1>4, <1>6
<1>12. posts' = [posts EXCEPT ![k] = p]
  BY <1>6
<1> QED
  BY <1>1, <1>7, <1>8, <1>9, <1>10, <1>11, <1>12, RequestStep

LEMMA StoreRaisesStep == ASSUME HecInv, LinesAreApart, NEW k \in DOMAIN posts, StoreRaises(k) PROVE HecInv'
<1> DEFINE nxt == AnsweredWith(posts[k], 8)
<1>1. /\ posts[k].at \in {"look", "write"} /\ now' = now /\ k \in Running
      /\ UNCHANGED <<told, eventRows, batches, overlapped, broken>>
  BY DEF StoreRaises, KeepsRows, Running
<1>2. posts[k] \in PostSet /\ now \in Nat /\ posts[k].uploaded <= now /\ posts \in Seq(PostSet) /\ \A x \in batches : x.time \in 0 .. now
  BY PostRead DEF HecTyped
<1>3. nxt \in PostSet /\ nxt.body = posts[k].body /\ nxt.at = "answered" /\ nxt.answer = 8 /\ nxt.uploaded = posts[k].uploaded
  <2>1. 8 \in Int /\ posts[k] \in PostSet
    BY <1>2
  <2> QED
    BY <2>1, PostAnswered
<1>4. posts' = [posts EXCEPT ![k] = nxt]
  <2>1. posts' = [posts EXCEPT ![k].at = "answered", ![k].answer = 8]
    BY DEF StoreRaises, Answers
  <2> QED
    BY <1>2, <1>3, <2>1 DEF AnsweredWith
<1> HIDE DEF nxt
<1>5. PostTyped(nxt) /\ nxt.at # "dead" /\ TookIn(nxt) /\ WrittenTo(nxt, RowLines')
  BY <1>3 DEF PostTyped, TookIn, WrittenTo
<1>6. Quiet(nxt.body) => Holds(nxt, Place(k), eventRows', batches')
  <2>1. Quiet(nxt.body) => Holds(posts[k], Place(k), eventRows, batches)
    BY <1>3, PostRead DEF PostHolds
  <2>2. Holds(posts[k], Place(k), eventRows, batches) => Holds(nxt, Place(k), eventRows, batches)
    BY <1>1, <1>2, <1>3, HoldsFailed
  <2> QED
    BY <1>1, <2>1, <2>2
<1>7. /\ eventRows' \in SUBSET Rows /\ \A x \in batches' : x.time \in 0 .. now'
      /\ eventRows \subseteq eventRows' /\ batches \subseteq batches'
      /\ now' \in Nat /\ now' >= now /\ nxt.uploaded <= now'
  BY <1>1, <1>2, <1>3, PostRead DEF HecTyped
<1> QED
  BY <1>1, <1>3, <1>4, <1>5, <1>6, <1>7, RequestStep
LEMMA HearStep == ASSUME HecInv, NEW k \in DOMAIN posts, Hear(k) PROVE HecInv'
<1>1. /\ posts[k].at = "answered" /\ told' = [told EXCEPT ![posts[k].body] = posts[k].answer]
      /\ UNCHANGED <<posts, batches, eventRows, now, overlapped, broken>>
  BY DEF Hear
<1>2. HecTyped /\ told = [b \in DOMAIN Bodies |-> told[b]]
  BY DEF HecInv, HecTyped
<1>3. told' = [b \in DOMAIN Bodies |-> told'[b]] /\ \A b \in DOMAIN Bodies : told'[b] = told[b] \/ (b = posts[k].body /\ told'[b] = posts[k].answer)
  BY <1>1, <1>2
<1>4. HecTyped'
  BY <1>1, <1>2, <1>3 DEF HecTyped, PostTyped
<1>5. RowLines' = RowLines /\ \A b : Sent(b)' = Sent(b) /\ (Quiet(b)' <=> Quiet(b))
  BY <1>1 DEF RowLines, Sent, Quiet
<1>6. ASSUME NEW b \in DOMAIN Bodies PROVE (told'[b] = 0 => LinesOfBody(b) \subseteq RowLines') /\ OneAfterOther(b)'
  <2>1. (told[b] = 0 => LinesOfBody(b) \subseteq RowLines) /\ OneAfterOther(b)
    BY DEF HecInv
  <2>2. posts[k].answer = 0 => LinesOfBody(posts[k].body) \subseteq RowLines
    BY <1>1, PostRead DEF WrittenTo
  <2>3. OneAfterOther(b)'
    BY <1>1, <2>1 DEF OneAfterOther, Sent, Running
  <2> QED
    BY <1>3, <1>5, <2>1, <2>2, <2>3
<1>7. ASSUME NEW i \in DOMAIN posts' PROVE WrittenTo(posts'[i], RowLines') /\ PostHolds(i)'
  <2>1. WrittenTo(posts[i], RowLines) /\ PostHolds(i)
    BY <1>1 DEF HecInv
  <2> QED
    BY <1>1, <1>5, <2>1 DEF PostHolds, Place, Sent, Quiet
<1>8. RowsHaveSource' /\ OneTime'
  <2>1. RowsHaveSource /\ OneTime
    BY DEF HecInv
  <2>2. RowsHaveSource'
    BY <1>1, <2>1 DEF RowsHaveSource
  <2>3. OneTime'
    BY <1>1, <1>5, <2>1 DEF OneTime
  <2> QED
    BY <2>2, <2>3
<1> QED
  BY <1>4, <1>6, <1>7, <1>8 DEF HecInv

LEMMA ServerDiesStep == ASSUME HecInv, ServerDies PROVE HecInv'
<1>1. /\ posts' = [i \in DOMAIN posts |-> IF i \in Running THEN [posts[i] EXCEPT !.at = "dead"] ELSE posts[i]]
      /\ broken' = broken \cup {posts[i].body : i \in Running}
      /\ UNCHANGED <<told, batches, eventRows, now, overlapped>>
  BY DEF ServerDies
<1>2. HecTyped /\ posts \in Seq(PostSet) /\ now \in Nat /\ RowsHaveSource
  BY DEF HecInv, HecTyped
<1>3. ASSUME NEW i \in DOMAIN posts
      PROVE  /\ posts'[i] \in PostSet /\ posts'[i].body = posts[i].body /\ posts'[i].uploaded = posts[i].uploaded
             /\ i \in Running => posts'[i].at = "dead"
             /\ i \notin Running => posts'[i] = posts[i]
  <2>1. posts[i] \in PostSet
    BY <1>2
  <2> QED
    BY <1>1, <2>1 DEF PostSet
<1>4. posts' \in Seq(PostSet) /\ DOMAIN posts' = DOMAIN posts
  <2>1. Len(posts) \in Nat /\ DOMAIN posts = 1 .. Len(posts)
    BY <1>2
  <2>2. posts' = [i \in 1 .. Len(posts) |-> posts'[i]]
    BY <1>1, <2>1
  <2> QED
    BY <1>1, <1>3, <2>1, <2>2
<1>5. \A b : Sent(b)' = Sent(b)
  BY <1>3, <1>4 DEF Sent
<1>6. Running' = {} /\ RowLines' = RowLines
  <2>1. ASSUME NEW i \in DOMAIN posts PROVE i \notin Running'
    BY <1>3 DEF Running
  <2> QED
    BY <1>1, <1>4, <2>1 DEF Running, RowLines
<1>7. ASSUME NEW b, b \notin broken' PROVE \A i \in Sent(b) : i \notin Running /\ posts'[i] = posts[i]
  <2> SUFFICES ASSUME NEW i \in Sent(b) PROVE i \notin Running
    BY <1>3 DEF Sent
  <2> QED
    BY <1>1, <1>7 DEF Sent
<1>8. \A b : Quiet(b)' => Quiet(b) /\ b \notin broken'
  BY <1>1, <1>5 DEF Quiet
<1>9. HecTyped'
  <2>1. ASSUME NEW i \in DOMAIN posts PROVE PostTyped(posts'[i]) /\ posts'[i].uploaded <= now
    <3>1. PostTyped(posts[i]) /\ posts[i].uploaded <= now
      BY <1>2 DEF HecTyped
    <3> QED
      BY <1>3, <3>1 DEF PostTyped
  <2> QED
    BY <1>1, <1>2, <1>4, <2>1 DEF HecTyped
<1>10. RowsHaveSource'
  <2>1. ASSUME NEW i \in DOMAIN posts, TookIn(posts[i]) PROVE TookIn(posts'[i])
    BY <1>3, <2>1 DEF TookIn
  <2>2. ASSUME NEW r \in eventRows' PROVE \E i \in DOMAIN posts' : r.line \in LinesOfBody(posts'[i].body) /\ TookIn(posts'[i])
    <3>1. PICK i \in DOMAIN posts : r.line \in LinesOfBody(posts[i].body) /\ TookIn(posts[i])
      BY <1>1, <1>2 DEF RowsHaveSource
    <3> QED
      BY <1>3, <1>4, <2>1, <3>1
  <2>3. ASSUME NEW x \in batches'
        PROVE  \E i \in DOMAIN posts' : \E g \in DOMAIN Bodies[posts'[i].body].groups : x.lines = Batch(posts'[i].body, g)
    <3>1. PICK i \in DOMAIN posts : \E g \in DOMAIN Bodies[posts[i].body].groups : x.lines = Batch(posts[i].body, g)
      BY <1>1, <1>2 DEF RowsHaveSource
    <3>2. i \in DOMAIN posts' /\ posts'[i].body = posts[i].body
      BY <1>3, <1>4
    <3> QED
      BY <3>1, <3>2
  <2>4. \A r \in eventRows' : r.line \in Dated => r.time = 0
    BY <1>1, <1>2 DEF RowsHaveSource
  <2> QED
    BY <2>2, <2>3, <2>4 DEF RowsHaveSource
<1>11. ASSUME NEW i \in DOMAIN posts' PROVE WrittenTo(posts'[i], RowLines') /\ PostHolds(i)'
  <2>1. WrittenTo(posts[i], RowLines) /\ PostHolds(i) /\ i \in DOMAIN posts
    BY <1>4 DEF HecInv
  <2>2. WrittenTo(posts'[i], RowLines')
    BY <1>3, <1>6, <2>1 DEF WrittenTo
  <2>3. ASSUME Quiet(posts[i].body)' PROVE Holds(posts[i], Place(i), eventRows, batches)'
    <3>1. Quiet(posts[i].body) /\ posts[i].body \notin broken'
      BY <1>3, <1>8, <2>1, <2>3
    <3>2. i \in Sent(posts[i].body)
      BY <2>1 DEF Sent
    <3>3. posts'[i] = posts[i] /\ Place(i)' = Place(i)
      <4>1. posts'[i] = posts[i]
        BY <1>7, <3>1, <3>2
      <4> QED
        BY <1>5, <4>1 DEF Place
    <3> QED
      BY <1>1, <2>1, <3>1, <3>3 DEF PostHolds
  <2> QED
    BY <2>2, <2>3 DEF PostHolds
<1>12. ASSUME NEW b \in DOMAIN Bodies PROVE (told'[b] = 0 => LinesOfBody(b) \subseteq RowLines') /\ OneAfterOther(b)'
  <2>1. (told[b] = 0 => LinesOfBody(b) \subseteq RowLines) /\ OneAfterOther(b)
    BY DEF HecInv
  <2>2. b \notin broken' => \A i \in Sent(b) : posts'[i].at # "dead"
    BY <1>1, <1>7, <2>1 DEF OneAfterOther
  <2> QED
    BY <1>1, <1>5, <1>6, <2>1, <2>2 DEF OneAfterOther
<1>13. OneTime'
  <2>1. OneTime
    BY DEF HecInv
  <2> QED
    BY <1>1, <1>8, <2>1 DEF OneTime
<1> QED
  BY <1>9, <1>10, <1>11, <1>12, <1>13 DEF HecInv
(* What a request that was just posted meets.                              *)
LEMMA FreshIsUntouched ==
  ASSUME HecInv, LinesAreApart, NEW b \in DOMAIN Bodies, Sent(b) = {},
         NEW g \in DOMAIN Bodies[b].groups, NEW l \in LinesOf(Batch(b, g))
  PROVE  Untouched(eventRows, batches, b, g, l)
<1>1. RowsHaveSource /\ HecTyped
  BY DEF HecInv
<1>2. \A i \in DOMAIN posts : posts[i].body \in DOMAIN Bodies /\ posts[i].body # b
  BY PostRead DEF Sent
<1>3. ASSUME NEW r \in eventRows, r.line = l PROVE FALSE
  <2>1. PICK i \in DOMAIN posts : r.line \in LinesOfBody(posts[i].body)
    BY <1>1 DEF RowsHaveSource
  <2>2. PICK h \in DOMAIN Bodies[posts[i].body].groups : l \in LinesOf(Batch(posts[i].body, h))
    BY <1>3, <2>1 DEF LinesOfBody, Batch
  <2> QED
    BY <1>2, <2>2, BatchesApart
<1>4. ASSUME NEW x \in batches, x.lines = Batch(b, g) PROVE FALSE
  <2>1. PICK i \in DOMAIN posts : \E h \in DOMAIN Bodies[posts[i].body].groups : x.lines = Batch(posts[i].body, h)
    BY <1>1 DEF RowsHaveSource
  <2>2. PICK h \in DOMAIN Bodies[posts[i].body].groups : x.lines = Batch(posts[i].body, h)
    BY <2>1
  <2>3. Batch(b, g) # Batch(posts[i].body, h)
    BY <1>2, BatchesApart
  <2> QED
    BY <1>4, <2>2, <2>3
<1>5. {s \in eventRows : s.line = l} = {} /\ {y \in batches : y.lines = Batch(b, g)} = {}
  BY <1>3, <1>4
<1> QED
  BY <1>5 DEF Untouched, TimesIn, TimesDone

LEMMA PostStep == ASSUME HecInv, LinesAreApart, NEW b \in DOMAIN Bodies, Post(b) PROVE HecInv'
<1> DEFINE p == [body |-> b, at |-> "admit", group |-> 1, uploaded |-> 0, fallback |-> 0, answer |-> -1]
<1>n. PICK n \in {Len(posts) + 1} : TRUE
  OBVIOUS
<1>1. /\ posts' = Append(posts, p)
      /\ overlapped \subseteq overlapped' /\ (Sent(b) \cap Running # {} => b \in overlapped')
      /\ UNCHANGED <<told, batches, eventRows, now, broken>>
  BY DEF Post
<1>2. HecTyped /\ posts \in Seq(PostSet) /\ now \in Nat /\ RowsHaveSource
  BY DEF HecInv, HecTyped
<1>3. p \in PostSet /\ p.body = b /\ p.at = "admit" /\ p.group = 1 /\ p.uploaded = 0
  BY DEF PostSet
<1> HIDE DEF p
<1>4. /\ DOMAIN posts = 1 .. Len(posts) /\ n \in Nat /\ DOMAIN posts' = (DOMAIN posts) \cup {n} /\ n \notin DOMAIN posts
      /\ posts' \in Seq(PostSet) /\ posts'[n] = p /\ \A i \in DOMAIN posts : posts'[i] = posts[i] /\ i \in Nat /\ i < n
  BY <1>1, <1>2, <1>3, <1>n
<1>5. Sent(b)' = Sent(b) \cup {n} /\ \A c : c # b => Sent(c)' = Sent(c)
  BY <1>3, <1>4 DEF Sent
<1>6. \A c : Sent(c) \subseteq Sent(c)' /\ Sent(c) \subseteq DOMAIN posts
  BY <1>5 DEF Sent
<1>7. \A c : Quiet(c)' => Quiet(c)
  BY <1>1, <1>6 DEF Quiet
<1>8. \A i \in DOMAIN posts : i \in Running' <=> i \in Running
  BY <1>4 DEF Running
<1>9. HecTyped'
  <2>1. ASSUME NEW i \in DOMAIN posts' PROVE PostTyped(posts'[i]) /\ posts'[i].uploaded <= now
    <3>1. CASE i = n
      BY <1>2, <1>3, <1>4, <3>1 DEF PostTyped
    <3>2. CASE i # n
      BY <1>2, <1>4, <3>2 DEF HecTyped
    <3> QED
      BY <3>1, <3>2
  <2> QED
    BY <1>1, <1>2, <1>4, <2>1 DEF HecTyped
<1>10. RowsHaveSource'
  <2>1. DOMAIN posts \subseteq DOMAIN posts' /\ \A i \in DOMAIN posts : posts'[i] = posts[i]
    BY <1>4
  <2> QED
    BY <1>1, <1>2, <2>1 DEF RowsHaveSource
<1>11. ASSUME NEW c \in DOMAIN Bodies PROVE (told'[c] = 0 => LinesOfBody(c) \subseteq RowLines') /\ OneAfterOther(c)'
  <2>1. (told[c] = 0 => LinesOfBody(c) \subseteq RowLines) /\ OneAfterOther(c) /\ RowLines' = RowLines
    BY <1>1 DEF HecInv, RowLines
  <2>2. c \notin broken' => \A i \in Sent(c)' : posts'[i].at # "dead"
    BY <1>1, <1>3, <1>4, <1>5, <1>6, <2>1 DEF OneAfterOther
  <2>3. ASSUME c \notin overlapped' \cup broken', NEW i \in Sent(c)', NEW j \in Sent(c)', i < j PROVE i \notin Running'
    <3>1. i \in Sent(c)
      BY <1>4, <1>5, <1>6, <2>3
    <3>2. CASE j \in Sent(c)
      BY <1>1, <1>6, <1>8, <2>1, <2>3, <3>1, <3>2 DEF OneAfterOther
    <3>3. CASE j \notin Sent(c)
      BY <1>1, <1>5, <1>6, <1>8, <2>3, <3>1, <3>3
    <3> QED
      BY <3>2, <3>3
  <2> QED
    BY <1>1, <2>1, <2>2, <2>3 DEF OneAfterOther
<1>12. OneTime'
  <2>1. OneTime
    BY DEF HecInv
  <2> QED
    BY <1>1, <1>7, <2>1 DEF OneTime
<1>13. ASSUME NEW i \in DOMAIN posts' PROVE WrittenTo(posts'[i], RowLines')
  <2>1. RowLines' = RowLines
    BY <1>1 DEF RowLines
  <2>2. CASE i = n
    BY <1>3, <1>4, <2>2 DEF WrittenTo
  <2>3. CASE i # n
    BY <1>4, <2>1, <2>3, PostRead
  <2> QED
    BY <2>2, <2>3
<1>14. ASSUME NEW i \in DOMAIN posts, posts[i].body # b PROVE PostHolds(i)'
  <2>1. posts'[i] = posts[i] /\ Sent(posts[i].body)' = Sent(posts[i].body) /\ PostHolds(i)
    BY <1>4, <1>5, <1>14, PostRead
  <2>2. Place(i)' = Place(i) /\ (Quiet(posts[i].body)' => Quiet(posts[i].body))
    BY <1>1, <2>1 DEF Place, Quiet
  <2> QED
    BY <1>1, <2>1, <2>2 DEF PostHolds
<1>15. ASSUME NEW j \in Sent(b), Quiet(b)'
       PROVE  Sent(b) = {j} /\ posts[j].at = "answered" /\ Place(j) = "only" /\ Holds(posts[j], "only", eventRows, batches)
  <2>1. Sent(b) = {j}
    BY <1>4, <1>5, <1>6, <1>15 DEF Quiet
  <2>2. j \in DOMAIN posts /\ posts[j].body = b
    BY DEF Sent
  <2>3. j \notin Running /\ b \notin broken
    BY <1>1, <1>15 DEF Quiet
  <2>4. OneAfterOther(b)
    BY DEF HecInv
  <2>5. posts[j].at = "answered"
    BY <2>2, <2>3, <2>4 DEF OneAfterOther, Running
  <2>6. Place(j) = "only"
    BY <2>1, <2>2 DEF Place
  <2>7. Quiet(b) /\ PostHolds(j)
    BY <1>7, <1>15, <2>2, PostRead
  <2> QED
    BY <2>1, <2>2, <2>5, <2>6, <2>7 DEF PostHolds
<1>16. ASSUME NEW i \in Sent(b), Quiet(b)' PROVE Holds(posts[i], Place(i), eventRows, batches)'
  <2>1. i \in DOMAIN posts /\ posts[i].body = b /\ posts'[i] = posts[i]
    BY <1>4, <1>6 DEF Sent
  <2>2. Sent(b)' # {i}
    BY <1>4, <1>5, <2>1
  <2>3. Place(i)' # "only" /\ posts'[i].at = "answered"
    BY <1>15, <1>16, <2>1, <2>2 DEF Place
  <2> QED
    BY <2>3 DEF Holds, Ahead, Amid
<1>17. ASSUME Quiet(b)' PROVE Holds(p, Place(n)', eventRows', batches')
  <2>1. \A g : ~Amid(p, g, "write") /\ ~Amid(p, g, "mark") /\ ~Behind(p, g)
    BY <1>3 DEF Amid, Behind
  <2>2. CASE Sent(b) = {}
    <3>1. \A g \in DOMAIN Bodies[b].groups : \A l \in LinesOf(Batch(b, g)) : Untouched(eventRows, batches, b, g, l)
      BY <2>2, FreshIsUntouched
    <3> QED
      BY <1>1, <1>3, <2>1, <3>1 DEF Holds, Settled
  <2>3. CASE Sent(b) # {}
    <3>1. PICK j \in Sent(b) : TRUE
      BY <2>3
    <3>2. posts[j].at = "answered" /\ posts[j].body = b /\ Holds(posts[j], "only", eventRows, batches)
      BY <1>15, <1>17 DEF Sent
    <3>3. \A g \in DOMAIN Bodies[b].groups : \A l \in LinesOf(Batch(b, g)) \ Dated : Settled(eventRows, batches, b, g, l)
      BY <3>2 DEF Holds, Behind
    <3>4. Place(n)' = "later"
      <4>1. /\ posts'[n].body = b /\ n \in DOMAIN posts'
            /\ posts'[j].body = b /\ j \in DOMAIN posts' /\ j # n /\ ~(n <= j)
        BY <1>3, <1>4, <1>6, <3>2
      <4> QED
        BY <4>1 DEF Place, Sent
    <3> QED
      BY <1>1, <1>3, <2>1, <3>3, <3>4 DEF Holds
  <2> QED
    BY <2>2, <2>3
<1>18. ASSUME NEW i \in DOMAIN posts' PROVE PostHolds(i)'
  <2>1. CASE i = n
    <3> SUFFICES ASSUME Quiet(posts[n].body)' PROVE Holds(posts[n], Place(n), eventRows, batches)'
      BY <2>1 DEF PostHolds
    <3>1. posts'[n].body = b /\ posts'[n] = p
      BY <1>3, <1>4
    <3>2. Quiet(b)'
      BY <3>1 DEF Quiet, Sent
    <3> QED
      BY <1>17, <3>1, <3>2
  <2>2. CASE i # n /\ posts[i].body # b
    BY <1>4, <1>14, <2>2
  <2>3. CASE i # n /\ posts[i].body = b
    <3>1. i \in Sent(b) /\ posts'[i].body = b
      BY <1>4, <2>3 DEF Sent
    <3> QED
      BY <1>16, <3>1 DEF PostHolds
  <2> QED
    BY <2>1, <2>2, <2>3
<1> QED
  BY <1>9, <1>10, <1>11, <1>12, <1>13, <1>18 DEF HecInv

LEMMA HecInvInit == HecInit => HecInv
<1> SUFFICES ASSUME HecInit PROVE HecInv
  OBVIOUS
<1>1. /\ posts = <<>> /\ told = [b \in DOMAIN Bodies |-> -1] /\ batches = {} /\ eventRows = {} /\ now = 1
  BY DEF HecInit
<1>2. DOMAIN posts = {} /\ posts \in Seq(PostSet) /\ \A b : Sent(b) = {}
  BY <1>1 DEF Sent
<1>3. HecTyped
  BY <1>1, <1>2 DEF HecTyped
<1>4. RowsHaveSource /\ OneTime
  BY <1>1 DEF RowsHaveSource, OneTime, TimesIn
<1>5. \A b \in DOMAIN Bodies : told[b] = -1 /\ OneAfterOther(b)
  BY <1>1, <1>2 DEF OneAfterOther
<1> QED
  BY <1>2, <1>3, <1>4, <1>5 DEF HecInv

LEMMA HecInvStep == LinesAreApart /\ HecInv /\ [HecNext]_hecVars => HecInv'
<1> SUFFICES ASSUME LinesAreApart, HecInv, [HecNext]_hecVars PROVE HecInv'
  OBVIOUS
<1>1. CASE UNCHANGED hecVars
  <2>1. UNCHANGED <<posts, told, heard, batches, eventRows, now, overlapped, broken, storeFaults>>
    BY <1>1 DEF hecVars
  <2>2. RowLines' = RowLines /\ Running' = Running /\ \A b : Sent(b)' = Sent(b) /\ (Quiet(b)' <=> Quiet(b))
    BY <2>1 DEF RowLines, Running, Sent, Quiet
  <2>3. HecTyped' /\ RowsHaveSource' /\ OneTime'
    <3>1. HecTyped'
      BY <2>1 DEF HecInv, HecTyped
    <3>2. RowsHaveSource'
      BY <2>1 DEF HecInv, RowsHaveSource
    <3>3. OneTime'
      BY <2>1, <2>2 DEF HecInv, OneTime
    <3> QED
      BY <3>1, <3>2, <3>3
  <2>4. ASSUME NEW i \in DOMAIN posts' PROVE WrittenTo(posts'[i], RowLines') /\ PostHolds(i)'
    <3>1. WrittenTo(posts[i], RowLines) /\ PostHolds(i)
      BY <2>1 DEF HecInv
    <3> QED
      BY <2>1, <2>2, <3>1 DEF PostHolds, Place, Sent, Quiet
  <2>5. ASSUME NEW b \in DOMAIN Bodies PROVE (told'[b] = 0 => LinesOfBody(b) \subseteq RowLines') /\ OneAfterOther(b)'
    <3>1. (told[b] = 0 => LinesOfBody(b) \subseteq RowLines) /\ OneAfterOther(b)
      BY DEF HecInv
    <3> QED
      BY <2>1, <2>2, <3>1 DEF OneAfterOther
  <2> QED
    BY <2>3, <2>4, <2>5 DEF HecInv
<1>2. CASE \E b \in DOMAIN Bodies : Post(b)
  BY <1>2, PostStep
<1>3. ASSUME NEW i \in DOMAIN posts, Admit(i) \/ Look3(i) \/ Write3(i) \/ Mark3(i) \/ StoreRaises(i) \/ Hear(i)
      PROVE  HecInv'
  BY <1>3, AdmitStep, Look3Step, Write3Step, Mark3Step, StoreRaisesStep, HearStep
<1>4. CASE ServerDies
  BY <1>4, ServerDiesStep
<1> QED
  BY <1>1, <1>2, <1>3, <1>4 DEF HecNext
-----------------------------------------------------------------------------
LEMMA AnswersFollow == LinesAreApart /\ HecInv => AnswersAreTrue
<1> SUFFICES ASSUME LinesAreApart, HecInv PROVE AnswersAreTrue
  OBVIOUS
<1>1. RowsHaveSource /\ HecTyped /\ OneTime
  BY DEF HecInv
<1>2. \A i \in DOMAIN posts : posts[i].body \in DOMAIN Bodies
  BY PostRead
<1>3. SuccessIsStored
  BY DEF HecInv, SuccessIsStored
<1>4. RefusedLeavesNothing
  <2> SUFFICES ASSUME NEW b \in DOMAIN Bodies, NEW l \in LinesOfBody(b), l \in RowLines,
                      \A i \in Sent(b) : posts[i].at = "answered" /\ posts[i].answer \in {2, 4, 5, 6, 9, 12}
               PROVE  FALSE
    BY DEF RefusedLeavesNothing
  <2>1. PICK r \in eventRows : r.line = l
    BY DEF RowLines
  <2>2. PICK i \in DOMAIN posts : l \in LinesOfBody(posts[i].body) /\ TookIn(posts[i])
    BY <1>1, <2>1 DEF RowsHaveSource
  <2>3. posts[i].body = b
    <3>1. PICK g \in DOMAIN Bodies[b].groups : l \in LinesOf(Batch(b, g))
      BY DEF LinesOfBody, Batch
    <3>2. PICK h \in DOMAIN Bodies[posts[i].body].groups : l \in LinesOf(Batch(posts[i].body, h))
      BY <2>2 DEF LinesOfBody, Batch
    <3> QED
      BY <1>2, <3>1, <3>2, BatchesApart
  <2> QED
    BY <2>2, <2>3 DEF Sent, TookIn
<1>5. RetryStoresOnce
  <2> SUFFICES ASSUME NEW r \in eventRows, NEW s \in eventRows, r.line = s.line, r # s
               PROVE  \E b \in DOMAIN Bodies : /\ r.line \in LinesOfBody(b)
                                               /\ b \in overlapped \cup broken \/ Cardinality(Sent(b)) > 2
    BY DEF RetryStoresOnce
  <2>1. PICK i \in DOMAIN posts : r.line \in LinesOfBody(posts[i].body)
    BY <1>1 DEF RowsHaveSource
  <2> DEFINE b == posts[i].body
  <2>2. b \in DOMAIN Bodies /\ r.line \in LinesOfBody(b)
    BY <1>2, <2>1
  <2>3. r.time # s.time /\ r.line \notin Dated
    <3>1. r = [line |-> r.line, time |-> r.time] /\ s = [line |-> s.line, time |-> s.time]
      BY <1>1 DEF HecTyped, Rows
    <3>2. r.line \in Dated => r.time = 0 /\ s.time = 0
      BY <1>1 DEF RowsHaveSource
    <3> QED
      BY <3>1, <3>2
  <2>4. ~Quiet(b)
    <3>1. PICK g \in DOMAIN Bodies[b].groups : r.line \in LinesOf(Batch(b, g))
      BY <2>2 DEF LinesOfBody, Batch
    <3>2. r.time \in TimesIn(eventRows, r.line) /\ s.time \in TimesIn(eventRows, r.line)
      BY DEF TimesIn
    <3> QED
      BY <1>1, <2>2, <2>3, <3>1, <3>2 DEF OneTime
  <2>5. ASSUME b \notin overlapped \cup broken PROVE Cardinality(Sent(b)) > 2
    <3>1. PICK x \in Sent(b), y \in Sent(b), z \in Sent(b) : x # y /\ y # z /\ x # z
      BY <2>4, <2>5 DEF Quiet
    <3>2. IsFiniteSet(Sent(b))
      <4>1. Sent(b) \in SUBSET (1 .. Len(posts)) /\ Len(posts) \in Nat
        BY <1>1 DEF Sent, HecTyped
      <4>2. IsFiniteSet(1 .. Len(posts))
        BY <4>1, FS_Interval
      <4> QED
        BY <4>1, <4>2, FS_Subset
    <3>3. {x, y, z} \in SUBSET Sent(b)
      OBVIOUS
    <3>4. Cardinality({x, y, z}) = 3
      BY <3>1, ThreeCount
    <3>5. Cardinality({x, y, z}) <= Cardinality(Sent(b)) /\ Cardinality(Sent(b)) \in Nat
      BY <3>2, <3>3, FS_Subset, FS_CardinalityType
    <3> QED
      BY <3>4, <3>5
  <2> HIDE DEF b
  <2> QED
    BY <2>2, <2>5
<1> QED
  BY <1>3, <1>4, <1>5 DEF AnswersAreTrue

(* Where a line stands for one event of one body, whatever the requests    *)
(* that overlap, the stores that fail and the process that dies: a sender  *)
(* told Success has all of its body stored, a body that was only refused   *)
(* has nothing stored, and a retry stores each line once (hec._handle,     *)
(* hec._store, ingest.ingest).                                             *)
THEOREM HecAnswersStayTrue == LinesAreApart => (HecSpec => []AnswersAreTrue)
<1> SUFFICES ASSUME LinesAreApart PROVE HecSpec => []AnswersAreTrue
  OBVIOUS
<1>1. HecInit => HecInv
  BY HecInvInit
<1>2. HecInv /\ [HecNext]_hecVars => HecInv'
  BY HecInvStep
<1>3. HecInv => AnswersAreTrue
  BY AnswersFollow
<1> QED
  BY <1>1, <1>2, <1>3, PTL DEF HecSpec
-----------------------------------------------------------------------------
(* The template cache of the flow receiver (FlowTemplates).                 *)
Distinct(s) == \A i, j \in DOMAIN s : s[i] = s[j] => i = j

\* The keys of the cache are the last of those used.
EndsWith(s, o) == Len(o) <= Len(s) /\ \A i \in 1..Len(o) : o[i] = s[Len(s) - Len(o) + i]

LEMMA WithoutIs ==
  ASSUME NEW S, NEW s \in Seq(S), NEW i \in 1..Len(s)
  PROVE  /\ Without1(s, i) \in Seq(S) /\ Len(Without1(s, i)) = Len(s) - 1
         /\ \A j \in 1..(Len(s) - 1) : Without1(s, i)[j] = IF j < i THEN s[j] ELSE s[j + 1]
<1> DEFINE x == SubSeq(s, 1, i - 1)
           y == SubSeq(s, i + 1, Len(s))
<1>1. x \in Seq(S) /\ Len(x) = i - 1 /\ \A j \in 1..(i - 1) : x[j] = s[j]
  <2>1. \A j \in 1..(i - 1) : s[j] \in S
    OBVIOUS
  <2>2. /\ x \in Seq(S) /\ Len(x) = (IF 1 <= i - 1 THEN (i - 1) - 1 + 1 ELSE 0)
        /\ \A j \in 1..((i - 1) - 1 + 1) : x[j] = s[1 + j - 1]
    BY <2>1, SubSeqProperties
  <2> QED
    BY <2>2
<1>2. y \in Seq(S) /\ Len(y) = Len(s) - i /\ \A j \in 1..(Len(s) - i) : y[j] = s[i + j]
  <2>1. \A j \in (i + 1)..Len(s) : s[j] \in S
    OBVIOUS
  <2>2. /\ y \in Seq(S) /\ Len(y) = (IF i + 1 <= Len(s) THEN Len(s) - (i + 1) + 1 ELSE 0)
        /\ \A j \in 1..(Len(s) - (i + 1) + 1) : y[j] = s[(i + 1) + j - 1]
    BY <2>1, SubSeqProperties
  <2> QED
    BY <2>2
<1> HIDE DEF x, y
<1>3. /\ x \o y \in Seq(S) /\ Len(x \o y) = Len(x) + Len(y)
      /\ \A j \in 1..(Len(x) + Len(y)) : (x \o y)[j] = IF j <= Len(x) THEN x[j] ELSE y[j - Len(x)]
  BY <1>1, <1>2, ConcatProperties
<1>4. Without1(s, i) = x \o y
  BY DEF Without1, x, y
<1>5. ASSUME NEW j \in 1..(Len(s) - 1) PROVE (x \o y)[j] = IF j < i THEN s[j] ELSE s[j + 1]
  <2>1. (x \o y)[j] = IF j <= i - 1 THEN x[j] ELSE y[j - (i - 1)]
    BY <1>1, <1>2, <1>3
  <2>2. CASE j < i
    BY <2>1, <2>2, <1>1
  <2>3. CASE ~(j < i)
    <3>1. j - (i - 1) \in 1..(Len(s) - i) /\ i + (j - (i - 1)) = j + 1 /\ ~(j <= i - 1)
      BY <2>3
    <3>2. y[j - (i - 1)] = s[j + 1]
      BY <3>1, <1>2
    <3> QED
      BY <2>1, <2>3, <3>1, <3>2
  <2> QED
    BY <2>2, <2>3
<1> QED
  BY <1>1, <1>2, <1>3, <1>4, <1>5

LEMMA MovedIs ==
  ASSUME NEW S, NEW s \in Seq(S), NEW key \in S, Distinct(s)
  PROVE  LET t == MovedToEnd(s, key)
         IN  /\ t \in Seq(S)
             /\ key \notin ToSet(s) => /\ Len(t) = Len(s) + 1 /\ t[Len(s) + 1] = key
                                       /\ \A j \in 1..Len(s) : t[j] = s[j]
             /\ key \in ToSet(s) => \E pos \in 1..Len(s) :
                    /\ s[pos] = key /\ Len(t) = Len(s) /\ t[Len(s)] = key
                    /\ \A j \in 1..(Len(s) - 1) : t[j] = IF j < pos THEN s[j] ELSE s[j + 1]
<1> DEFINE t == MovedToEnd(s, key)
<1>1. CASE key \notin ToSet(s)
  <2>1. t = Append(s, key)
    BY <1>1 DEF MovedToEnd
  <2> HIDE DEF t
  <2>2. /\ t \in Seq(S) /\ Len(t) = Len(s) + 1 /\ t[Len(s) + 1] = key
        /\ \A j \in 1..Len(s) : t[j] = s[j]
    BY <2>1, AppendProperties
  <2> QED
    BY <2>2, <1>1 DEF t
<1>2. CASE key \in ToSet(s)
  <2> DEFINE pos == CHOOSE i \in DOMAIN s : s[i] = key
  <2>1. pos \in 1..Len(s) /\ s[pos] = key
    BY <1>2 DEF ToSet
  <2>2. t = Append(Without1(s, pos), key)
    BY <1>2 DEF MovedToEnd
  <2> HIDE DEF pos, t
  <2> DEFINE x == Without1(s, pos)
  <2>3. /\ x \in Seq(S) /\ Len(x) = Len(s) - 1
        /\ \A j \in 1..(Len(s) - 1) : x[j] = IF j < pos THEN s[j] ELSE s[j + 1]
    BY <2>1, WithoutIs
  <2> HIDE DEF x
  <2>4. /\ t \in Seq(S) /\ Len(t) = Len(s) /\ t[Len(s)] = key
        /\ \A j \in 1..(Len(s) - 1) : t[j] = x[j]
    BY <2>2, <2>3 DEF x
  <2> QED
    BY <1>2, <2>1, <2>3, <2>4 DEF t
<1> QED
  BY <1>1, <1>2

LEMMA MovedFrom ==
  ASSUME NEW S, NEW s \in Seq(S), NEW key \in S, Distinct(s), key \in ToSet(s)
  PROVE  LET t == MovedToEnd(s, key)
         IN  \E pos \in 1..Len(s) : /\ s[pos] = key /\ Len(t) = Len(s) /\ t[Len(s)] = key
                                   /\ \A j \in 1..(Len(s) - 1) : t[j] = IF j < pos THEN s[j] ELSE s[j + 1]
BY MovedIs

LEMMA MovedKeeps ==
  ASSUME NEW S, NEW s \in Seq(S), NEW key \in S, Distinct(s)
  PROVE  LET t == MovedToEnd(s, key)
         IN  t \in Seq(S) /\ Distinct(t) /\ ToSet(t) = ToSet(s) \cup {key} /\ Len(t) # 0 /\ t[Len(t)] = key
<1> DEFINE t == MovedToEnd(s, key)
<1>1. CASE key \notin ToSet(s)
  <2>1. t \in Seq(S) /\ Len(t) = Len(s) + 1 /\ t[Len(s) + 1] = key /\ \A j \in 1..Len(s) : t[j] = s[j]
    BY <1>1, MovedIs
  <2> HIDE DEF t
  <2>2. \A j \in DOMAIN t : j \in 1..Len(s) \/ j = Len(s) + 1
    BY <2>1
  <2>3. Distinct(t)
    BY <2>1, <2>2, <1>1 DEF Distinct, ToSet
  <2>4. ToSet(t) \subseteq ToSet(s) \cup {key}
    BY <2>1, <2>2 DEF ToSet
  <2>5. ToSet(s) \cup {key} \subseteq ToSet(t)
    BY <2>1 DEF ToSet
  <2> QED
    BY <2>1, <2>3, <2>4, <2>5 DEF t
<1>2. CASE key \in ToSet(s)
  <2>0. \E pos \in 1..Len(s) : /\ s[pos] = key /\ Len(t) = Len(s) /\ t[Len(s)] = key
                              /\ \A j \in 1..(Len(s) - 1) : t[j] = IF j < pos THEN s[j] ELSE s[j + 1]
    BY <1>2, MovedFrom
  <2>1. PICK pos \in 1..Len(s) : /\ s[pos] = key /\ Len(t) = Len(s) /\ t[Len(s)] = key
                               /\ \A j \in 1..(Len(s) - 1) : t[j] = IF j < pos THEN s[j] ELSE s[j + 1]
    BY <2>0
  <2>2. t \in Seq(S)
    BY MovedIs
  <2> HIDE DEF t
  <2> DEFINE F(j) == IF j = Len(s) THEN pos ELSE IF j < pos THEN j ELSE j + 1
  <2>3. \A j \in 1..Len(s) : F(j) \in 1..Len(s) /\ t[j] = s[F(j)]
    BY <2>1
  <2>4. \A i, j \in 1..Len(s) : F(i) = F(j) => i = j
    OBVIOUS
  <2>5. \A j \in 1..Len(s) : \E i \in 1..Len(s) : F(i) = j
    <3> SUFFICES ASSUME NEW j \in 1..Len(s) PROVE \E i \in 1..Len(s) : F(i) = j
      OBVIOUS
    <3>1. CASE j = pos
      BY <3>1
    <3>2. CASE j < pos
      BY <3>2
    <3>3. CASE j > pos
      <4>1. j - 1 \in 1..Len(s) /\ F(j - 1) = j
        BY <3>3
      <4> QED
        BY <4>1
    <3> QED
      BY <3>1, <3>2, <3>3
  <2> HIDE DEF F
  <2>6. DOMAIN t = 1..Len(s) /\ DOMAIN s = 1..Len(s) /\ Len(s) \in Nat
    BY <2>1, <2>2, LenProperties
  <2>7. Distinct(t)
    <3> SUFFICES ASSUME NEW i \in 1..Len(s), NEW j \in 1..Len(s), t[i] = t[j] PROVE i = j
      BY <2>6 DEF Distinct
    <3>1. F(i) = F(j)
      <4>1. s[F(i)] = s[F(j)] /\ F(i) \in DOMAIN s /\ F(j) \in DOMAIN s
        BY <2>3, <2>6
      <4> QED
        BY <4>1 DEF Distinct
    <3> QED
      BY <2>4, <3>1
  <2>8. ToSet(t) = ToSet(s)
    <3>1. ToSet(t) \subseteq ToSet(s)
      BY <2>3, <2>6 DEF ToSet
    <3>2. ASSUME NEW j \in 1..Len(s) PROVE s[j] \in ToSet(t)
      <4>1. PICK i \in 1..Len(s) : F(i) = j
        BY <2>5
      <4> QED
        BY <4>1, <2>3, <2>6 DEF ToSet
    <3> QED
      BY <3>1, <3>2, <2>6 DEF ToSet
  <2>9. Len(t) # 0 /\ t[Len(t)] = key
    BY <2>1, <2>6
  <2>10. ToSet(s) = ToSet(s) \cup {key}
    BY <1>2
  <2> QED
    BY <2>2, <2>7, <2>8, <2>9, <2>10 DEF t
<1> QED
  BY <1>1, <1>2

\* What is moved to the end of both stays the last of both.
LEMMA MovedTogether ==
  ASSUME NEW S, NEW s \in Seq(S), NEW o \in Seq(S), Distinct(s), EndsWith(s, o), NEW key \in S
  PROVE  LET t == MovedToEnd(s, key)
             p == MovedToEnd(o, key)
         IN  /\ Distinct(o)
             /\ key \in ToSet(o) \/ key \notin ToSet(s) => EndsWith(t, p)
             /\ key \notin ToSet(o) => EndsWith(t, Tail(p)) /\ Len(p) = Len(o) + 1
             /\ key \in ToSet(o) => Len(p) = Len(o) /\ Len(t) = Len(s)
             /\ key \in ToSet(s) => Len(t) = Len(s)
             /\ key \notin ToSet(s) => Len(t) = Len(s) + 1
<1> DEFINE t == MovedToEnd(s, key)
           p == MovedToEnd(o, key)
           m == Len(o)
           n == Len(s)
<1>0. m \in Nat /\ n \in Nat /\ m <= n /\ \A i \in 1..m : o[i] = s[n - m + i]
  BY DEF EndsWith
<1>1. Distinct(o)
  BY <1>0 DEF Distinct
<1>2. t \in Seq(S) /\ p \in Seq(S)
  BY <1>1, MovedIs
<1>3. CASE key \in ToSet(o)
  <2>0. \E pos \in 1..m : /\ o[pos] = key /\ Len(p) = m /\ p[m] = key
                         /\ \A j \in 1..(m - 1) : p[j] = IF j < pos THEN o[j] ELSE o[j + 1]
    BY <1>1, <1>3, MovedFrom
  <2>1. PICK pos \in 1..m : /\ o[pos] = key /\ Len(p) = m /\ p[m] = key
                          /\ \A j \in 1..(m - 1) : p[j] = IF j < pos THEN o[j] ELSE o[j + 1]
    BY <2>0
  <2>2. key \in ToSet(s)
    BY <2>1, <1>0 DEF ToSet
  <2>3. PICK r \in 1..n : /\ s[r] = key /\ Len(t) = n /\ t[n] = key
                          /\ \A j \in 1..(n - 1) : t[j] = IF j < r THEN s[j] ELSE s[j + 1]
    BY <2>2, MovedFrom
  <2>4. r = n - m + pos
    <3>1. n - m + pos \in 1..n /\ s[n - m + pos] = key
      BY <2>1, <1>0
    <3> QED
      <4>1. DOMAIN s = 1..n
        OBVIOUS
      <4> HIDE DEF t, p, m, n
      <4>2. \A i, j \in 1..n : s[i] = s[j] => i = j
        BY <4>1 DEF Distinct
      <4> QED
        BY <3>1, <2>3, <4>2
  <2> HIDE DEF t, p, m, n
  <2>5. ASSUME NEW i \in 1..m PROVE p[i] = t[n - m + i]
    <3>1. CASE i = m
      BY <3>1, <2>1, <2>3, <1>0
    <3>2. CASE i < pos
      BY <3>2, <2>1, <2>3, <2>4, <1>0
    <3>3. CASE i >= pos /\ i # m
      <4>1. i \in 1..(m - 1) /\ i + 1 \in 1..m /\ n - m + i \in 1..(n - 1) /\ ~(n - m + i < r) /\ ~(i < pos)
        BY <3>3, <2>4, <1>0
      <4>2. p[i] = o[i + 1]
        BY <4>1, <2>1
      <4>3. t[n - m + i] = s[(n - m + i) + 1]
        BY <4>1, <2>3
      <4>4. o[i + 1] = s[n - m + (i + 1)] /\ n - m + (i + 1) = (n - m + i) + 1
        BY <4>1, <1>0
      <4> QED
        BY <4>2, <4>3, <4>4
    <3> QED
      BY <3>1, <3>2, <3>3
  <2>6. EndsWith(t, p)
    BY <2>1, <2>3, <2>5, <1>0 DEF EndsWith
  <2> QED
    BY <1>1, <1>3, <2>1, <2>2, <2>3, <2>6 DEF t, p, m, n
<1>4. CASE key \notin ToSet(o)
  <2>1. Len(p) = m + 1 /\ p[m + 1] = key /\ \A j \in 1..m : p[j] = o[j]
    BY <1>1, <1>4, MovedIs
  <2>2. Tail(p) \in Seq(S) /\ Len(Tail(p)) = m /\ \A j \in 1..m : Tail(p)[j] = p[j + 1]
    <3> HIDE DEF p
    <3>1. p # <<>>
      BY <2>1, <1>2, <1>0
    <3> QED
      BY <3>1, <2>1, <1>2, <1>0, HeadTailProperties
  <2>3. CASE key \notin ToSet(s)
    <3>1. Len(t) = n + 1 /\ t[n + 1] = key /\ \A j \in 1..n : t[j] = s[j]
      BY <2>3, MovedIs
    <3> HIDE DEF t, p, m, n
    <3>2. ASSUME NEW i \in 1..(m + 1) PROVE p[i] = t[(n + 1) - (m + 1) + i]
      <4>1. CASE i = m + 1
        <5>1. (n + 1) - (m + 1) + i = n + 1
          BY <4>1, <1>0
        <5> QED
          BY <4>1, <5>1, <2>1, <3>1
      <4>2. CASE i # m + 1
        <5>1. i \in 1..m /\ n - m + i \in 1..n /\ (n + 1) - (m + 1) + i = n - m + i
          BY <4>2, <1>0
        <5> QED
          BY <5>1, <2>1, <3>1, <1>0
      <4> QED
        BY <4>1, <4>2
    <3>3. EndsWith(t, p)
      BY <2>1, <3>1, <3>2, <1>0 DEF EndsWith
    <3>4. ASSUME NEW i \in 1..m PROVE Tail(p)[i] = t[(n + 1) - m + i]
      <4>1. i + 1 \in 1..(m + 1) /\ (n + 1) - (m + 1) + (i + 1) = (n + 1) - m + i
        BY <1>0
      <4> QED
        BY <4>1, <2>2, <3>2
    <3>5. EndsWith(t, Tail(p))
      <4>1. Len(Tail(p)) <= Len(t)
        BY <2>2, <3>1, <1>0
      <4>2. \A i \in 1..Len(Tail(p)) : Tail(p)[i] = t[Len(t) - Len(Tail(p)) + i]
        BY <2>2, <3>1, <3>4
      <4> QED
        BY <4>1, <4>2 DEF EndsWith
    <3> QED
      BY <1>1, <1>4, <2>1, <2>3, <3>1, <3>3, <3>5 DEF t, p, m, n
  <2>4. CASE key \in ToSet(s)
    <3>1. PICK r \in 1..n : /\ s[r] = key /\ Len(t) = n /\ t[n] = key
                            /\ \A j \in 1..(n - 1) : t[j] = IF j < r THEN s[j] ELSE s[j + 1]
      BY <2>4, MovedFrom
    <3>2. r <= n - m
      <4>1. r > n - m => r - (n - m) \in 1..m /\ o[r - (n - m)] = s[r]
        BY <1>0
      <4> QED
        BY <4>1, <1>0, <1>4, <3>1 DEF ToSet
    <3> HIDE DEF t, p, m, n
    <3>3. ASSUME NEW i \in 1..m PROVE Tail(p)[i] = t[n - m + i]
      <4>1. CASE i = m
        BY <4>1, <2>1, <2>2, <3>1, <1>0
      <4>2. CASE i # m
        <5>1. n - m + i \in 1..(n - 1) /\ ~(n - m + i < r) /\ i + 1 \in 1..m
          BY <4>2, <3>2, <1>0
        <5>2. t[n - m + i] = s[(n - m + i) + 1] /\ Tail(p)[i] = o[i + 1]
          BY <5>1, <3>1, <2>1, <2>2
        <5>3. o[i + 1] = s[n - m + (i + 1)] /\ n - m + (i + 1) = (n - m + i) + 1
          BY <5>1, <1>0
        <5> QED
          BY <5>2, <5>3
      <4> QED
        BY <4>1, <4>2
    <3>4. EndsWith(t, Tail(p))
      BY <2>2, <3>1, <3>3, <1>0 DEF EndsWith
    <3> QED
      BY <1>1, <1>4, <2>1, <2>4, <3>1, <3>4 DEF t, p, m, n
  <2> QED
    BY <2>3, <2>4
<1> QED
  BY <1>3, <1>4
-----------------------------------------------------------------------------
(* A walk over the sets of a packet, one at a time.                         *)
Form(w) ==
    w = [cache |-> w.cache, redefined |-> w.redefined, evicted |-> w.evicted, unknown |-> w.unknown,
         skipped |-> w.skipped, taught |-> w.taught, used |-> w.used, changed |-> w.changed,
         rows |-> w.rows, flows |-> w.flows, seq |-> w.seq, at |-> w.at, count |-> w.count,
         misread |-> w.misread, stale |-> w.stale, cut |-> w.cut]

\* The cache holds the keys used last and what they were taught last, and its counters
\* tell of what it has lost.
Kept(cache, keys, learnt, lost) ==
    /\ keys \in Seq(TemplateKeys) /\ Distinct(keys)
    /\ cache = [order |-> cache.order, shape |-> cache.shape]
    /\ cache.order \in Seq(TemplateKeys) /\ EndsWith(keys, cache.order) /\ Len(cache.order) <= MaxTemplates
    /\ Len(cache.order) < Len(keys) => Len(cache.order) = MaxTemplates /\ lost > 0
    /\ DOMAIN learnt = ToSet(keys) /\ DOMAIN cache.shape = ToSet(cache.order)
    /\ \A k \in DOMAIN cache.shape : cache.shape[k] = learnt[k]
    /\ lost \in Nat

Coherent(w) ==
    /\ Form(w) /\ Kept(w.cache, w.used, w.taught, w.evicted)
    /\ w.redefined \in Nat /\ w.unknown \in Nat /\ w.at \in Nat /\ w.count \in Nat
    /\ w.changed => w.redefined + w.evicted > 0
    /\ ~w.stale

LEMMA TailKeeps ==
  ASSUME NEW S, NEW s \in Seq(S), Len(s) # 0
  PROVE  Tail(s) \in Seq(S) /\ Len(Tail(s)) = Len(s) - 1 /\ ToSet(Tail(s)) \subseteq ToSet(s)
         /\ (Len(s) > 1 => s[Len(s)] \in ToSet(Tail(s)))
<1>1. s # <<>>
  OBVIOUS
<1>2. Tail(s) \in Seq(S) /\ Len(Tail(s)) = Len(s) - 1 /\ \A i \in 1..Len(Tail(s)) : Tail(s)[i] = s[i + 1]
  BY <1>1, HeadTailProperties
<1>3. \A i \in DOMAIN Tail(s) : i + 1 \in DOMAIN s /\ Tail(s)[i] = s[i + 1]
  BY <1>2
<1>4. Len(s) > 1 => Len(s) - 1 \in DOMAIN Tail(s) /\ Tail(s)[Len(s) - 1] = s[Len(s)]
  BY <1>2
<1> QED
  BY <1>2, <1>3, <1>4 DEF ToSet

LEMMA EndedBy ==
  ASSUME NEW S, NEW s \in Seq(S), NEW o \in Seq(S), EndsWith(s, o)
  PROVE  Len(s) \in Nat /\ Len(o) \in Nat /\ Len(o) <= Len(s) /\ ToSet(o) \subseteq ToSet(s)
<1>1. \A i \in 1..Len(o) : Len(s) - Len(o) + i \in 1..Len(s) /\ o[i] = s[Len(s) - Len(o) + i]
  BY DEF EndsWith
<1>2. DOMAIN o = 1..Len(o) /\ DOMAIN s = 1..Len(s)
  OBVIOUS
<1> QED
  BY <1>1, <1>2 DEF EndsWith, ToSet

\* What is put is the last of the keys, and stays in the cache.
LEMMA PutKeeps ==
  ASSUME NEW cache, NEW keys, NEW learnt, NEW lost, Kept(cache, keys, learnt, lost), NEW key \in TemplateKeys, NEW shape
  PROVE  LET all == MovedToEnd(cache.order, key)
             new == Holding(cache, Fitting(all), key, shape)
             learned == [k \in DOMAIN learnt \cup {key} |-> IF k = key THEN shape ELSE learnt[k]]
             more == IF Fitting(all) # all THEN lost + 1 ELSE lost
         IN  /\ Kept(new, MovedToEnd(keys, key), learned, more) /\ more >= lost /\ key \in DOMAIN new.shape
             /\ key \in DOMAIN learnt => Has(cache, key) \/ more > 0
<1> DEFINE o == cache.order
           all == MovedToEnd(o, key)
           fit == Fitting(all)
           new == Holding(cache, fit, key, shape)
           learned == [k \in DOMAIN learnt \cup {key} |-> IF k = key THEN shape ELSE learnt[k]]
           more == IF fit # all THEN lost + 1 ELSE lost
           t == MovedToEnd(keys, key)
<1>1. /\ keys \in Seq(TemplateKeys) /\ Distinct(keys) /\ o \in Seq(TemplateKeys) /\ EndsWith(keys, o)
      /\ Len(o) <= MaxTemplates /\ lost \in Nat /\ (Len(o) < Len(keys) => Len(o) = MaxTemplates /\ lost > 0)
      /\ DOMAIN learnt = ToSet(keys) /\ DOMAIN cache.shape = ToSet(o)
      /\ \A k \in DOMAIN cache.shape : cache.shape[k] = learnt[k]
  BY DEF Kept
<1>2. MaxTemplates \in Nat \ {0}
  BY FlowAssumption
<1>3. /\ Distinct(o)
      /\ key \in ToSet(o) \/ key \notin ToSet(keys) => EndsWith(t, all)
      /\ key \notin ToSet(o) => EndsWith(t, Tail(all)) /\ Len(all) = Len(o) + 1
      /\ key \in ToSet(o) => Len(all) = Len(o) /\ Len(t) = Len(keys)
      /\ key \in ToSet(keys) => Len(t) = Len(keys)
      /\ key \notin ToSet(keys) => Len(t) = Len(keys) + 1
  <2>1. keys \in Seq(TemplateKeys) /\ o \in Seq(TemplateKeys) /\ Distinct(keys) /\ EndsWith(keys, o)
    BY <1>1
  <2> HIDE DEF o
  <2>2. Distinct(o)
    BY <2>1, MovedTogether
  <2>3. ASSUME key \notin ToSet(o) PROVE EndsWith(t, Tail(all)) /\ Len(all) = Len(o) + 1
    BY <2>1, <2>3, MovedTogether
  <2>4. ASSUME key \in ToSet(o) PROVE EndsWith(t, all) /\ Len(all) = Len(o) /\ Len(t) = Len(keys)
    BY <2>1, <2>4, MovedTogether
  <2>5. ASSUME key \notin ToSet(keys) PROVE EndsWith(t, all)
    BY <2>1, <2>5, MovedTogether
  <2>6. key \in ToSet(keys) => Len(t) = Len(keys)
    BY <2>1, MovedTogether
  <2>7. key \notin ToSet(keys) => Len(t) = Len(keys) + 1
    BY <2>1, MovedTogether
  <2> QED
    BY <2>2, <2>3, <2>4, <2>5, <2>6, <2>7
<1>4. t \in Seq(TemplateKeys) /\ Distinct(t) /\ ToSet(t) = ToSet(keys) \cup {key}
  <2>1. keys \in Seq(TemplateKeys) /\ Distinct(keys)
    BY <1>1
  <2> QED
    BY <2>1, MovedKeeps
<1>5. all \in Seq(TemplateKeys) /\ ToSet(all) = ToSet(o) \cup {key} /\ Len(all) # 0 /\ all[Len(all)] = key
  <2>1. o \in Seq(TemplateKeys) /\ Distinct(o)
    BY <1>1, <1>3
  <2> QED
    BY <2>1, MovedKeeps
<1>6. /\ Tail(all) \in Seq(TemplateKeys) /\ Len(Tail(all)) = Len(all) - 1 /\ ToSet(Tail(all)) \subseteq ToSet(all)
      /\ (Len(all) > 1 => key \in ToSet(Tail(all)))
  <2>1. all \in Seq(TemplateKeys) /\ Len(all) # 0
    BY <1>5
  <2>2. /\ Tail(all) \in Seq(TemplateKeys) /\ Len(Tail(all)) = Len(all) - 1 /\ ToSet(Tail(all)) \subseteq ToSet(all)
        /\ (Len(all) > 1 => all[Len(all)] \in ToSet(Tail(all)))
    BY <2>1, TailKeeps, Zenon
  <2> HIDE DEF all
  <2> QED
    BY <2>2, <1>5
<1>7. ToSet(o) \subseteq ToSet(keys) /\ Len(o) \in Nat /\ Len(keys) \in Nat /\ Len(o) <= Len(keys)
  <2>1. keys \in Seq(TemplateKeys) /\ o \in Seq(TemplateKeys) /\ EndsWith(keys, o)
    BY <1>1
  <2> QED
    BY <2>1, EndedBy, Zenon
<1>8. key \in ToSet(o) \/ key \notin ToSet(keys) \/ Len(o) < Len(keys)
  <2>1. Len(o) = Len(keys) => \A i \in DOMAIN keys : i \in DOMAIN o /\ o[i] = keys[i]
    BY <1>1 DEF EndsWith
  <2>2. Len(o) = Len(keys) => ToSet(keys) \subseteq ToSet(o)
    BY <2>1 DEF ToSet
  <2> QED
    BY <1>1, <2>2 DEF EndsWith
<1> HIDE DEF t, all
<1>9. /\ fit \in Seq(TemplateKeys) /\ EndsWith(t, fit) /\ Len(fit) <= MaxTemplates
      /\ ToSet(fit) \subseteq ToSet(o) \cup {key} /\ key \in ToSet(fit)
      /\ (Len(fit) < Len(t) => Len(fit) = MaxTemplates /\ more > 0)
      /\ (fit # all => Len(all) > MaxTemplates)
  <2>1. CASE Len(all) > MaxTemplates
    <3>1. fit = Tail(all) /\ fit # all
      <4>1. fit = Tail(all)
        BY <2>1 DEF Fitting
      <4>2. Len(all) \in Nat /\ Len(Tail(all)) = Len(all) - 1
        BY <1>5, <1>6
      <4> HIDE DEF fit
      <4> QED
        BY <4>1, <4>2
    <3>2. key \notin ToSet(o) /\ Len(all) = MaxTemplates + 1
      BY <2>1, <1>1, <1>2, <1>3
    <3>3. key \in ToSet(all)
      BY <1>5
    <3>4. fit \in Seq(TemplateKeys) /\ EndsWith(t, fit) /\ Len(fit) = MaxTemplates
      BY <3>1, <3>2, <1>2, <1>3, <1>6
    <3>5. Len(all) > 1
      BY <3>2, <1>2
    <3>6. ToSet(fit) \subseteq ToSet(o) \cup {key} /\ key \in ToSet(fit)
      <4>1. ToSet(Tail(all)) \subseteq ToSet(o) \cup {key} /\ key \in ToSet(Tail(all))
        BY <3>5, <1>5, <1>6
      <4> QED
        BY <4>1, <3>1, Zenon
    <3>7. more > 0
      BY <3>1, <1>1
    <3> HIDE DEF fit, more
    <3> QED
      BY <3>4, <3>6, <3>7, <2>1, <1>2
  <2>2. CASE ~(Len(all) > MaxTemplates)
    <3>1. fit = all
      BY <2>2 DEF Fitting
    <3>2. key \in ToSet(o) \/ key \notin ToSet(keys)
      BY <2>2, <1>1, <1>2, <1>3, <1>8
    <3>3. Len(fit) <= MaxTemplates
      BY <3>1, <2>2, <1>2, <1>5
    <3>4. Len(fit) < Len(t) => Len(o) < Len(keys)
      <4>1. CASE key \in ToSet(o)
        BY <4>1, <3>1, <1>3
      <4>2. CASE key \notin ToSet(o) /\ key \notin ToSet(keys)
        <5>1. Len(all) = Len(o) + 1 /\ Len(t) = Len(keys) + 1
          BY <4>2, <1>3
        <5> HIDE DEF o
        <5> QED
          BY <5>1, <3>1, <1>7
      <4> QED
        BY <3>2, <4>1, <4>2
    <3>5. Len(fit) < Len(t) => Len(fit) = MaxTemplates
      <4>1. Len(o) = MaxTemplates /\ Len(all) >= Len(o) => Len(fit) = MaxTemplates
        BY <3>1, <3>3, <1>2, <1>5
      <4>2. Len(all) >= Len(o)
        BY <1>1, <1>3
      <4> QED
        BY <4>1, <4>2, <3>4, <1>1
    <3>6. more = lost
      BY <3>1
    <3> HIDE DEF fit, more
    <3> QED
      BY <3>1, <3>2, <3>3, <3>4, <3>5, <3>6, <1>1, <1>3, <1>5
  <2> QED
    BY <2>1, <2>2
<1> HIDE DEF fit
<1>10. new = [order |-> fit, shape |-> [k \in ToSet(fit) |-> IF k = key THEN shape ELSE cache.shape[k]]]
  BY DEF Holding
<1>11. new.order = fit /\ DOMAIN new.shape = ToSet(fit) /\ new = [order |-> new.order, shape |-> new.shape]
  BY <1>10
<1>12. ASSUME NEW k \in ToSet(fit) PROVE new.shape[k] = learned[k]
  <2>1. new.shape[k] = IF k = key THEN shape ELSE cache.shape[k]
    BY <1>10
  <2>2. k \in DOMAIN learnt \cup {key}
    BY <1>1, <1>7, <1>9
  <2>3. k # key => k \in DOMAIN cache.shape
    BY <1>1, <1>9
  <2> QED
    BY <2>1, <2>2, <2>3, <1>1
<1>13. DOMAIN learned = ToSet(t)
  BY <1>1, <1>4
<1>14. more \in Nat /\ more >= lost
  BY <1>1
<1>15. key \in DOMAIN learnt => Has(cache, key) \/ more > 0
  BY <1>1, <1>8, <1>14 DEF Has
<1> HIDE DEF new, learned, more
<1>16. Kept(new, t, learned, more)
  BY <1>4, <1>9, <1>11, <1>12, <1>13, <1>14 DEF Kept
<1> QED
  BY <1>9, <1>11, <1>14, <1>15, <1>16 DEF new, learned, more, fit, t, all

LEMMA FoundKeeps ==
  ASSUME NEW cache, NEW keys, NEW learnt, NEW lost, Kept(cache, keys, learnt, lost), NEW key \in DOMAIN cache.shape
  PROVE  LET new == Found(cache, key)
         IN  /\ Kept(new, MovedToEnd(keys, key), learnt, lost) /\ new.shape = cache.shape
             /\ key \in DOMAIN learnt
<1> DEFINE new == Found(cache, key)
           t == MovedToEnd(keys, key)
           o == cache.order
           all == MovedToEnd(o, key)
<1>1. /\ keys \in Seq(TemplateKeys) /\ Distinct(keys) /\ o \in Seq(TemplateKeys) /\ EndsWith(keys, o)
      /\ Len(o) <= MaxTemplates /\ (Len(o) < Len(keys) => Len(o) = MaxTemplates /\ lost > 0)
      /\ DOMAIN learnt = ToSet(keys) /\ DOMAIN cache.shape = ToSet(o)
      /\ \A k \in DOMAIN cache.shape : cache.shape[k] = learnt[k]
      /\ cache = [order |-> o, shape |-> cache.shape] /\ lost \in Nat
  BY DEF Kept
<1>2. key \in ToSet(o) /\ key \in TemplateKeys
  BY <1>1 DEF ToSet
<1>3. Distinct(o) /\ EndsWith(t, all) /\ Len(all) = Len(o) /\ Len(t) = Len(keys)
  <2>1. keys \in Seq(TemplateKeys) /\ o \in Seq(TemplateKeys) /\ Distinct(keys) /\ EndsWith(keys, o)
    BY <1>1
  <2> HIDE DEF o
  <2> QED
    BY <2>1, <1>2, MovedTogether
<1>4. key \in ToSet(keys)
  <2>1. keys \in Seq(TemplateKeys) /\ o \in Seq(TemplateKeys) /\ EndsWith(keys, o)
    BY <1>1
  <2>2. ToSet(o) \subseteq ToSet(keys)
    BY <2>1, EndedBy, Zenon
  <2> QED
    BY <2>2, <1>2
<1>5. t \in Seq(TemplateKeys) /\ Distinct(t) /\ ToSet(t) = ToSet(keys)
  <2>1. keys \in Seq(TemplateKeys) /\ Distinct(keys)
    BY <1>1
  <2>2. t \in Seq(TemplateKeys) /\ Distinct(t) /\ ToSet(t) = ToSet(keys) \cup {key}
    BY <2>1, <1>2, MovedKeeps
  <2> QED
    BY <2>2, <1>4
<1>6. all \in Seq(TemplateKeys) /\ ToSet(all) = ToSet(o)
  <2>1. o \in Seq(TemplateKeys) /\ Distinct(o)
    BY <1>1, <1>3
  <2>2. all \in Seq(TemplateKeys) /\ ToSet(all) = ToSet(o) \cup {key}
    BY <2>1, <1>2, MovedKeeps
  <2> QED
    BY <2>2, <1>2
<1>7. new = [order |-> all, shape |-> cache.shape]
  <2>1. new = [cache EXCEPT !.order = all]
    BY DEF Found
  <2> HIDE DEF all, new
  <2> QED
    BY <2>1, <1>1
<1>8. new.order = all /\ new.shape = cache.shape
  BY <1>7
<1> HIDE DEF new, t, all
<1>9. Kept(new, t, learnt, lost)
  BY <1>1, <1>3, <1>5, <1>6, <1>7, <1>8 DEF Kept
<1> QED
  BY <1>1, <1>4, <1>8, <1>9 DEF new, t

LEMMA TeachKeeps ==
  ASSUME NEW w, Coherent(w), NEW e \in Exporters, NEW id \in TemplateIds, NEW shape
  PROVE  LET t == Teach(w, e, id, shape)
         IN  /\ Coherent(t)
             /\ t.taught = [k \in DOMAIN w.taught \cup {<<e, id>>} |-> IF k = <<e, id>> THEN shape ELSE w.taught[k]]
             /\ <<e, id>> \in DOMAIN t.cache.shape
             /\ t.rows = w.rows /\ t.flows = w.flows /\ t.misread = w.misread /\ t.unknown = w.unknown
             /\ t.seq = w.seq /\ t.at = w.at /\ t.count = w.count /\ t.cut = w.cut /\ t.evicted >= w.evicted
<1> DEFINE t == Teach(w, e, id, shape)
           key == <<e, id>>
           all == MovedToEnd(w.cache.order, key)
           new == Holding(w.cache, Fitting(all), key, shape)
           learned == [k \in DOMAIN w.taught \cup {key} |-> IF k = key THEN shape ELSE w.taught[k]]
           more == IF Fitting(all) # all THEN w.evicted + 1 ELSE w.evicted
           again == IF Has(w.cache, key) /\ w.cache.shape[key] # shape THEN w.redefined + 1 ELSE w.redefined
           moved == w.changed \/ (key \in DOMAIN w.taught /\ w.taught[key] # shape)
           used2 == MovedToEnd(w.used, key)
<1>1. key \in TemplateKeys
  BY DEF TemplateKeys
<1>2. /\ Form(w) /\ Kept(w.cache, w.used, w.taught, w.evicted)
      /\ w.redefined \in Nat /\ w.unknown \in Nat /\ w.at \in Nat /\ w.count \in Nat
      /\ w.changed => w.redefined + w.evicted > 0
      /\ ~w.stale
  BY DEF Coherent
<1>3. /\ Kept(new, used2, learned, more) /\ more >= w.evicted /\ key \in DOMAIN new.shape
      /\ key \in DOMAIN w.taught => Has(w.cache, key) \/ more > 0
  BY <1>1, <1>2, PutKeeps
<1>4. t = [w EXCEPT !.cache = new, !.evicted = more, !.redefined = again, !.changed = moved, !.taught = learned, !.used = used2]
  <2>1. t = [[w EXCEPT !.cache = new, !.evicted = more, !.redefined = again] EXCEPT
                !.changed = @ \/ (key \in DOMAIN w.taught /\ w.taught[key] # shape),
                !.taught = [k \in DOMAIN @ \cup {key} |-> IF k = key THEN shape ELSE @[k]],
                !.used = MovedToEnd(@, key)]
    BY DEF Teach, Put, KeyOf
  <2>2. w = [cache |-> w.cache, redefined |-> w.redefined, evicted |-> w.evicted, unknown |-> w.unknown,
             skipped |-> w.skipped, taught |-> w.taught, used |-> w.used, changed |-> w.changed,
             rows |-> w.rows, flows |-> w.flows, seq |-> w.seq, at |-> w.at, count |-> w.count,
             misread |-> w.misread, stale |-> w.stale, cut |-> w.cut]
    BY <1>2 DEF Form
  <2> DEFINE v == [w EXCEPT !.cache = new, !.evicted = more, !.redefined = again]
  <2>3. v.changed = w.changed /\ v.taught = w.taught /\ v.used = w.used
    <3> HIDE DEF new, more, again
    <3> QED
      BY <2>2
  <2>4. t = [v EXCEPT !.changed = moved, !.taught = learned, !.used = used2]
    <3> HIDE DEF v
    <3> QED
      BY <2>1, <2>3 DEF v
  <2> HIDE DEF new, more, again, moved, learned, used2, t
  <2> QED
    BY <2>2, <2>4
<1> HIDE DEF t
<1>5. t = [cache |-> new, redefined |-> again, evicted |-> more, unknown |-> w.unknown,
           skipped |-> w.skipped, taught |-> learned, used |-> used2, changed |-> moved,
           rows |-> w.rows, flows |-> w.flows, seq |-> w.seq, at |-> w.at, count |-> w.count,
           misread |-> w.misread, stale |-> w.stale, cut |-> w.cut]
  <2> HIDE DEF new, more, again, moved, learned, used2
  <2> QED
    BY <1>2, <1>4 DEF Form
<1>6. again \in Nat /\ again >= w.redefined /\ more \in Nat
  BY <1>2, <1>3 DEF Kept
<1>7. moved => again + more > 0
  <2>1. CASE w.changed
    BY <2>1, <1>2, <1>3, <1>6, SMTT(40) DEF Kept
  <2>2. CASE key \in DOMAIN w.taught /\ w.taught[key] # shape
    <3>1. CASE more > 0
      BY <3>1, <1>6
    <3>2. CASE ~(more > 0)
      <4>1. Has(w.cache, key)
        BY <2>2, <3>2, <1>3
      <4>2. w.cache.shape[key] = w.taught[key]
        BY <4>1, <1>2 DEF Has, Kept
      <4>3. again = w.redefined + 1
        BY <4>1, <4>2, <2>2
      <4> QED
        BY <4>3, <1>2, <1>6
    <3> QED
      BY <3>1, <3>2
  <2> QED
    BY <2>1, <2>2
<1> HIDE DEF new, more, again, moved, learned, used2
<1>8. Form(t) /\ t.cache = new /\ t.used = used2 /\ t.taught = learned /\ t.evicted = more /\ t.redefined = again
      /\ t.changed = moved /\ t.unknown = w.unknown /\ t.at = w.at /\ t.count = w.count /\ t.stale = w.stale
      /\ t.rows = w.rows /\ t.flows = w.flows /\ t.misread = w.misread /\ t.seq = w.seq /\ t.cut = w.cut
  BY <1>5 DEF Form
<1>9. Coherent(t)
  BY <1>2, <1>3, <1>6, <1>7, <1>8 DEF Coherent
<1> QED
  BY <1>3, <1>8, <1>9 DEF learned, t

\* A set that finds its template: what it reads is a flow, unless its template is of options.
LEMMA FoundDecodes ==
  ASSUME NEW w, Coherent(w), NEW e \in Exporters, NEW id \in TemplateIds, NEW intended, Has(w.cache, <<e, id>>)
  PROVE  LET t == Decode(w, e, id, intended)
             shape == w.taught[<<e, id>>]
             flow == shape # OptionsShape
         IN  /\ Coherent(t) /\ <<e, id>> \in DOMAIN w.taught
             /\ t.taught = w.taught /\ t.cache.shape = w.cache.shape /\ t.evicted = w.evicted /\ t.unknown = w.unknown
             /\ t.misread <=> (w.misread \/ shape # intended)
             /\ t.seq = w.seq /\ t.at = w.at /\ t.cut = w.cut
             /\ flow => /\ t.count = w.count + 1
                        /\ t.rows = w.rows \cup {<<e, w.seq, w.count, shape>>}
                        /\ t.flows = w.flows \cup {<<e, w.seq, w.at, shape>>}
             /\ ~flow => t.count = w.count /\ t.rows = w.rows /\ t.flows = w.flows
<1> DEFINE t == Decode(w, e, id, intended)
           key == <<e, id>>
           shape == w.cache.shape[key]
           flow == shape # OptionsShape
           new == Found(w.cache, key)
           used2 == MovedToEnd(w.used, key)
           skip2 == IF flow THEN w.skipped ELSE w.skipped + 1
           count2 == IF flow THEN w.count + 1 ELSE w.count
           rows2 == IF flow THEN w.rows \cup {<<e, w.seq, w.count, shape>>} ELSE w.rows
           flows2 == IF flow THEN w.flows \cup {<<e, w.seq, w.at, shape>>} ELSE w.flows
           mis2 == w.misread \/ shape # intended
           stale2 == w.stale \/ key \notin DOMAIN w.taught \/ shape # w.taught[key]
<1>1. key \in TemplateKeys /\ key \in DOMAIN w.cache.shape
  BY DEF TemplateKeys, Has
<1>2. /\ Form(w) /\ Kept(w.cache, w.used, w.taught, w.evicted)
      /\ w.redefined \in Nat /\ w.unknown \in Nat /\ w.at \in Nat /\ w.count \in Nat
      /\ w.changed => w.redefined + w.evicted > 0
      /\ ~w.stale
  BY DEF Coherent
<1>3. Kept(new, used2, w.taught, w.evicted) /\ new.shape = w.cache.shape /\ key \in DOMAIN w.taught
  BY <1>1, <1>2, FoundKeeps
<1>4. shape = w.taught[key]
  BY <1>1, <1>2 DEF Kept
<1>5. t = [w EXCEPT !.cache = new, !.used = used2, !.skipped = skip2, !.count = count2, !.rows = rows2,
                    !.flows = flows2, !.misread = mis2, !.stale = stale2]
  BY DEF Decode, KeyOf, FlowIndex
<1>6. ~stale2
  BY <1>2, <1>3, <1>4
<1>7. count2 \in Nat
  BY <1>2
<1> HIDE DEF t, new, used2, skip2, count2, rows2, flows2, mis2, stale2
<1>8. t = [cache |-> new, redefined |-> w.redefined, evicted |-> w.evicted, unknown |-> w.unknown,
           skipped |-> skip2, taught |-> w.taught, used |-> used2, changed |-> w.changed,
           rows |-> rows2, flows |-> flows2, seq |-> w.seq, at |-> w.at, count |-> count2,
           misread |-> mis2, stale |-> stale2, cut |-> w.cut]
  BY <1>2, <1>5 DEF Form
<1>9. Form(t) /\ t.cache = new /\ t.used = used2 /\ t.taught = w.taught /\ t.evicted = w.evicted /\ t.redefined = w.redefined
      /\ t.changed = w.changed /\ t.unknown = w.unknown /\ t.at = w.at /\ t.count = count2 /\ t.stale = stale2
      /\ t.rows = rows2 /\ t.flows = flows2 /\ t.misread = mis2 /\ t.seq = w.seq /\ t.cut = w.cut
  BY <1>8 DEF Form
<1>10. Coherent(t)
  BY <1>2, <1>3, <1>6, <1>7, <1>9 DEF Coherent
<1> QED
  BY <1>3, <1>4, <1>9, <1>10 DEF t, count2, rows2, flows2, mis2

LEMMA UnknownDrops ==
  ASSUME NEW w, Coherent(w), NEW e \in Exporters, NEW id \in TemplateIds, NEW intended, ~Has(w.cache, <<e, id>>)
  PROVE  LET t == Decode(w, e, id, intended)
         IN  /\ Coherent(t) /\ t.unknown = w.unknown + 1 /\ t = [w EXCEPT !.unknown = w.unknown + 1]
             /\ t.taught = w.taught /\ t.evicted = w.evicted /\ t.misread = w.misread
             /\ t.rows = w.rows /\ t.flows = w.flows
             /\ <<e, id>> \in DOMAIN w.taught => w.evicted > 0
<1> DEFINE t == Decode(w, e, id, intended)
<1>1. t = [w EXCEPT !.unknown = w.unknown + 1]
  BY DEF Decode, KeyOf
<1>2. /\ Form(w) /\ Kept(w.cache, w.used, w.taught, w.evicted) /\ w.unknown \in Nat
  BY DEF Coherent
<1>3. <<e, id>> \in DOMAIN w.taught => w.evicted > 0
  <2>1. Len(w.cache.order) = Len(w.used) => \A i \in DOMAIN w.used : i \in DOMAIN w.cache.order /\ w.cache.order[i] = w.used[i]
    BY <1>2 DEF Kept, EndsWith
  <2>2. Len(w.cache.order) = Len(w.used) => ToSet(w.used) \subseteq ToSet(w.cache.order)
    BY <2>1 DEF ToSet
  <2>3. Len(w.cache.order) = Len(w.used) \/ w.evicted > 0
    <3>1. Len(w.cache.order) \in Nat /\ Len(w.used) \in Nat
      BY <1>2 DEF Kept
    <3> QED
      BY <1>2, <3>1 DEF Kept, EndsWith
  <2> QED
    BY <1>2, <2>2, <2>3 DEF Kept, Has
<1> HIDE DEF t
<1>4. t = [cache |-> w.cache, redefined |-> w.redefined, evicted |-> w.evicted, unknown |-> w.unknown + 1,
           skipped |-> w.skipped, taught |-> w.taught, used |-> w.used, changed |-> w.changed,
           rows |-> w.rows, flows |-> w.flows, seq |-> w.seq, at |-> w.at, count |-> w.count,
           misread |-> w.misread, stale |-> w.stale, cut |-> w.cut]
  BY <1>1, <1>2 DEF Form
<1>5. Form(t) /\ t.cache = w.cache /\ t.used = w.used /\ t.taught = w.taught /\ t.evicted = w.evicted /\ t.redefined = w.redefined
      /\ t.changed = w.changed /\ t.unknown = w.unknown + 1 /\ t.at = w.at /\ t.count = w.count /\ t.stale = w.stale
      /\ t.rows = w.rows /\ t.flows = w.flows /\ t.misread = w.misread
  BY <1>4 DEF Form
<1>6. w.unknown + 1 \in Nat
  BY <1>2
<1>7. Coherent(t)
  BY <1>2, <1>5, <1>6 DEF Coherent
<1> QED
  BY <1>1, <1>3, <1>5, <1>7 DEF t

-----------------------------------------------------------------------------
(* A packet of one, two or three sets.                                      *)
AfterTo(f, p) == f = [n \in 0..Len(p.sets) |-> IF n = 0 THEN Begun(p) ELSE PastSet(f[n - 1], p, n)]

LEMMA WalkedTo ==
  ASSUME NEW p, Len(p.sets) \in 1..3
  PROVE  LET w1 == PastSet(Begun(p), p, 1)
             w2 == PastSet(w1, p, 2)
             w3 == PastSet(w2, p, 3)
         IN  Walked(p) = IF Len(p.sets) = 1 THEN w1 ELSE IF Len(p.sets) = 2 THEN w2 ELSE w3
<1> DEFINE L == Len(p.sets)
           w0 == Begun(p)
           w1 == PastSet(w0, p, 1)
           w2 == PastSet(w1, p, 2)
           w3 == PastSet(w2, p, 3)
           g == [n \in 0..L |-> IF n = 0 THEN w0 ELSE IF n = 1 THEN w1 ELSE IF n = 2 THEN w2 ELSE w3]
           f == CHOOSE h : AfterTo(h, p)
<1>0. L = 1 \/ L = 2 \/ L = 3
  <2>1. L \in 1..3
    OBVIOUS
  <2> HIDE DEF L
  <2> QED
    BY <2>1
<1>1. \A n \in 0..L : n = 0 \/ n = 1 \/ n = 2 \/ n = 3
  <2> HIDE DEF L
  <2> QED
    BY <1>0
<1>2. ASSUME NEW n \in 0..L PROVE g[n] = IF n = 0 THEN w0 ELSE PastSet(g[n - 1], p, n)
  <2>1. n = 0 \/ n = 1 \/ n = 2 \/ n = 3
    BY <1>1
  <2>2. n # 0 => n - 1 \in 0..L
    OBVIOUS
  <2> HIDE DEF w0
  <2>3. CASE n = 0
    BY <2>3
  <2>4. CASE n = 1
    <3>1. g[0] = w0 /\ n - 1 = 0 /\ g[n] = w1
      BY <2>4
    <3> HIDE DEF g
    <3> QED
      BY <3>1, <2>4
  <2>5. CASE n = 2
    <3>1. g[1] = w1 /\ n - 1 = 1 /\ g[n] = w2
      BY <2>5
    <3> HIDE DEF g, w1
    <3> QED
      BY <3>1, <2>5
  <2>6. CASE n = 3
    <3>1. g[2] = w2 /\ n - 1 = 2 /\ g[n] = w3
      BY <2>6
    <3> HIDE DEF g, w2
    <3> QED
      BY <3>1, <2>6
  <2> QED
    BY <2>1, <2>3, <2>4, <2>5, <2>6
<1>3. g = [n \in 0..L |-> g[n]]
  OBVIOUS
<1>4. AfterTo(g, p)
  <2> HIDE DEF g, L, w0
  <2>1. g = [n \in 0..L |-> IF n = 0 THEN w0 ELSE PastSet(g[n - 1], p, n)]
    BY <1>2, <1>3
  <2> QED
    BY <2>1 DEF AfterTo, L, w0
<1>5. AfterTo(f, p)
  BY <1>4
<1>6. Walked(p) = f[L]
  BY DEF Walked, AfterTo
<1> HIDE DEF f
<1>7. \A n \in 0..L : f[n] = IF n = 0 THEN w0 ELSE PastSet(f[n - 1], p, n)
  <2> HIDE DEF w0
  <2> QED
    BY <1>5 DEF AfterTo, w0
<1>8. f[0] = w0 /\ f[1] = w1
  <2> HIDE DEF w0, L
  <2>1. 0 \in 0..L /\ 1 \in 0..L /\ 1 - 1 = 0
    BY <1>0
  <2>2. f[0] = w0
    BY <1>7, <2>1
  <2>3. f[1] = PastSet(f[1 - 1], p, 1)
    BY <1>7, <2>1
  <2> QED
    BY <2>1, <2>2, <2>3
<1>9. L >= 2 => f[2] = w2
  <2>1. L >= 2 => 2 \in 0..L /\ 2 - 1 = 1
    OBVIOUS
  <2> HIDE DEF w0, w1, L
  <2> QED
    BY <1>7, <1>8, <2>1
<1>10. L >= 3 => f[3] = w3
  <2>1. L >= 3 => 3 \in 0..L /\ 3 - 1 = 2 /\ L >= 2
    OBVIOUS
  <2> HIDE DEF w0, w1, w2, L
  <2> QED
    BY <1>7, <1>9, <2>1
<1> HIDE DEF w0, w1, w2, w3, L
<1>11. L = 1 => Walked(p) = w1
  BY <1>6, <1>8
<1>12. L = 2 => Walked(p) = w2 /\ L # 1
  BY <1>6, <1>9
<1>13. L = 3 => Walked(p) = w3 /\ L # 1 /\ L # 2
  BY <1>6, <1>10
<1>14. Walked(p) = IF L = 1 THEN w1 ELSE IF L = 2 THEN w2 ELSE w3
  BY <1>0, <1>11, <1>12, <1>13
<1> QED
  BY <1>14 DEF L, w0, w1, w2, w3

Taught(id, shape) == <<"teach", id, shape>>
Asked(id, shape) == <<"data", id, shape>>

PacketOf(p, id, shape) ==
    /\ p.from \in Exporters /\ p.seq \in Nat /\ id \in TemplateIds /\ shape \in AllShapes
    /\ p.sets \in {<<Taught(id, shape)>>, <<Taught(id, shape), Asked(id, shape), Asked(id, shape)>>,
                   <<<<"cut">>, Taught(id, shape)>>, <<Asked(id, shape)>>}

IsPacket(p) == \E id, shape : PacketOf(p, id, shape)

Teaches(p) == p.sets[1][1] = "teach"
Reads(p) == p.sets[1][1] = "data"
KeyIn(p) == <<p.from, p.sets[1][2]>>
Says(p) == p.sets[1][3]

\* Rows and flows are numbered apart: the flows of a packet by their sets' places.
Placed(r, off) == <<r[1], r[2], r[3] + off[r[2]], r[4]>>
Image(some, off) == {Placed(r, off) : r \in some}
RowBelow(r, n) == r = <<r[1], r[2], r[3], r[4]>> /\ r[2] \in 0..(n - 1) /\ r[3] \in Nat
RowsBelow(some, n) == IsFiniteSet(some) /\ \A r \in some : RowBelow(r, n)

Matched(w, off, n) == w.flows = Image(w.rows, off) /\ RowsBelow(w.rows, n)

LEMMA MatchedOneMore ==
  ASSUME NEW some, NEW off, NEW n, RowsBelow(some, n), NEW r, RowBelow(r, n)
  PROVE  RowsBelow(some \cup {r}, n) /\ Image(some \cup {r}, off) = Image(some, off) \cup {Placed(r, off)}
<1>1. IsFiniteSet(some \cup {r})
  BY FS_AddElement DEF RowsBelow
<1> QED
  BY <1>1 DEF RowsBelow, Image

LEMMA AtIs ==
  ASSUME NEW w, Coherent(w), NEW n \in Nat
  PROVE  LET t == [w EXCEPT !.at = n]
         IN  /\ Coherent(t) /\ t.at = n
             /\ t.cache = w.cache /\ t.used = w.used /\ t.taught = w.taught /\ t.evicted = w.evicted
             /\ t.unknown = w.unknown /\ t.count = w.count /\ t.rows = w.rows /\ t.flows = w.flows
             /\ t.misread = w.misread /\ t.seq = w.seq /\ t.cut = w.cut
<1> DEFINE t == [w EXCEPT !.at = n]
<1>1. t = [cache |-> w.cache, redefined |-> w.redefined, evicted |-> w.evicted, unknown |-> w.unknown,
           skipped |-> w.skipped, taught |-> w.taught, used |-> w.used, changed |-> w.changed,
           rows |-> w.rows, flows |-> w.flows, seq |-> w.seq, at |-> n, count |-> w.count,
           misread |-> w.misread, stale |-> w.stale, cut |-> w.cut]
  BY DEF Coherent, Form
<1> HIDE DEF t
<1>2. Form(t) /\ t.cache = w.cache /\ t.used = w.used /\ t.taught = w.taught /\ t.evicted = w.evicted /\ t.redefined = w.redefined
      /\ t.changed = w.changed /\ t.unknown = w.unknown /\ t.at = n /\ t.count = w.count /\ t.stale = w.stale
      /\ t.rows = w.rows /\ t.flows = w.flows /\ t.misread = w.misread /\ t.seq = w.seq /\ t.cut = w.cut
  BY <1>1 DEF Form
<1>3. Coherent(t)
  BY <1>2 DEF Coherent
<1> QED
  BY <1>2, <1>3 DEF t

LEMMA SetTaught ==
  ASSUME NEW w, Coherent(w), ~w.cut, NEW p, NEW n \in Nat, NEW id \in TemplateIds, NEW shape, p.from \in Exporters,
         p.sets[n] = Taught(id, shape)
  PROVE  LET t == PastSet(w, p, n)
             key == <<p.from, id>>
         IN  /\ Coherent(t) /\ ~t.cut
             /\ t.taught = [k \in DOMAIN w.taught \cup {key} |-> IF k = key THEN shape ELSE w.taught[k]]
             /\ Has(t.cache, key) /\ t.rows = w.rows /\ t.flows = w.flows /\ t.misread = w.misread
             /\ t.unknown = w.unknown /\ t.seq = w.seq /\ t.count = w.count /\ t.evicted >= w.evicted
<1> DEFINE v == [w EXCEPT !.at = n]
<1>1. /\ Coherent(v) /\ v.taught = w.taught /\ v.evicted = w.evicted /\ v.unknown = w.unknown /\ v.count = w.count
      /\ v.rows = w.rows /\ v.flows = w.flows /\ v.misread = w.misread /\ v.seq = w.seq /\ v.cut = w.cut
  BY AtIs
<1>2. PastSet(w, p, n) = Teach(v, p.from, id, shape)
  <2>1. PastSet(w, p, n) = Walk(v, p.from, p.sets[n])
    BY DEF PastSet
  <2>2. p.sets[n][1] = "teach" /\ p.sets[n][2] = id /\ p.sets[n][3] = shape /\ "teach" # "cut" /\ "teach" # "data"
    BY DEF Taught
  <2> HIDE DEF v
  <2> QED
    BY <2>1, <2>2 DEF Walk
<1> HIDE DEF v
<1>3. LET t == Teach(v, p.from, id, shape)
      IN  /\ Coherent(t)
          /\ t.taught = [k \in DOMAIN v.taught \cup {<<p.from, id>>} |-> IF k = <<p.from, id>> THEN shape ELSE v.taught[k]]
          /\ <<p.from, id>> \in DOMAIN t.cache.shape
          /\ t.rows = v.rows /\ t.flows = v.flows /\ t.misread = v.misread /\ t.unknown = v.unknown
          /\ t.seq = v.seq /\ t.at = v.at /\ t.count = v.count /\ t.cut = v.cut /\ t.evicted >= v.evicted
  BY <1>1, TeachKeeps
<1> QED
  BY <1>1, <1>2, <1>3 DEF Has

LEMMA SetAsked ==
  ASSUME NEW w, Coherent(w), ~w.cut, NEW p, NEW n \in Nat, NEW id \in TemplateIds, NEW shape, p.from \in Exporters,
         p.sets[n] = Asked(id, shape), NEW off, NEW m \in Nat, Matched(w, off, m), w.seq \in 0..(m - 1),
         Has(w.cache, <<p.from, id>>) /\ w.taught[<<p.from, id>>] # OptionsShape => n = w.count + off[w.seq]
  PROVE  LET t == PastSet(w, p, n)
             key == <<p.from, id>>
         IN  /\ Coherent(t) /\ ~t.cut /\ t.taught = w.taught /\ Matched(t, off, m) /\ t.seq = w.seq /\ t.evicted = w.evicted
             /\ Has(w.cache, key) => /\ t.unknown = w.unknown /\ Has(t.cache, key) /\ key \in DOMAIN w.taught
                                     /\ t.misread <=> (w.misread \/ w.taught[key] # shape)
                                     /\ t.count = IF w.taught[key] # OptionsShape THEN w.count + 1 ELSE w.count
             /\ ~Has(w.cache, key) => (key \in DOMAIN w.taught => w.evicted > 0) /\ (t.misread <=> w.misread)
<1> DEFINE v == [w EXCEPT !.at = n]
           key == <<p.from, id>>
           t == PastSet(w, p, n)
<1>1. /\ Coherent(v) /\ v.taught = w.taught /\ v.evicted = w.evicted /\ v.unknown = w.unknown /\ v.count = w.count
      /\ v.rows = w.rows /\ v.flows = w.flows /\ v.misread = w.misread /\ v.seq = w.seq /\ v.cut = w.cut
      /\ v.at = n /\ v.cache = w.cache
  BY AtIs
<1>2. t = Decode(v, p.from, id, shape)
  <2>1. t = Walk(v, p.from, p.sets[n])
    BY DEF PastSet
  <2>2. p.sets[n][1] = "data" /\ p.sets[n][2] = id /\ p.sets[n][3] = shape /\ "data" # "cut" /\ "data" # "teach"
    BY DEF Asked
  <2> HIDE DEF v, t
  <2> QED
    BY <2>1, <2>2 DEF Walk
<1>3. w.flows = Image(w.rows, off) /\ RowsBelow(w.rows, m)
  BY DEF Matched
<1> HIDE DEF v, t
<1>4. CASE Has(w.cache, key)
  <2> DEFINE x == w.taught[key]
             flow == x # OptionsShape
  <2>1. /\ Coherent(t) /\ key \in DOMAIN v.taught
        /\ t.taught = v.taught /\ t.cache.shape = v.cache.shape /\ t.evicted = v.evicted /\ t.unknown = v.unknown
        /\ t.misread <=> (v.misread \/ v.taught[key] # shape)
        /\ t.seq = v.seq /\ t.at = v.at /\ t.cut = v.cut
        /\ v.taught[key] # OptionsShape =>
              /\ t.count = v.count + 1
              /\ t.rows = v.rows \cup {<<p.from, v.seq, v.count, v.taught[key]>>}
              /\ t.flows = v.flows \cup {<<p.from, v.seq, v.at, v.taught[key]>>}
        /\ ~(v.taught[key] # OptionsShape) => t.count = v.count /\ t.rows = v.rows /\ t.flows = v.flows
    <3>1. Has(v.cache, key)
      BY <1>1, <1>4
    <3>2. Coherent(v)
      BY <1>1
    <3> QED
      BY <1>2, <3>1, <3>2, FoundDecodes
  <2>2. Matched(t, off, m)
    <3>1. CASE flow
      <4> DEFINE r == <<p.from, w.seq, w.count, x>>
      <4>1. w.count \in Nat /\ n = w.count + off[w.seq]
        BY <1>4, <3>1 DEF Coherent
      <4>0. v.taught[key] = x /\ x # OptionsShape
        BY <1>1, <3>1
      <4> HIDE DEF x, key, flow
      <4>2. RowsBelow(w.rows \cup {r}, m) /\ Image(w.rows \cup {r}, off) = Image(w.rows, off) \cup {<<p.from, w.seq, n, x>>}
        <5>1. RowsBelow(w.rows, m)
          BY <1>3
        <5>2. RowBelow(r, m)
          BY <4>1 DEF RowBelow
        <5>3. Placed(r, off) = <<p.from, w.seq, n, x>>
          BY <4>1 DEF Placed
        <5> HIDE DEF r
        <5>4. RowsBelow(w.rows \cup {r}, m) /\ Image(w.rows \cup {r}, off) = Image(w.rows, off) \cup {Placed(r, off)}
          BY ONLY <5>1, <5>2, MatchedOneMore, Zenon
        <5> QED
          BY <5>3, <5>4, Zenon
      <4>3. t.rows = w.rows \cup {<<p.from, w.seq, w.count, x>>} /\ t.flows = w.flows \cup {<<p.from, w.seq, n, x>>}
        BY <1>1, <2>1, <4>0
      <4> QED
        BY <1>3, <4>1, <4>2, <4>3 DEF Matched
    <3>2. CASE ~flow
      <4>1. t.rows = w.rows /\ t.flows = w.flows
        BY <1>1, <2>1, <3>2
      <4> QED
        BY <4>1, <1>3 DEF Matched
    <3> QED
      BY <3>1, <3>2
  <2> QED
    BY <1>1, <1>4, <2>1, <2>2 DEF Has, t
<1>5. CASE ~Has(w.cache, key)
  <2>1. /\ Coherent(t) /\ t.unknown = v.unknown + 1 /\ t = [v EXCEPT !.unknown = v.unknown + 1]
        /\ t.taught = v.taught /\ t.evicted = v.evicted /\ t.misread = v.misread
        /\ t.rows = v.rows /\ t.flows = v.flows
        /\ key \in DOMAIN v.taught => v.evicted > 0
    BY <1>1, <1>2, <1>5, UnknownDrops
  <2>2. t.seq = v.seq /\ t.cut = v.cut
    <3>1. v = [cache |-> v.cache, redefined |-> v.redefined, evicted |-> v.evicted, unknown |-> v.unknown,
               skipped |-> v.skipped, taught |-> v.taught, used |-> v.used, changed |-> v.changed,
               rows |-> v.rows, flows |-> v.flows, seq |-> v.seq, at |-> v.at, count |-> v.count,
               misread |-> v.misread, stale |-> v.stale, cut |-> v.cut]
      BY <1>1 DEF Coherent, Form
    <3> QED
      BY <2>1, <3>1
  <2>3. Matched(t, off, m)
    BY <1>1, <1>3, <2>1 DEF Matched
  <2> QED
    BY <1>1, <1>5, <2>1, <2>2, <2>3 DEF t
<1> QED
  BY <1>4, <1>5

PacketRead(w, p, off, n) ==
    /\ Coherent(w) /\ Matched(w, off, n)
    /\ w.taught = IF Teaches(p)
                    THEN [k \in DOMAIN taught \cup {KeyIn(p)} |-> IF k = KeyIn(p) THEN Says(p) ELSE taught[k]]
                    ELSE taught
    /\ w.evicted >= evicted
    /\ ~Reads(p) \/ (KeyIn(p) \in DOMAIN taught /\ taught[KeyIn(p)] = Says(p)) =>
          (w.misread => misread) /\ (w.evicted = 0 => w.unknown = unknownDrops)

LEMMA PacketWalked ==
  ASSUME NEW p, NEW id, NEW shape, PacketOf(p, id, shape), NEW off, NEW n \in Nat,
         Coherent(Begun(p)), Matched(Begun(p), off, n), p.seq \in 0..(n - 1),
         off[p.seq] = IF Reads(p) THEN 1 ELSE 2
  PROVE  PacketRead(Walked(p), p, off, n)
<1> DEFINE w0 == Begun(p)
           w1 == PastSet(w0, p, 1)
           w2 == PastSet(w1, p, 2)
           w3 == PastSet(w2, p, 3)
           key == <<p.from, id>>
           T == Taught(id, shape)
           D == Asked(id, shape)
           learned == [k \in DOMAIN taught \cup {key} |-> IF k = key THEN shape ELSE taught[k]]
<1>1. /\ Coherent(w0) /\ Matched(w0, off, n) /\ ~w0.cut /\ w0.taught = taught /\ w0.evicted = evicted
      /\ w0.unknown = unknownDrops /\ w0.misread = misread /\ w0.seq = p.seq /\ w0.count = 0
  BY DEF Begun
<1>2. p.from \in Exporters /\ id \in TemplateIds
  BY DEF PacketOf
<1>3. w0.evicted \in Nat
  BY <1>1 DEF Coherent, Kept
<1>4. T[1] = "teach" /\ T[2] = id /\ T[3] = shape /\ D[1] = "data" /\ D[2] = id /\ D[3] = shape
  BY DEF Taught, Asked
<1> HIDE DEF w0, w1, w2, w3, T, D
<1>5. CASE p.sets = <<T>>
  <2>1. Len(p.sets) = 1 /\ p.sets[1] = T
    BY <1>5
  <2>2. Walked(p) = w1
    BY <2>1, WalkedTo DEF w0, w1
  <2>3. /\ Coherent(w1) /\ ~w1.cut /\ w1.taught = learned /\ Has(w1.cache, key) /\ w1.rows = w0.rows /\ w1.flows = w0.flows
        /\ w1.misread = w0.misread /\ w1.unknown = w0.unknown /\ w1.seq = w0.seq /\ w1.count = w0.count
        /\ w1.evicted >= w0.evicted
    BY <1>1, <1>2, <2>1, SetTaught DEF w1, T
  <2>4. Teaches(p) /\ ~Reads(p) /\ KeyIn(p) = key /\ Says(p) = shape
    BY <1>4, <2>1 DEF Teaches, Reads, KeyIn, Says
  <2> HIDE DEF key
  <2> QED
    BY <1>1, <2>2, <2>3, <2>4 DEF PacketRead, Matched
<1>6. CASE p.sets = <<T, D, D>>
  <2>1. Len(p.sets) = 3 /\ p.sets[1] = T /\ p.sets[2] = D /\ p.sets[3] = D
    BY <1>6
  <2>2. Walked(p) = w3
    BY <2>1, WalkedTo DEF w0, w1, w2, w3
  <2>3. /\ Coherent(w1) /\ ~w1.cut /\ w1.taught = learned /\ Has(w1.cache, key) /\ w1.rows = w0.rows /\ w1.flows = w0.flows
        /\ w1.misread = w0.misread /\ w1.unknown = w0.unknown /\ w1.seq = w0.seq /\ w1.count = w0.count
        /\ w1.evicted >= w0.evicted
    BY <1>1, <1>2, <2>1, SetTaught DEF w1, T
  <2>4. Teaches(p) /\ ~Reads(p) /\ KeyIn(p) = key /\ Says(p) = shape
    BY <1>4, <2>1 DEF Teaches, Reads, KeyIn, Says
  <2>5. learned[key] = shape /\ off[p.seq] = 2
    BY <2>4
  <2>6. Matched(w1, off, n) /\ w1.taught[key] = shape /\ w1.seq = p.seq /\ w1.count = 0
    BY <1>1, <2>3, <2>5 DEF Matched
  <2> HIDE DEF learned
  <2>7. /\ Coherent(w2) /\ ~w2.cut /\ w2.taught = w1.taught /\ Matched(w2, off, n) /\ w2.seq = w1.seq /\ w2.evicted = w1.evicted
        /\ w2.unknown = w1.unknown /\ Has(w2.cache, key)
        /\ w2.misread <=> (w1.misread \/ w1.taught[key] # shape)
        /\ w2.count = IF w1.taught[key] # OptionsShape THEN w1.count + 1 ELSE w1.count
    <3>1. 2 = w1.count + off[w1.seq]
      BY <2>5, <2>6
    <3> QED
      BY <1>1, <1>2, <2>1, <2>3, <2>6, <3>1, SetAsked DEF w2, D
  <2>8. /\ Coherent(w3) /\ w3.taught = w2.taught /\ Matched(w3, off, n) /\ w3.evicted = w2.evicted
        /\ w3.unknown = w2.unknown /\ (w3.misread <=> (w2.misread \/ w2.taught[key] # shape))
    <3>1. w2.taught[key] # OptionsShape => 3 = w2.count + off[w2.seq]
      BY <2>5, <2>6, <2>7
    <3>2. w2.seq \in 0..(n - 1)
      BY <2>6, <2>7
    <3> QED
      BY <1>2, <2>1, <2>7, <3>1, <3>2, SetAsked DEF w3, D
  <2>9. w3.taught = learned /\ w3.evicted >= evicted /\ (w3.misread => misread) /\ w3.unknown = unknownDrops
    BY <1>1, <2>3, <2>6, <2>7, <2>8
  <2> HIDE DEF key
  <2> QED
    BY <2>2, <2>4, <2>8, <2>9 DEF PacketRead, learned
<1>7. CASE p.sets = <<<<"cut">>, T>>
  <2>1. Len(p.sets) = 2 /\ p.sets[1] = <<"cut">>
    BY <1>7
  <2>2. Walked(p) = w2
    BY <2>1, WalkedTo DEF w0, w1, w2
  <2> DEFINE v == [w0 EXCEPT !.at = 1]
  <2>3. /\ Coherent(v) /\ v.taught = w0.taught /\ v.evicted = w0.evicted /\ v.unknown = w0.unknown
        /\ v.rows = w0.rows /\ v.flows = w0.flows /\ v.misread = w0.misread
    BY <1>1, AtIs
  <2>4. w1 = [v EXCEPT !.cut = TRUE]
    <3>1. w1 = Walk(v, p.from, p.sets[1])
      BY <1>1 DEF w1, PastSet
    <3>2. p.sets[1][1] = "cut" /\ "cut" # "teach" /\ "cut" # "data"
      BY <2>1
    <3> HIDE DEF v
    <3> QED
      BY <3>1, <3>2 DEF Walk
  <2> HIDE DEF v
  <2>5. w1 = [cache |-> v.cache, redefined |-> v.redefined, evicted |-> v.evicted, unknown |-> v.unknown,
              skipped |-> v.skipped, taught |-> v.taught, used |-> v.used, changed |-> v.changed,
              rows |-> v.rows, flows |-> v.flows, seq |-> v.seq, at |-> v.at, count |-> v.count,
              misread |-> v.misread, stale |-> v.stale, cut |-> TRUE]
    BY <2>3, <2>4 DEF Coherent, Form
  <2>6. Form(w1) /\ w1.cache = v.cache /\ w1.used = v.used /\ w1.taught = v.taught /\ w1.evicted = v.evicted
        /\ w1.redefined = v.redefined /\ w1.changed = v.changed /\ w1.unknown = v.unknown /\ w1.at = v.at
        /\ w1.count = v.count /\ w1.stale = v.stale /\ w1.rows = v.rows /\ w1.flows = v.flows
        /\ w1.misread = v.misread /\ w1.cut
    BY <2>5 DEF Form
  <2>7. Coherent(w1)
    BY <2>3, <2>6 DEF Coherent
  <2>8. w2 = w1
    BY <2>6 DEF w2, PastSet
  <2>9. ~Teaches(p) /\ ~Reads(p)
    BY <2>1 DEF Teaches, Reads
  <2> QED
    BY <1>1, <1>3, <2>2, <2>3, <2>6, <2>7, <2>8, <2>9 DEF PacketRead, Matched
<1>8. CASE p.sets = <<D>>
  <2>1. Len(p.sets) = 1 /\ p.sets[1] = D
    BY <1>8
  <2>2. Walked(p) = w1
    BY <2>1, WalkedTo DEF w0, w1
  <2>3. ~Teaches(p) /\ Reads(p) /\ KeyIn(p) = key /\ Says(p) = shape
    BY <1>4, <2>1 DEF Teaches, Reads, KeyIn, Says
  <2>4. 1 = w0.count + off[w0.seq] /\ w0.seq \in 0..(n - 1)
    BY <1>1, <2>3
  <2>5. /\ Coherent(w1) /\ w1.taught = w0.taught /\ Matched(w1, off, n) /\ w1.evicted = w0.evicted
        /\ Has(w0.cache, key) => /\ w1.unknown = w0.unknown
                                 /\ w1.misread <=> (w0.misread \/ w0.taught[key] # shape)
        /\ ~Has(w0.cache, key) => (key \in DOMAIN w0.taught => w0.evicted > 0) /\ (w1.misread <=> w0.misread)
    BY <1>1, <1>2, <2>1, <2>4, SetAsked DEF w1, D
  <2> HIDE DEF key
  <2>6. key \in DOMAIN taught /\ taught[key] = shape =>
          (w1.misread => misread) /\ (w1.evicted = 0 => w1.unknown = unknownDrops)
    BY <1>1, <1>3, <2>5
  <2> QED
    BY <1>1, <1>3, <2>2, <2>3, <2>5, <2>6 DEF PacketRead
<1> QED
  BY <1>5, <1>6, <1>7, <1>8 DEF PacketOf, T, D

-----------------------------------------------------------------------------
(* The receiver and the packets under way to it.                            *)
TeachesAt(sent, j, k) == Teaches(sent[j]) /\ KeyIn(sent[j]) = k

\* The i-th packet finds the receiver taught this shape of the key last, if those before
\* it arrive and in order.
Knows(sent, learnt, i, k, s) ==
    \/ \E j \in 1..(i - 1) : /\ TeachesAt(sent, j, k) /\ Says(sent[j]) = s
                             /\ \A l \in (j + 1)..(i - 1) : ~TeachesAt(sent, l, k)
    \/ (\A j \in 1..(i - 1) : ~TeachesAt(sent, j, k)) /\ k \in DOMAIN learnt /\ learnt[k] = s

\* A packet sent later changes nothing for those before it.
LEMMA KnownBefore ==
  ASSUME NEW a, NEW b, NEW learnt, NEW L \in Nat, \A j \in 1..L : b[j] = a[j], NEW i \in 1..(L + 1), NEW k, NEW s,
         Knows(a, learnt, i, k, s)
  PROVE  Knows(b, learnt, i, k, s)
<1>1. \A j \in 1..(i - 1) : j \in 1..L /\ TeachesAt(b, j, k) = TeachesAt(a, j, k) /\ b[j] = a[j]
  BY DEF TeachesAt
<1>2. \A j \in 1..(i - 1) : \A l \in (j + 1)..(i - 1) : l \in 1..(i - 1)
  OBVIOUS
<1>3. CASE \E j \in 1..(i - 1) : /\ TeachesAt(a, j, k) /\ Says(a[j]) = s
                                 /\ \A l \in (j + 1)..(i - 1) : ~TeachesAt(a, l, k)
  <2>1. PICK j \in 1..(i - 1) : /\ TeachesAt(a, j, k) /\ Says(a[j]) = s
                                /\ \A l \in (j + 1)..(i - 1) : ~TeachesAt(a, l, k)
    BY <1>3
  <2>2. TeachesAt(b, j, k) /\ Says(b[j]) = s /\ \A l \in (j + 1)..(i - 1) : ~TeachesAt(b, l, k)
    BY <2>1, <1>1, <1>2
  <2> QED
    BY <2>2 DEF Knows
<1>4. CASE (\A j \in 1..(i - 1) : ~TeachesAt(a, j, k)) /\ k \in DOMAIN learnt /\ learnt[k] = s
  <2>1. \A j \in 1..(i - 1) : ~TeachesAt(b, j, k)
    BY <1>4, <1>1
  <2> QED
    BY <2>1, <1>4 DEF Knows
<1> QED
  BY <1>3, <1>4 DEF Knows

\* A packet that does not teach the key leaves it as it was.
LEMMA KnownAfter ==
  ASSUME NEW b, NEW learnt, NEW L \in Nat, NEW k, NEW s, Knows(b, learnt, L + 1, k, s), ~TeachesAt(b, L + 1, k)
  PROVE  Knows(b, learnt, L + 2, k, s)
<1>1. (L + 1) - 1 = L /\ (L + 2) - 1 = L + 1
  OBVIOUS
<1>2. CASE \E j \in 1..L : TeachesAt(b, j, k) /\ Says(b[j]) = s /\ \A l \in (j + 1)..L : ~TeachesAt(b, l, k)
  <2>1. PICK j \in 1..L : TeachesAt(b, j, k) /\ Says(b[j]) = s /\ \A l \in (j + 1)..L : ~TeachesAt(b, l, k)
    BY <1>2
  <2>2. j \in 1..(L + 1) /\ \A l \in (j + 1)..(L + 1) : l = L + 1 \/ l \in (j + 1)..L
    OBVIOUS
  <2>3. \A l \in (j + 1)..(L + 1) : ~TeachesAt(b, l, k)
    BY <2>1, <2>2
  <2> QED
    BY <1>1, <2>1, <2>2, <2>3 DEF Knows
<1>3. CASE (\A j \in 1..L : ~TeachesAt(b, j, k)) /\ k \in DOMAIN learnt /\ learnt[k] = s
  <2>1. \A j \in 1..(L + 1) : j = L + 1 \/ j \in 1..L
    OBVIOUS
  <2>2. \A j \in 1..(L + 1) : ~TeachesAt(b, j, k)
    BY <2>1, <1>3
  <2> QED
    BY <1>1, <1>3, <2>2 DEF Knows
<1> QED
  BY <1>1, <1>2, <1>3 DEF Knows

LEMMA KnownTaught ==
  ASSUME NEW b, NEW learnt, NEW L \in Nat, NEW k, TeachesAt(b, L + 1, k)
  PROVE  Knows(b, learnt, L + 2, k, Says(b[L + 1]))
<1>1. (L + 2) - 1 = L + 1 /\ L + 1 \in 1..(L + 1) /\ \A l \in ((L + 1) + 1)..(L + 1) : FALSE
  OBVIOUS
<1> QED
  BY <1>1 DEF Knows

\* The first packet arrives: what it taught is now learnt.
LEMMA KnownOnward ==
  ASSUME NEW a, NEW b, NEW learnt, NEW learned, NEW L \in Nat, \A j \in 1..(L - 1) : b[j] = a[j + 1],
         NEW n \in 1..L, NEW k, NEW s, Knows(a, learnt, n + 1, k, s),
         TeachesAt(a, 1, k) => k \in DOMAIN learned /\ learned[k] = Says(a[1]),
         ~TeachesAt(a, 1, k) /\ k \in DOMAIN learnt => k \in DOMAIN learned /\ learned[k] = learnt[k]
  PROVE  Knows(b, learned, n, k, s)
<1>1. (n + 1) - 1 = n /\ 1 \in 1..n
  OBVIOUS
<1>2. \A l \in 1..(n - 1) : l + 1 \in 1..n /\ TeachesAt(b, l, k) = TeachesAt(a, l + 1, k) /\ b[l] = a[l + 1]
  <2>1. \A l \in 1..(n - 1) : l + 1 \in 1..n /\ l \in 1..(L - 1)
    OBVIOUS
  <2> QED
    BY <2>1 DEF TeachesAt
<1>3. CASE \E j \in 1..n : TeachesAt(a, j, k) /\ Says(a[j]) = s /\ \A l \in (j + 1)..n : ~TeachesAt(a, l, k)
  <2>1. PICK j \in 1..n : TeachesAt(a, j, k) /\ Says(a[j]) = s /\ \A l \in (j + 1)..n : ~TeachesAt(a, l, k)
    BY <1>3
  <2>2. CASE j = 1
    <3>1. \A l \in 1..(n - 1) : l + 1 \in (j + 1)..n
      BY <2>2
    <3>2. \A l \in 1..(n - 1) : ~TeachesAt(b, l, k)
      BY <3>1, <2>1, <1>2
    <3>3. k \in DOMAIN learned /\ learned[k] = s
      BY <2>1, <2>2
    <3> QED
      BY <3>2, <3>3 DEF Knows
  <2>3. CASE j # 1
    <3> DEFINE m == j - 1
    <3>1. m \in 1..(n - 1) /\ m + 1 = j
      BY <2>3
    <3>2. \A l \in (m + 1)..(n - 1) : l \in 1..(n - 1) /\ l + 1 \in (j + 1)..n
      BY <3>1
    <3> HIDE DEF m
    <3>3. TeachesAt(b, m, k) /\ Says(b[m]) = s
      BY <3>1, <2>1, <1>2
    <3>4. \A l \in (m + 1)..(n - 1) : ~TeachesAt(b, l, k)
      BY <3>2, <2>1, <1>2
    <3> QED
      BY <3>1, <3>3, <3>4 DEF Knows
  <2> QED
    BY <2>2, <2>3
<1>4. CASE (\A j \in 1..n : ~TeachesAt(a, j, k)) /\ k \in DOMAIN learnt /\ learnt[k] = s
  <2>1. \A l \in 1..(n - 1) : ~TeachesAt(b, l, k)
    BY <1>2, <1>4
  <2>2. k \in DOMAIN learned /\ learned[k] = s
    BY <1>1, <1>4
  <2> QED
    BY <2>1, <2>2 DEF Knows
<1> QED
  BY <1>1, <1>3, <1>4 DEF Knows

FlowShape ==
    /\ meant \in [TemplateKeys -> AllShapes] /\ announced \subseteq TemplateKeys /\ packets \in Nat
    /\ \E S : inFlight \in Seq(S)
    /\ \A i \in DOMAIN inFlight : IsPacket(inFlight[i]) /\ inFlight[i].seq \in 0..(packets - 1)

FlowKept ==
    /\ Kept(templates, used, taught, evicted) /\ redefined \in Nat /\ unknownDrops \in Nat
    /\ (changed => redefined + evicted > 0) /\ ~staleShape

FlowOrder ==
    ~disturbed =>
        /\ ~misread /\ (evicted = 0 => unknownDrops = 0)
        /\ \A i \in DOMAIN inFlight : Reads(inFlight[i]) => Knows(inFlight, taught, i, KeyIn(inFlight[i]), Says(inFlight[i]))
        /\ \A k \in announced : Knows(inFlight, taught, Len(inFlight) + 1, k, meant[k])

Numbering(off) == \A i \in DOMAIN inFlight : off[inFlight[i].seq] = IF Reads(inFlight[i]) THEN 1 ELSE 2

FlowNumbers ==
    \E off \in [Nat -> Nat] : flows = Image(flowRows, off) /\ RowsBelow(flowRows, packets) /\ Numbering(off)

FlowInv == FlowShape /\ FlowKept /\ FlowOrder /\ FlowNumbers

LEMMA FlowInvInit == FlowInit => FlowInv
<1> SUFFICES ASSUME FlowInit PROVE FlowInv
  OBVIOUS
<1>1. inFlight = <<>> /\ <<>> \in Seq(TemplateKeys) /\ Len(<<>>) = 0 /\ DOMAIN <<>> = {} /\ ToSet(<<>>) = {}
  BY DEF FlowInit, ToSet
<1>2. FlowShape
  BY <1>1 DEF FlowInit, FlowShape
<1>3. /\ templates = [order |-> <<>>, shape |-> [k \in {} |-> OptionsShape]] /\ used = <<>>
      /\ taught = [k \in {} |-> OptionsShape] /\ evicted = 0
  BY DEF FlowInit
<1>4. templates = [order |-> templates.order, shape |-> templates.shape] /\ templates.order = <<>>
      /\ DOMAIN templates.shape = {} /\ DOMAIN taught = {}
  BY <1>3
<1>5. Kept(templates, used, taught, evicted)
  BY <1>1, <1>3, <1>4, FlowAssumption DEF Kept, Distinct, EndsWith
<1>6. FlowKept
  BY <1>5 DEF FlowInit, FlowKept
<1>7. FlowOrder
  BY <1>1 DEF FlowInit, FlowOrder
<1>8. FlowNumbers
  <2> DEFINE off == [n \in Nat |-> 1]
  <2>1. off \in [Nat -> Nat] /\ Numbering(off)
    BY <1>1 DEF Numbering
  <2>2. flowRows = {} /\ flows = {} /\ IsFiniteSet({})
    BY FS_EmptySet DEF FlowInit
  <2>3. flows = Image(flowRows, off) /\ RowsBelow(flowRows, packets)
    BY <2>2 DEF Image, Placed, RowsBelow, RowBelow
  <2> HIDE DEF off
  <2> QED
    BY <2>1, <2>3 DEF FlowNumbers
<1> QED
  BY <1>2, <1>6, <1>7, <1>8 DEF FlowInv

LEMMA BegunIs ==
  ASSUME NEW p, FlowKept
  PROVE  Coherent(Begun(p))
<1> DEFINE b == Begun(p)
<1>1. Form(b)
  BY DEF Begun, Form
<1>2. b.cache = templates /\ b.used = used /\ b.taught = taught /\ b.evicted = evicted /\ b.redefined = redefined
      /\ b.unknown = unknownDrops /\ b.at = 0 /\ b.count = 0 /\ b.changed = changed /\ b.stale = staleShape
  BY DEF Begun
<1> HIDE DEF b
<1> QED
  BY <1>1, <1>2 DEF Coherent, FlowKept, b

LEMMA ExportKeeps == FlowInv /\ Export => FlowInv'
<1> SUFFICES ASSUME FlowInv, Export PROVE FlowInv'
  OBVIOUS
<1>1. PICK e \in Exporters, id \in TemplateIds :
        LET teach == <<"teach", id, meant[<<e, id>>]>>
            data == <<"data", id, meant[<<e, id>>]>>
        IN  \E sets \in {<<teach>>, <<teach, data, data>>, <<<<"cut">>, teach>>} \cup
                        (IF <<e, id>> \in announced THEN {<<data>>} ELSE {}) :
                /\ packets < MaxPackets /\ packets' = packets + 1
                /\ inFlight' = Append(inFlight, [from |-> e, seq |-> packets, sets |-> sets])
                /\ announced' = IF sets[1] = teach THEN announced \cup {<<e, id>>} ELSE announced
                /\ KeepsReceiver /\ UNCHANGED <<meant, disturbed, redefinitions>>
  BY DEF Export
<1> DEFINE key == <<e, id>>
           T == Taught(id, meant[key])
           D == Asked(id, meant[key])
<1>2. PICK sets : /\ sets \in {<<T>>, <<T, D, D>>, <<<<"cut">>, T>>, <<D>>} /\ (sets = <<D>> => key \in announced)
                  /\ packets' = packets + 1
                  /\ inFlight' = Append(inFlight, [from |-> e, seq |-> packets, sets |-> sets])
                  /\ announced' = IF sets[1] = T THEN announced \cup {key} ELSE announced
                  /\ KeepsReceiver /\ UNCHANGED <<meant, disturbed, redefinitions>>
  <2>1. PICK sets : /\ sets \in {<<T>>, <<T, D, D>>, <<<<"cut">>, T>>} \cup (IF key \in announced THEN {<<D>>} ELSE {})
                    /\ packets' = packets + 1
                    /\ inFlight' = Append(inFlight, [from |-> e, seq |-> packets, sets |-> sets])
                    /\ announced' = IF sets[1] = T THEN announced \cup {key} ELSE announced
                    /\ KeepsReceiver /\ UNCHANGED <<meant, disturbed, redefinitions>>
    BY <1>1 DEF Taught, Asked
  <2>2. sets = <<D>> => key \in announced
    <3>1. <<D>> # <<T>> /\ <<D>> # <<T, D, D>> /\ <<D>> # <<<<"cut">>, T>>
      <4>1. <<D>>[1] = D /\ <<T>>[1] = T /\ Len(<<D>>) = 1 /\ Len(<<T, D, D>>) = 3 /\ Len(<<<<"cut">>, T>>) = 2
        OBVIOUS
      <4>2. D[1] = "data" /\ T[1] = "teach"
        BY DEF Taught, Asked
      <4> HIDE DEF T, D
      <4> QED
        BY <4>1, <4>2
    <3> HIDE DEF T, D
    <3> QED
      BY <2>1, <3>1
  <2> HIDE DEF T, D, key
  <2>3. sets \in {<<T>>, <<T, D, D>>, <<<<"cut">>, T>>, <<D>>}
    BY <2>1
  <2> QED
    BY <2>1, <2>2, <2>3
<1> DEFINE p == [from |-> e, seq |-> packets, sets |-> sets]
           L == Len(inFlight)
<1>3. FlowShape /\ FlowKept /\ FlowOrder /\ FlowNumbers
  BY DEF FlowInv
<1>4. PICK S : inFlight \in Seq(S)
  BY <1>3 DEF FlowShape
<1>5. /\ L \in Nat /\ DOMAIN inFlight = 1..L /\ inFlight' \in Seq(S \cup {p}) /\ Len(inFlight') = L + 1
      /\ DOMAIN inFlight' = 1..(L + 1) /\ inFlight'[L + 1] = p
      /\ \A j \in 1..L : inFlight'[j] = inFlight[j]
  <2> DEFINE U == S \cup {p}
  <2>1. inFlight \in Seq(U) /\ p \in U
    BY <1>4
  <2> HIDE DEF U, p
  <2>2. inFlight' = Append(inFlight, p)
    BY <1>2 DEF p
  <2> QED
    BY <2>1, <2>2 DEF U
<1>6. p.from = e /\ p.seq = packets /\ p.sets = sets /\ packets \in Nat /\ packets' = packets + 1
  BY <1>2, <1>3 DEF FlowShape
<1>7. meant[key] \in AllShapes /\ key \in TemplateKeys
  BY <1>3 DEF FlowShape, TemplateKeys
<1> HIDE DEF p, L
<1>8. PacketOf(p, id, meant[key])
  BY <1>2, <1>6, <1>7 DEF PacketOf
<1>9. /\ Teaches(p) <=> sets[1] = T
      /\ Reads(p) <=> sets = <<D>>
      /\ Teaches(p) \/ Reads(p) => KeyIn(p) = key /\ Says(p) = meant[key]
  <2>1. T[1] = "teach" /\ T[2] = id /\ T[3] = meant[key] /\ D[1] = "data" /\ D[2] = id /\ D[3] = meant[key]
    BY DEF Taught, Asked
  <2> HIDE DEF T, D
  <2>2. CASE sets = <<T>> \/ sets = <<T, D, D>>
    <3>1. sets[1] = T /\ sets # <<D>>
      <4>1. sets[1] = T
        BY <2>2
      <4>2. <<D>>[1] = D
        OBVIOUS
      <4> QED
        BY <4>1, <4>2, <2>1
    <3> QED
      BY <3>1, <2>1, <1>6 DEF Teaches, Reads, KeyIn, Says
  <2>3. CASE sets = <<<<"cut">>, T>>
    <3>1. sets[1] = <<"cut">> /\ sets[1][1] = "cut" /\ sets # <<D>> /\ sets[1] # T
      <4>1. sets[1] = <<"cut">> /\ sets[1][1] = "cut"
        BY <2>3
      <4>2. <<D>>[1] = D
        OBVIOUS
      <4> QED
        BY <4>1, <4>2, <2>1
    <3> QED
      BY <3>1, <2>1, <1>6 DEF Teaches, Reads, KeyIn, Says
  <2>4. CASE sets = <<D>>
    <3>1. sets[1] = D /\ sets[1] # T
      BY <2>4, <2>1
    <3> QED
      BY <3>1, <2>4, <2>1, <1>6 DEF Teaches, Reads, KeyIn, Says
  <2> QED
    BY <1>2, <2>2, <2>3, <2>4
<1>10. /\ templates' = templates /\ redefined' = redefined /\ evicted' = evicted /\ unknownDrops' = unknownDrops
       /\ taught' = taught /\ used' = used /\ changed' = changed /\ flowRows' = flowRows /\ flows' = flows
       /\ misread' = misread /\ staleShape' = staleShape /\ meant' = meant /\ disturbed' = disturbed
  BY <1>2 DEF KeepsReceiver
<1>11. FlowShape'
  <2>1. \A i \in DOMAIN inFlight' : IsPacket(inFlight'[i]) /\ inFlight'[i].seq \in 0..(packets' - 1)
    <3> SUFFICES ASSUME NEW i \in DOMAIN inFlight' PROVE IsPacket(inFlight'[i]) /\ inFlight'[i].seq \in 0..(packets' - 1)
      OBVIOUS
    <3>1. CASE i = L + 1
      BY <3>1, <1>5, <1>6, <1>8 DEF IsPacket
    <3>2. CASE i # L + 1
      <4>1. i \in 1..L
        BY <3>2, <1>5
      <4>2. IsPacket(inFlight[i]) /\ inFlight[i].seq \in 0..(packets - 1)
        BY <4>1, <1>3, <1>5 DEF FlowShape
      <4> QED
        BY <4>1, <4>2, <1>5, <1>6
    <3> QED
      BY <3>1, <3>2
  <2>2. announced' \subseteq TemplateKeys
    BY <1>2, <1>3, <1>7 DEF FlowShape
  <2> QED
    BY <2>1, <2>2, <1>3, <1>5, <1>6, <1>10 DEF FlowShape
<1>12. FlowKept'
  BY <1>3, <1>10 DEF FlowKept
<1>13. FlowOrder'
  <2> SUFFICES ASSUME ~disturbed PROVE FlowOrder'
    BY <1>10 DEF FlowOrder
  <2>1. /\ ~misread /\ (evicted = 0 => unknownDrops = 0)
        /\ \A i \in 1..L : Reads(inFlight[i]) => Knows(inFlight, taught, i, KeyIn(inFlight[i]), Says(inFlight[i]))
        /\ \A k \in announced : Knows(inFlight, taught, L + 1, k, meant[k])
    BY <1>3, <1>5 DEF FlowOrder, L
  <2> DEFINE sent == inFlight'
  <2>2. L \in Nat /\ (\A j \in 1..L : sent[j] = inFlight[j]) /\ sent[L + 1] = p
    BY <1>5
  <2> HIDE DEF sent
  <2>3. ASSUME NEW i \in 1..(L + 1), NEW k, NEW s, Knows(inFlight, taught, i, k, s) PROVE Knows(sent, taught, i, k, s)
    BY <2>2, <2>3, KnownBefore
  <2>4. ASSUME NEW i \in 1..(L + 1), Reads(sent[i]) PROVE Knows(sent, taught, i, KeyIn(sent[i]), Says(sent[i]))
    <3>1. CASE i = L + 1
      <4>1. Reads(p) /\ key \in announced /\ KeyIn(p) = key /\ Says(p) = meant[key]
        BY <2>2, <2>4, <3>1, <1>2, <1>9
      <4>2. Knows(inFlight, taught, i, key, meant[key])
        BY <4>1, <3>1, <2>1
      <4> HIDE DEF key
      <4> QED
        BY <4>1, <4>2, <3>1, <2>2, <2>3
    <3>2. CASE i # L + 1
      <4>1. i \in 1..L /\ sent[i] = inFlight[i]
        BY <3>2, <2>2
      <4>2. Knows(inFlight, taught, i, KeyIn(inFlight[i]), Says(inFlight[i]))
        BY <4>1, <2>1, <2>4
      <4> QED
        BY <4>1, <4>2, <2>3
    <3> QED
      BY <3>1, <3>2
  <2>5. ASSUME NEW k \in announced' PROVE Knows(sent, taught, L + 2, k, meant[k])
    <3>1. CASE Teaches(p) /\ k = key
      <4>1. TeachesAt(sent, L + 1, k) /\ Says(sent[L + 1]) = meant[k]
        BY <3>1, <2>2, <1>9 DEF TeachesAt
      <4> QED
        BY <4>1, <2>2, KnownTaught
    <3>2. CASE ~(Teaches(p) /\ k = key)
      <4>1. k \in announced
        BY <3>2, <1>2, <1>9
      <4>2. ~TeachesAt(sent, L + 1, k)
        BY <3>2, <2>2, <1>9 DEF TeachesAt
      <4>3. L + 1 \in 1..(L + 1)
        BY <2>2
      <4>4. Knows(sent, taught, L + 1, k, meant[k])
        BY <4>1, <4>3, <2>1, <2>3
      <4> QED
        BY <4>2, <4>4, <2>2, KnownAfter
    <3> QED
      BY <3>1, <3>2
  <2>6. Len(sent) + 1 = L + 2 /\ DOMAIN sent = 1..(L + 1)
    BY <1>5 DEF sent
  <2>7. \A k \in announced' : Knows(sent, taught, Len(sent) + 1, k, meant[k])
    BY <2>5, <2>6
  <2>8. \A i \in DOMAIN sent : Reads(sent[i]) => Knows(sent, taught, i, KeyIn(sent[i]), Says(sent[i]))
    BY <2>4, <2>6
  <2> QED
    BY <2>1, <2>7, <2>8, <1>10 DEF FlowOrder, sent
<1>14. FlowNumbers'
  <2>1. PICK off \in [Nat -> Nat] : flows = Image(flowRows, off) /\ RowsBelow(flowRows, packets) /\ Numbering(off)
    BY <1>3 DEF FlowNumbers
  <2> DEFINE new == [off EXCEPT ![packets] = IF Reads(p) THEN 1 ELSE 2]
  <2>2. new \in [Nat -> Nat] /\ new[packets] = (IF Reads(p) THEN 1 ELSE 2) /\ \A n \in 0..(packets - 1) : new[n] = off[n]
    BY <2>1, <1>6
  <2> HIDE DEF new
  <2>3. Image(flowRows, new) = Image(flowRows, off)
    <3>1. \A r \in flowRows : new[r[2]] = off[r[2]]
      BY <2>1, <2>2 DEF RowsBelow, RowBelow
    <3> QED
      BY <3>1 DEF Image, Placed
  <2>4. RowsBelow(flowRows, packets')
    <3>1. \A n \in 0..(packets - 1) : n \in 0..(packets' - 1)
      BY <1>6
    <3> QED
      BY <2>1, <3>1 DEF RowsBelow, RowBelow
  <2>5. ASSUME NEW i \in DOMAIN inFlight' PROVE new[inFlight'[i].seq] = IF Reads(inFlight'[i]) THEN 1 ELSE 2
    <3>1. CASE i = L + 1
      BY <3>1, <2>2, <1>5, <1>6
    <3>2. CASE i # L + 1
      <4>1. i \in 1..L /\ inFlight'[i] = inFlight[i] /\ i \in DOMAIN inFlight
        BY <3>2, <1>5, SMTT(40)
      <4>2. inFlight[i].seq \in 0..(packets - 1)
        BY <4>1, <1>3 DEF FlowShape
      <4> QED
        BY <4>1, <4>2, <2>1, <2>2 DEF Numbering
    <3> QED
      BY <3>1, <3>2
  <2> QED
    BY <2>1, <2>2, <2>3, <2>4, <2>5, <1>10 DEF FlowNumbers, Numbering
<1> QED
  BY <1>11, <1>12, <1>13, <1>14 DEF FlowInv

LEMMA RedefineKeeps == FlowInv /\ Redefine => FlowInv'
<1> SUFFICES ASSUME FlowInv, Redefine PROVE FlowInv'
  OBVIOUS
<1>1. PICK key \in TemplateKeys, shape \in AllShapes :
        /\ meant' = [meant EXCEPT ![key] = shape] /\ announced' = announced \ {key}
        /\ KeepsReceiver /\ UNCHANGED <<inFlight, disturbed, packets>>
  BY DEF Redefine
<1>2. /\ templates' = templates /\ redefined' = redefined /\ evicted' = evicted /\ unknownDrops' = unknownDrops
      /\ taught' = taught /\ used' = used /\ changed' = changed /\ flowRows' = flowRows /\ flows' = flows
      /\ misread' = misread /\ staleShape' = staleShape /\ inFlight' = inFlight /\ disturbed' = disturbed /\ packets' = packets
  BY <1>1 DEF KeepsReceiver
<1>3. FlowShape'
  BY <1>1, <1>2 DEF FlowInv, FlowShape
<1>4. FlowKept' /\ FlowNumbers'
  BY <1>2 DEF FlowInv, FlowKept, FlowNumbers, Numbering
<1>5. \A k \in announced' : k \in announced /\ meant'[k] = meant[k]
  BY <1>1 DEF FlowInv, FlowShape
<1>6. FlowOrder'
  BY <1>2, <1>5 DEF FlowInv, FlowOrder
<1> QED
  BY <1>3, <1>4, <1>6 DEF FlowInv

\* A packet less, wherever it was.
LEMMA LessInFlight ==
  ASSUME FlowInv, NEW i \in DOMAIN inFlight, inFlight' = Without1(inFlight, i)
  PROVE  /\ Len(inFlight) \in Nat /\ Len(inFlight') = Len(inFlight) - 1 /\ DOMAIN inFlight' = 1..(Len(inFlight) - 1)
         /\ \E S : inFlight' \in Seq(S)
         /\ \A j \in DOMAIN inFlight' : inFlight'[j] = IF j < i THEN inFlight[j] ELSE inFlight[j + 1]
         /\ \A j \in DOMAIN inFlight' : \E k \in DOMAIN inFlight : inFlight'[j] = inFlight[k]
<1>1. PICK S : inFlight \in Seq(S)
  BY DEF FlowInv, FlowShape
<1>2. /\ inFlight' \in Seq(S) /\ Len(inFlight') = Len(inFlight) - 1
      /\ \A j \in 1..(Len(inFlight) - 1) : inFlight'[j] = IF j < i THEN inFlight[j] ELSE inFlight[j + 1]
  BY <1>1, WithoutIs
<1>3. Len(inFlight) \in Nat /\ DOMAIN inFlight' = 1..(Len(inFlight) - 1) /\ DOMAIN inFlight = 1..Len(inFlight)
  BY <1>1, <1>2
<1>4. \A j \in DOMAIN inFlight' : j \in DOMAIN inFlight /\ j + 1 \in DOMAIN inFlight
  BY <1>3
<1> QED
  BY <1>2, <1>3, <1>4

LEMMA VanishKeeps == FlowInv /\ Vanish => FlowInv'
<1> SUFFICES ASSUME FlowInv, Vanish PROVE FlowInv'
  OBVIOUS
<1>1. PICK i \in DOMAIN inFlight : /\ inFlight' = Without1(inFlight, i) /\ disturbed' = TRUE
                                   /\ KeepsReceiver /\ UNCHANGED <<meant, announced, packets, redefinitions>>
  BY DEF Vanish
<1>2. /\ templates' = templates /\ redefined' = redefined /\ evicted' = evicted /\ unknownDrops' = unknownDrops
      /\ taught' = taught /\ used' = used /\ changed' = changed /\ flowRows' = flowRows /\ flows' = flows
      /\ misread' = misread /\ staleShape' = staleShape /\ meant' = meant /\ announced' = announced /\ packets' = packets
  BY <1>1 DEF KeepsReceiver
<1>3. /\ \E S : inFlight' \in Seq(S)
      /\ \A j \in DOMAIN inFlight' : \E k \in DOMAIN inFlight : inFlight'[j] = inFlight[k]
  BY <1>1, LessInFlight
<1>4. FlowShape'
  BY <1>2, <1>3 DEF FlowInv, FlowShape
<1>5. FlowKept'
  BY <1>2 DEF FlowInv, FlowKept
<1>6. FlowOrder'
  BY <1>1 DEF FlowOrder
<1>7. FlowNumbers'
  <2>1. PICK off \in [Nat -> Nat] : flows = Image(flowRows, off) /\ RowsBelow(flowRows, packets) /\ Numbering(off)
    BY DEF FlowInv, FlowNumbers
  <2>2. Numbering(off)'
    BY <2>1, <1>3, SMTT(40) DEF Numbering
  <2> QED
    BY <2>1, <2>2, <1>2 DEF FlowNumbers
<1> QED
  BY <1>4, <1>5, <1>6, <1>7 DEF FlowInv

LEMMA ArriveKeeps == FlowInv /\ Arrive => FlowInv'
<1> SUFFICES ASSUME FlowInv, Arrive PROVE FlowInv'
  OBVIOUS
<1>1. PICK i \in DOMAIN inFlight, again \in BOOLEAN :
        /\ Ingest(inFlight[i])
        /\ inFlight' = IF again THEN inFlight ELSE Without1(inFlight, i)
        /\ packets' = IF again THEN packets + 1 ELSE packets
        /\ disturbed' = (disturbed \/ again \/ i # 1)
        /\ UNCHANGED <<meant, announced, redefinitions>>
  BY DEF Arrive
<1>2. FlowShape /\ FlowKept /\ FlowOrder /\ FlowNumbers
  BY DEF FlowInv
<1> DEFINE p == inFlight[i]
           w == Walked(p)
<1>3. PICK id, shape : PacketOf(p, id, shape)
  BY <1>2 DEF FlowShape, IsPacket
<1>4. PICK off \in [Nat -> Nat] : flows = Image(flowRows, off) /\ RowsBelow(flowRows, packets) /\ Numbering(off)
  BY <1>2 DEF FlowNumbers
<1>5. p.seq \in 0..(packets - 1) /\ packets \in Nat
  BY <1>2 DEF FlowShape
<1>6. PacketRead(w, p, off, packets)
  <2>1. Coherent(Begun(p))
    BY <1>2, BegunIs
  <2>2. Matched(Begun(p), off, packets)
    BY <1>4 DEF Matched, Begun
  <2>3. off[p.seq] = IF Reads(p) THEN 1 ELSE 2
    BY <1>4 DEF Numbering
  <2> HIDE DEF p
  <2> QED
    BY <1>3, <1>5, <2>1, <2>2, <2>3, PacketWalked DEF w
<1>7. /\ templates' = w.cache /\ redefined' = w.redefined /\ evicted' = w.evicted
      /\ unknownDrops' = w.unknown /\ taught' = w.taught
      /\ used' = w.used /\ changed' = w.changed /\ flowRows' = w.rows /\ flows' = w.flows
      /\ misread' = w.misread /\ staleShape' = w.stale
  BY <1>1 DEF Ingest
<1> HIDE DEF w
<1>8. /\ Coherent(w) /\ Matched(w, off, packets) /\ w.evicted >= evicted
      /\ w.taught = IF Teaches(p)
                      THEN [k \in DOMAIN taught \cup {KeyIn(p)} |-> IF k = KeyIn(p) THEN Says(p) ELSE taught[k]]
                      ELSE taught
      /\ ~Reads(p) \/ (KeyIn(p) \in DOMAIN taught /\ taught[KeyIn(p)] = Says(p)) =>
            (w.misread => misread) /\ (w.evicted = 0 => w.unknown = unknownDrops)
  BY <1>6 DEF PacketRead
<1>9. FlowKept'
  BY <1>7, <1>8 DEF Coherent, FlowKept
<1>10. packets' \in Nat /\ \A n \in 0..(packets - 1) : n \in 0..(packets' - 1)
  BY <1>1, <1>5
<1>11. /\ \E S : inFlight' \in Seq(S)
       /\ \A j \in DOMAIN inFlight' : \E k \in DOMAIN inFlight : inFlight'[j] = inFlight[k]
  <2>1. CASE again
    BY <2>1, <1>1, <1>2 DEF FlowShape
  <2>2. CASE ~again
    BY <2>2, <1>1, LessInFlight
  <2> QED
    BY <2>1, <2>2
<1>12. FlowShape'
  BY <1>1, <1>2, <1>10, <1>11 DEF FlowShape
<1>13. FlowNumbers'
  <2>1. flows' = Image(flowRows', off) /\ RowsBelow(flowRows', packets')
    BY <1>7, <1>8, <1>10 DEF Matched, RowsBelow, RowBelow
  <2>2. Numbering(off)'
    BY <1>4, <1>11, SMTT(40) DEF Numbering
  <2> QED
    BY <2>1, <2>2 DEF FlowNumbers
<1>14. FlowOrder'
  <2> SUFFICES ASSUME ~disturbed' PROVE FlowOrder'
    BY DEF FlowOrder
  <2>1. ~disturbed /\ ~again /\ i = 1 /\ inFlight' = Without1(inFlight, 1)
    BY <1>1
  <2> DEFINE L == Len(inFlight)
             sent == inFlight'
             learned == taught'
  <2>2. /\ ~misread /\ (evicted = 0 => unknownDrops = 0)
        /\ \A j \in DOMAIN inFlight : Reads(inFlight[j]) => Knows(inFlight, taught, j, KeyIn(inFlight[j]), Says(inFlight[j]))
        /\ \A k \in announced : Knows(inFlight, taught, L + 1, k, meant[k])
    BY <1>2, <2>1 DEF FlowOrder
  <2>3. Reads(p) => KeyIn(p) \in DOMAIN taught /\ taught[KeyIn(p)] = Says(p)
    <3>1. Reads(p) => Knows(inFlight, taught, 1, KeyIn(p), Says(p))
      BY <2>1, <2>2
    <3>2. 1..(1 - 1) = {}
      OBVIOUS
    <3> QED
      BY <3>1, <3>2 DEF Knows
  <2>4. evicted \in Nat /\ w.evicted \in Nat
    BY <1>2, <1>8 DEF Coherent, FlowKept, Kept
  <2>5. ~misread' /\ (evicted' = 0 => unknownDrops' = 0)
    <3>1. (w.misread => misread) /\ (w.evicted = 0 => w.unknown = unknownDrops)
      BY <1>8, <2>3
    <3>2. ~misread'
      BY <3>1, <1>7, <2>2
    <3>3. w.evicted = 0 => evicted = 0
      BY <1>8, <2>4
    <3> QED
      BY <3>1, <3>2, <3>3, <1>7, <2>2
  <2>6. /\ L \in Nat /\ Len(sent) = L - 1 /\ DOMAIN sent = 1..(L - 1)
        /\ \A j \in 1..(L - 1) : sent[j] = inFlight[j + 1]
    <3>1. /\ L \in Nat /\ Len(sent) = L - 1 /\ DOMAIN sent = 1..(L - 1)
          /\ \A j \in DOMAIN sent : sent[j] = IF j < 1 THEN inFlight[j] ELSE inFlight[j + 1]
      BY <2>1, LessInFlight
    <3> HIDE DEF L, sent
    <3>2. ASSUME NEW j \in 1..(L - 1) PROVE sent[j] = inFlight[j + 1]
      <4>1. j \in DOMAIN sent /\ ~(j < 1)
        BY <3>1
      <4> QED
        BY <4>1, <3>1
    <3> QED
      BY <3>1, <3>2
  <2>7. L >= 1 /\ DOMAIN inFlight = 1..L
    <3>1. PICK S : inFlight \in Seq(S)
      BY <1>2 DEF FlowShape
    <3> QED
      BY <3>1, <2>1
  <2>8. \A k : TeachesAt(inFlight, 1, k) <=> Teaches(p) /\ KeyIn(p) = k
    BY <2>1 DEF TeachesAt
  <2>9. /\ \A k : TeachesAt(inFlight, 1, k) => k \in DOMAIN learned /\ learned[k] = Says(inFlight[1])
        /\ \A k : ~TeachesAt(inFlight, 1, k) /\ k \in DOMAIN taught => k \in DOMAIN learned /\ learned[k] = taught[k]
    <3>1. learned = IF Teaches(p)
                   THEN [k \in DOMAIN taught \cup {KeyIn(p)} |-> IF k = KeyIn(p) THEN Says(p) ELSE taught[k]]
                   ELSE taught
      BY <1>7, <1>8
    <3>2. Says(p) = Says(inFlight[1])
      BY <2>1
    <3> HIDE DEF learned, p
    <3> QED
      BY <3>1, <3>2, <2>8
  <2> HIDE DEF L, sent, learned
  <2>10. ASSUME NEW n \in 1..L, NEW k, NEW s, Knows(inFlight, taught, n + 1, k, s) PROVE Knows(sent, learned, n, k, s)
    BY <2>6, <2>9, <2>10, KnownOnward
  <2>11. ASSUME NEW j \in DOMAIN sent, Reads(sent[j]) PROVE Knows(sent, learned, j, KeyIn(sent[j]), Says(sent[j]))
    <3>1. j \in 1..L /\ j + 1 \in DOMAIN inFlight /\ sent[j] = inFlight[j + 1]
      <4>1. j \in 1..(L - 1) /\ L \in Nat
        BY <2>6
      <4>2. j \in 1..L /\ j + 1 \in 1..L
        BY <4>1
      <4> QED
        BY <4>1, <4>2, <2>6, <2>7
    <3>2. Knows(inFlight, taught, j + 1, KeyIn(sent[j]), Says(sent[j]))
      BY <3>1, <2>2, <2>11
    <3> QED
      BY <3>1, <3>2, <2>10
  <2>12. ASSUME NEW k \in announced' PROVE Knows(sent, learned, Len(sent) + 1, k, meant'[k])
    <3>1. k \in announced /\ meant' = meant
      BY <1>1
    <3>2. Knows(inFlight, taught, L + 1, k, meant[k])
      BY <3>1, <2>2
    <3>3. Len(sent) + 1 = L /\ L \in 1..L
      BY <2>6, <2>7, SMTT(40)
    <3> QED
      BY <3>1, <3>2, <3>3, <2>10
  <2> QED
    BY <2>5, <2>11, <2>12 DEF FlowOrder, sent, learned
<1> QED
  BY <1>9, <1>12, <1>13, <1>14 DEF FlowInv

LEMMA FlowInvStep == FlowInv /\ [FlowNext]_flowVars => FlowInv'
<1> SUFFICES ASSUME FlowInv, [FlowNext]_flowVars PROVE FlowInv'
  OBVIOUS
<1>1. CASE UNCHANGED flowVars
  <2>1. FlowShape' /\ FlowKept' /\ FlowNumbers'
    BY <1>1 DEF flowVars, FlowInv, FlowShape, FlowKept, FlowNumbers, Numbering
  <2>2. FlowOrder'
    BY <1>1 DEF flowVars, FlowInv, FlowOrder
  <2> QED
    BY <2>1, <2>2 DEF FlowInv
<1> QED
  BY <1>1, ExportKeeps, RedefineKeeps, ArriveKeeps, VanishKeeps DEF FlowNext

LEMMA LastUsedAreKept == FlowInv => RecentlyUsedStay
<1> SUFFICES ASSUME FlowInv PROVE RecentlyUsedStay
  OBVIOUS
<1> DEFINE o == templates.order
           n == Len(used)
           keep == IF n < MaxTemplates THEN used ELSE SubSeq(used, n - MaxTemplates + 1, n)
<1>1. /\ used \in Seq(TemplateKeys) /\ o \in Seq(TemplateKeys) /\ EndsWith(used, o)
      /\ Len(o) <= MaxTemplates /\ (Len(o) < n => Len(o) = MaxTemplates) /\ MaxTemplates \in Nat \ {0}
  BY FlowAssumption DEF FlowInv, FlowKept, Kept
<1> HIDE DEF o
<1>2. Len(o) \in Nat /\ n \in Nat /\ Len(o) <= n /\ \A i \in 1..Len(o) : o[i] = used[n - Len(o) + i]
  <2>1. Len(o) \in Nat /\ n \in Nat
    BY <1>1
  <2>2. Len(o) <= n /\ \A i \in 1..Len(o) : o[i] = used[n - Len(o) + i]
    BY <1>1 DEF EndsWith
  <2> QED
    BY <2>1, <2>2
<1>3. keep \in Seq(TemplateKeys) /\ Len(keep) = Len(o) /\ \A i \in 1..Len(o) : keep[i] = o[i]
  <2>1. CASE n < MaxTemplates
    <3>1. Len(o) = n
      BY <1>1, <1>2, <2>1
    <3> QED
      BY <3>1, <1>1, <1>2, <2>1
  <2>2. CASE ~(n < MaxTemplates)
    <3>1. Len(o) = MaxTemplates
      BY <1>1, <1>2, <2>2
    <3>2. n - MaxTemplates + 1 \in Int /\ n \in Int /\ \A i \in (n - MaxTemplates + 1)..n : used[i] \in TemplateKeys
      BY <1>1, <1>2, <2>2
    <3> DEFINE m == n - MaxTemplates + 1
               x == SubSeq(used, m, n)
    <3>3. x \in Seq(TemplateKeys) /\ Len(x) = (IF m <= n THEN n - m + 1 ELSE 0)
          /\ \A i \in 1..(n - m + 1) : x[i] = used[m + i - 1]
      <4>1. m \in Int /\ n \in Int /\ \A i \in m..n : used[i] \in TemplateKeys
        BY <3>2
      <4> HIDE DEF m, n
      <4> QED
        BY <4>1, SubSeqProperties
    <3>4. keep = x
      BY <2>2
    <3> HIDE DEF x, keep
    <3> QED
      BY <1>1, <1>2, <3>1, <3>3, <3>4
  <2> QED
    BY <2>1, <2>2
<1> HIDE DEF keep
<1>4. keep = o
  BY <1>1, <1>2, <1>3, SMTT(40)
<1> QED
  BY <1>4 DEF RecentlyUsedStay, keep, o

LEMMA FlowsAreAsMany == FlowInv => FlowsAreRows
<1> SUFFICES ASSUME FlowInv PROVE FlowsAreRows
  OBVIOUS
<1>1. PICK off \in [Nat -> Nat] : flows = Image(flowRows, off) /\ RowsBelow(flowRows, packets) /\ Numbering(off)
  BY DEF FlowInv, FlowNumbers
<1> DEFINE at(r) == <<r[1], r[2], r[3] + off[r[2]], r[4]>>
           f == [r \in flowRows |-> at(r)]
<1>2. \A r \in flowRows : r = <<r[1], r[2], r[3], r[4]>> /\ r[2] \in Nat /\ r[3] \in Nat /\ off[r[2]] \in Nat
  <2>1. \A k \in 0..(packets - 1) : k \in Nat
    OBVIOUS
  <2> QED
    BY <1>1, <2>1 DEF RowsBelow, RowBelow
<1>3. flows = {at(r) : r \in flowRows}
  BY <1>1 DEF Image, Placed
<1>4. ASSUME NEW pos \in flowRows, NEW r \in flowRows, at(pos) = at(r) PROVE pos = r
  <2>1. pos[1] = r[1] /\ pos[2] = r[2] /\ pos[4] = r[4] /\ pos[3] + off[pos[2]] = r[3] + off[r[2]]
    BY <1>4
  <2>2. pos[3] = r[3]
    BY <2>1, <1>2
  <2> QED
    BY <2>1, <2>2, <1>2
<1> HIDE DEF at
<1>5. f \in Bijection(flowRows, flows)
  <2>0. \A r \in flowRows : f[r] = at(r) /\ at(r) \in flows
    BY <1>3
  <2>1. f \in [flowRows -> flows] /\ \A pos \in flowRows, r \in flowRows : f[pos] = f[r] => pos = r
    BY <2>0, <1>4
  <2>2. \A x \in flows : \E r \in flowRows : f[r] = x
    BY <2>0, <1>3
  <2> HIDE DEF f
  <2> QED
    BY <2>1, <2>2 DEF Bijection, Injection, Surjection, IsInjective
<1>6. ExistsBijection(flowRows, flows)
  BY <1>5 DEF ExistsBijection
<1>7. IsFiniteSet(flowRows)
  BY <1>1 DEF RowsBelow, RowBelow
<1> QED
  BY <1>6, <1>7, FS_Bijection DEF FlowsAreRows

(* Whatever exporters announce and redefine, and whatever the network loses,  *)
(* repeats and reorders, a data set is decoded with the template its exporter *)
(* taught last, the cache keeps what was used last, a changed template shows  *)
(* in the counters, each flow is a row, and in order nothing is misread       *)
(* (netflow.py, TemplateCache).                                               *)
THEOREM FlowsStayTrue == FlowSpec => []FlowsAreTrue
<1>1. FlowInv => FlowsAreTrue
  <2>1. FlowInv => InOrderIsExact /\ LastTaughtDecodes /\ ChangesShow
    BY DEF FlowInv, FlowOrder, FlowKept, InOrderIsExact, LastTaughtDecodes, ChangesShow
  <2> QED
    BY <2>1, LastUsedAreKept, FlowsAreAsMany DEF FlowsAreTrue
<1> QED
  BY <1>1, FlowInvInit, FlowInvStep, PTL DEF FlowSpec
=============================================================================
