---------------------- MODULE WatermarkCollector_proofs ----------------------
(***************************************************************************)
(* Proofs about WatermarkCollector for any records, page size, page budget  *)
(* and number of updates, failures and crashes, and for every collector     *)
(* whose traits make its checkpoint sound.                                  *)
(***************************************************************************)
EXTENDS WatermarkCollector, TLAPS

(* Pages left unread are parked, or they are the newest of the walk.         *)
SoundTrait(t) == t.parks \/ (t.order = "ascending" /\ ~t.windowEnd)

LEMMA NextCases ==
    ASSUME [Next]_vars
    PROVE  \/ Begin \/ ReadPage \/ Ingest \/ Advance \/ Wedged
           \/ FetchFails \/ Crash \/ Refuse \/ UNCHANGED vars
           \/ \E r \in Record : Update(r)
BY DEF Next, Poll

-----------------------------------------------------------------------------
(* Types.  The page counter stays below its bound while a page may be read.  *)
PagesLeft ==
    /\ pc = "idle" => left = {} /\ hand = {} /\ pages = 0
    /\ pc = "page" => pages < MaxPages

Typed == TypeOK /\ PagesLeft

LEMMA TypedNext == Typed /\ [Next]_vars => Typed'
<1> SUFFICES ASSUME Typed, [Next]_vars PROVE Typed'
  OBVIOUS
<1> USE WatermarkAssumption
    DEF Typed, TypeOK, PagesLeft, vendor, checkpoint, poll
<1>1. ASSUME Begin PROVE Typed'
  <2>1. PICK rest \in SUBSET Version, began \in 0 .. MaxUpdates : Walk(rest, began)
    <3>1. Matching(cursor.since) \in SUBSET Version /\ clock \in 0 .. MaxUpdates
      BY DEF Matching
    <3> QED
      BY <1>1, <3>1 DEF Begin
  <2>2. faults' \in 0 .. MaxFaults
    BY <1>1 DEF Begin, Fault
  <2> QED
    BY <2>1, <2>2 DEF Walk
<1>2. ASSUME ReadPage PROVE Typed'
  <2>1. left' \subseteq Version /\ hand' \subseteq Version
    BY <1>2 DEF ReadPage
  <2>2. /\ pages' \in 0 .. MaxPages /\ pc' \in {"page", "ingest"}
        /\ pc' = "page" => pages' < MaxPages
    BY <1>2 DEF ReadPage, MorePages
  <2> QED
    BY <1>2, <2>1, <2>2 DEF ReadPage
<1>3. ASSUME Ingest PROVE Typed'
  <2>1. stored' \subseteq Version /\ faults' \in 0 .. MaxFaults
    BY <1>3 DEF Ingest, Fault
  <2> QED
    BY <1>3, <2>1 DEF Ingest, Return
<1>4. ASSUME Advance PROVE Typed'
  <2>1. /\ cursor' \in [since : 0 .. MaxUpdates, until : 0 .. MaxUpdates,
                        next : SUBSET Version]
        /\ refused' \in BOOLEAN
    <3>1. 0 \in 0 .. MaxUpdates
      OBVIOUS
    <3>2. ASSUME NEW s \in 0 .. MaxUpdates,
                 cursor' = [since |-> s, until |-> 0, next |-> {}], refused' = FALSE
          PROVE  /\ cursor' \in [since : 0 .. MaxUpdates, until : 0 .. MaxUpdates,
                                  next : SUBSET Version]
                 /\ refused' \in BOOLEAN
      BY <3>1, <3>2
    <3>3. CASE cursor' = [since |-> cursor.since, until |-> until, next |-> left] /\ refused' = FALSE
      BY <3>3
    <3>4. CASE UNCHANGED checkpoint
      BY <3>4
    <3> QED
      BY <1>4, <3>2, <3>3, <3>4 DEF Advance
  <2>2. faults' \in 0 .. MaxFaults
    BY <1>4 DEF Advance, Fault
  <2>3. pc' = "idle" /\ left' = {} /\ hand' = {} /\ pages' = 0 /\ UNCHANGED <<until, stored, vendor, profile>>
    BY <1>4 DEF Advance, Return
  <2> QED
    BY <2>1, <2>2, <2>3
<1>5. ASSUME Wedged PROVE Typed'
  BY <1>5 DEF Wedged, vars
<1>6. ASSUME FetchFails PROVE Typed'
  BY <1>6 DEF FetchFails, Fault, Return
<1>7. ASSUME Crash PROVE Typed'
  BY <1>7 DEF Crash, Fault, Return
<1>8. ASSUME Refuse PROVE Typed'
  BY <1>8 DEF Refuse, Fault
<1>9. ASSUME NEW r \in Record, Update(r) PROVE Typed'
  <2>1. updates' \in 0 .. MaxUpdates /\ clock' \in 0 .. updates'
    BY <1>9 DEF Update
  <2>2. stamp' \in [Record -> 0 .. MaxUpdates]
    <3>1. clock + 1 \in 0 .. MaxUpdates /\ clock \in 0 .. MaxUpdates
      BY <1>9 DEF Update
    <3> QED
      BY <1>9, <3>1 DEF Update
  <2> QED
    BY <1>9, <2>1, <2>2 DEF Update
<1>10. ASSUME UNCHANGED vars PROVE Typed'
  BY <1>10 DEF vars
<1> QED
  BY <1>1, <1>2, <1>3, <1>4, <1>5, <1>6, <1>7, <1>8, <1>9, <1>10, NextCases

LEMMA InitTyped == Init => Typed
<1>1. 0 \in 0 .. MaxUpdates /\ 0 \in 0 .. MaxFaults /\ 0 \in 0 .. MaxPages
  BY WatermarkAssumption
<1>2. Init => stamp \in [Record -> 0 .. MaxUpdates]
  BY <1>1 DEF Init
<1>3. Init => cursor \in [since : 0 .. MaxUpdates, until : 0 .. MaxUpdates,
                         next : SUBSET Version]
  BY <1>1 DEF Init
<1>4. Init => updates \in 0 .. MaxUpdates /\ clock \in 0 .. updates
  BY <1>1 DEF Init
<1> QED
  BY <1>1, <1>2, <1>3, <1>4 DEF Init, Typed, TypeOK, PagesLeft

LEMMA TypedHolds == Spec => []Typed
BY InitTyped, TypedNext, PTL DEF Spec

-----------------------------------------------------------------------------
(* The inductive invariant of a collector with sound traits.                 *)

InPlay == left \cup hand \cup cursor.next

(* What a walk leads to is no newer than the clock and no older than the     *)
(* checkpoint, and neither is the time the walk began.                       *)
WalksAreRecent ==
    /\ \A r \in Record : stamp[r] <= clock
    /\ \A w \in InPlay : cursor.since <= w[2] /\ w[2] <= clock
    /\ cursor.since <= clock
    /\ pc # "idle" => cursor.since <= until /\ until <= clock
    /\ cursor.next # {} => cursor.since <= cursor.until /\ cursor.until <= clock

(* A vendor whose filter is strict gives every record a time of its own.     *)
TimesAreDistinct ==
    ~trait.inclusive =>
        /\ \A r, q \in Record : stamp[r] = stamp[q] /\ stamp[r] # 0 => r = q
        /\ \A w \in InPlay, r \in Record : stamp[r] = w[2] => w[1] = r

(* Pages come in the order the vendor promises and never twice.              *)
PagesAreOrdered ==
    /\ left \cap hand = {}
    /\ trait.order = "ascending" => \A v \in hand, w \in left : v[2] <= w[2]

StoredBeforeAdvance == pc = "advance" => hand \subseteq stored

(* A version later than a whole walk: any checkpoint the walk can end in     *)
(* still selects it.                                                         *)
Beyond(time, walk, end) ==
    /\ \A w \in walk : Selects(time, w[2])
    /\ trait.windowEnd => Selects(time, end)

Current(r) == <<r, stamp[r]>>

(* What is not stored is selected by the checkpoint's time; and it is part   *)
(* of the parked walk or beyond it; and the same of the walk in progress.    *)
Selected ==
    \A r \in Record : stamp[r] # 0 =>
        Current(r) \in stored \/ Selects(stamp[r], cursor.since)

CoveredByPark ==
    cursor.next # {} => \A r \in Record : stamp[r] # 0 =>
        \/ Current(r) \in stored \/ Current(r) \in cursor.next
        \/ Beyond(stamp[r], cursor.next, cursor.until)

CoveredByWalk ==
    pc # "idle" => \A r \in Record : stamp[r] # 0 =>
        \/ Current(r) \in stored \/ Current(r) \in left \cup hand
        \/ Beyond(stamp[r], left \cup hand, until)

Parts ==
    /\ WalksAreRecent /\ TimesAreDistinct /\ PagesAreOrdered /\ StoredBeforeAdvance
    /\ Selected /\ CoveredByPark /\ CoveredByWalk

Inv == Typed /\ Parts

Sound == SoundTrait(trait) /\ trait \in Trait

(* What one step does to what the invariant speaks of. *)
LEMMA PartsNext == Inv /\ Sound /\ [Next]_vars => Parts'
<1> SUFFICES ASSUME Inv, Sound, [Next]_vars PROVE Parts'
  OBVIOUS
<1>0. Typed /\ Typed' /\ trait' = trait
  <2>1. profile' = profile
    BY NextCases DEF Begin, Walk, ReadPage, Ingest, Advance, Wedged, FetchFails, Crash,
                     Refuse, Update, vars
  <2> QED
    BY <2>1, TypedNext DEF Inv, trait
<1> USE <1>0
    DEF Inv, Typed, TypeOK, Parts, InPlay, WalksAreRecent, TimesAreDistinct,
        PagesAreOrdered, StoredBeforeAdvance, Beyond, Current, Selected, CoveredByPark,
        CoveredByWalk, Selects, vendor, checkpoint, poll, Version
<1>1. ASSUME Begin PROVE Parts'
  <2> SUFFICES ASSUME NEW rest, NEW began, Walk(rest, began),
                      \/ rest = Matching(cursor.since) /\ began = clock
                      \/ rest = cursor.next /\ began = cursor.until /\ cursor.next # {}
               PROVE  Parts'
    BY <1>1 DEF Begin, Resumes
  <2> USE DEF Walk, PagesLeft
  <2>1. CASE rest = Matching(cursor.since) /\ began = clock
    <3>1. WalksAreRecent'
      BY <2>1 DEF Matching
    <3>2. TimesAreDistinct'
      BY <2>1 DEF Matching
    <3>3. PagesAreOrdered' /\ StoredBeforeAdvance' /\ Selected' /\ CoveredByPark'
      BY <2>1
    <3>4. CoveredByWalk'
      BY <2>1 DEF Matching
    <3> QED
      BY <3>1, <3>2, <3>3, <3>4
  <2>2. CASE rest = cursor.next /\ began = cursor.until /\ cursor.next # {}
    BY <2>2
  <2> QED
    BY <2>1, <2>2
<1>2. ASSUME ReadPage PROVE Parts'
  <2>1. PICK page \in SUBSET left :
          Page(page) /\ left' = left \ page /\ hand' = hand \cup page
    BY <1>2 DEF ReadPage
  <2>2. left' \cup hand' = left \cup hand
    BY <2>1
  <2>3. PagesAreOrdered'
    BY <1>2, <2>1 DEF ReadPage, Page
  <2> QED
    BY <1>2, <2>2, <2>3 DEF ReadPage
<1>3. ASSUME Ingest PROVE Parts'
  BY <1>3 DEF Ingest, Return
<1>4. ASSUME Advance PROVE Parts'
  <2>1. CASE UNCHANGED checkpoint
    BY <1>4, <2>1 DEF Advance, Return
  <2>2. CASE Parked /\ cursor' = [since |-> cursor.since, until |-> until, next |-> left]
    BY <1>4, <2>2 DEF Advance, Return, Parked
  <2>3. ASSUME ~Parked, NEW t \in 0 .. MaxUpdates, Since(t),
               cursor' = [since |-> t, until |-> 0, next |-> {}]
        PROVE  Parts'
    <3>1. t <= clock
      BY <1>4, <2>3 DEF Advance, Since
    <3>2. ASSUME NEW r \in Record, stamp[r] # 0, Current(r) \notin stored
          PROVE  Selects(stamp[r], t)
      BY <1>4, <2>3, <3>2 DEF Advance, Since, Parked, Sound, SoundTrait
    <3> QED
      BY <1>4, <2>3, <3>1, <3>2 DEF Advance, Return
  <2> QED
    BY <1>4, <2>1, <2>2, <2>3 DEF Advance
<1>5. ASSUME Wedged PROVE Parts'
  BY <1>5 DEF Wedged, vars
<1>6. ASSUME FetchFails PROVE Parts'
  BY <1>6 DEF FetchFails, Return
<1>7. ASSUME Crash PROVE Parts'
  BY <1>7 DEF Crash, Return
<1>8. ASSUME Refuse PROVE Parts'
  BY <1>8 DEF Refuse
<1>9. ASSUME NEW r \in Record, Update(r) PROVE Parts'
  BY <1>9 DEF Update
<1>10. ASSUME UNCHANGED vars PROVE Parts'
  BY <1>10 DEF vars
<1> QED
  BY <1>1, <1>2, <1>3, <1>4, <1>5, <1>6, <1>7, <1>8, <1>9, <1>10, NextCases

(* Every collector under study either parks what it leaves or reads the      *)
(* oldest first.                                                             *)
AllSound == \A p \in Profile : SoundTrait(Traits[p])

LEMMA InvHolds == ASSUME AllSound PROVE Spec => []Inv
<1>1. Init => Inv
  <2> SUFFICES ASSUME Init PROVE Parts /\ Typed
    BY DEF Inv
  <2>1. Typed
    BY InitTyped
  <2>2. Parts
    BY DEF Init, Parts, InPlay, WalksAreRecent, TimesAreDistinct, PagesAreOrdered,
           StoredBeforeAdvance, Selected, CoveredByPark, CoveredByWalk
  <2> QED
    BY <2>1, <2>2
<1>2. Inv /\ [Next]_vars => Inv'
  <2>1. Inv => Sound
    BY AllSound, WatermarkAssumption DEF Inv, Typed, TypeOK, Sound, AllSound, trait
  <2> QED
    BY <2>1, TypedNext, PartsNext DEF Inv
<1> QED
  BY <1>1, <1>2, PTL DEF Spec

-----------------------------------------------------------------------------
(* Type correctness, whatever the traits; a poll reads at most MaxPages.     *)
THEOREM TypeCorrect == Spec => []TypeOK
<1>1. Typed => TypeOK
  BY DEF Typed
<1> QED
  BY <1>1, TypedHolds, PTL

(* No record is ever out of reach of a collector that parks the pages it     *)
(* leaves or reads the oldest first, whatever fails or crashes.              *)
THEOREM NoRecordIsSkipped == ASSUME AllSound PROVE Spec => []NothingSkipped
<1>1. Inv => NothingSkipped
  BY DEF Inv, Parts, Selected, CoveredByPark, Beyond, Current, NothingSkipped
<1> QED
  BY <1>1, InvHolds, PTL

(* Nor does such a collector's checkpoint ever move back in time.            *)
THEOREM WatermarkIsMonotonic == ASSUME AllSound PROVE Spec => WatermarkNeverMovesBack
<1> DEFINE Kept == cursor'.since >= cursor.since
<1>1. ASSUME Inv, [Next]_vars PROVE Kept
  <2> USE <1>1 DEF Inv, Typed, TypeOK
  <2>1. CASE Advance
    <3>1. CASE Parked
      BY <2>1, <3>1 DEF Advance, checkpoint
    <3>2. CASE ~Parked
      BY <2>1, <3>2 DEF Advance, Since, Parts, WalksAreRecent, InPlay, checkpoint
    <3> QED
      BY <3>1, <3>2
  <2>2. CASE ~Advance
    <3>1. cursor' = cursor
      BY <2>2, NextCases DEF Begin, Walk, ReadPage, Ingest, Wedged, FetchFails, Crash,
                             Refuse, Update, checkpoint, vars
    <3> QED
      BY <3>1
  <2> QED
    BY <2>1, <2>2
<1>2. Inv /\ [Next]_vars => [Kept]_vars
  BY <1>1
<1> QED
  BY <1>2, InvHolds, PTL DEF Spec, WatermarkNeverMovesBack

(* No record is out of reach of a well-formed checkpoint (run_collector with *)
(* the paging collectors).                                                  *)
THEOREM WatermarkIsSafe == ASSUME AllSound PROVE Spec => []WatermarkSafety
BY TypeCorrect, NoRecordIsSkipped, PTL DEF WatermarkSafety
=============================================================================
