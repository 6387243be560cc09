------------------------- MODULE WatermarkCollector -------------------------
(***************************************************************************)
(* The collectors that page through a vendor's records by time, under       *)
(* run_collector.  A poll asks for what is newer than the checkpoint, reads *)
(* at most MaxPages pages, ingests them and then moves the checkpoint: to   *)
(* the newest time read, to the window's end, or, when pages were left, to  *)
(* the same time and a continuation token.  The collectors differ in the    *)
(* traits below.  A record may be updated at the vendor, which gives it a   *)
(* new time; a walk answers with the records as they were when it started.  *)
(***************************************************************************)
EXTENDS Naturals, FiniteSets

CONSTANTS
    Record,
    Profile,    \* the collectors under study; a behaviour is of one of them
    Traits,     \* Traits[p]: what collector p and its vendor do
    PageMax,    \* records on a page
    MaxPages,   \* pages read in one poll (_MAX_PAGES)
    MaxUpdates, \* bound: updates at the vendor
    MaxFaults   \* bound: failures and crashes in a behaviour

(* "order" is the vendor's; "inclusive" is the filter's comparison; "parks"  *)
(* keeps the token of an unfinished walk; "windowEnd" checkpoints the time   *)
(* the walk began; "fallsBack" starts again when a token is refused.         *)
Trait == [order : {"ascending", "descending", "any"}, inclusive : BOOLEAN,
          parks : BOOLEAN, windowEnd : BOOLEAN, fallsBack : BOOLEAN]

ASSUME WatermarkAssumption ==
    /\ IsFiniteSet(Record)
    /\ Traits \in [Profile -> Trait]
    /\ PageMax \in Nat \ {0} /\ MaxPages \in Nat \ {0}
    /\ MaxUpdates \in Nat /\ MaxFaults \in Nat

VARIABLES
    profile,
    clock,
    updates,    \* updates so far, each at a later time than the last or the same
    stamp,      \* stamp[r]: when r was last updated, 0 before it exists
    stored,     \* versions <<r, time>> in the events table
    cursor,     \* collectors.cursor: since, until, and the versions a parked
                \* token still leads to, {} without a token
    refused,    \* the vendor no longer takes the parked token
    pc,         \* run_collector's thread
    left,       \* versions the walk has not returned yet
    until,      \* when the walk began
    hand,       \* versions read in this poll
    pages,      \* pages read in this poll
    faults

vendor == <<clock, updates, stamp>>
checkpoint == <<cursor, refused>>
poll == <<pc, left, until, hand, pages>>
vars == <<profile, vendor, stored, checkpoint, poll, faults>>

trait == Traits[profile]
Version == Record \X (1 .. MaxUpdates)

TypeOK ==
    /\ profile \in Profile
    /\ updates \in 0 .. MaxUpdates /\ clock \in 0 .. updates
    /\ stamp \in [Record -> 0 .. MaxUpdates]
    /\ stored \subseteq Version
    /\ cursor \in [since : 0 .. MaxUpdates, until : 0 .. MaxUpdates, next : SUBSET Version]
    /\ refused \in BOOLEAN
    /\ pc \in {"idle", "page", "ingest", "advance"}
    /\ left \subseteq Version /\ hand \subseteq Version
    /\ until \in 0 .. MaxUpdates
    /\ pages \in 0 .. MaxPages
    /\ faults \in 0 .. MaxFaults

Init ==
    /\ profile \in Profile
    /\ clock = 0 /\ updates = 0 /\ stamp = [r \in Record |-> 0]
    /\ stored = {} /\ faults = 0
    /\ cursor = [since |-> 0, until |-> 0, next |-> {}] /\ refused = FALSE
    /\ pc = "idle" /\ left = {} /\ until = 0 /\ hand = {} /\ pages = 0

Fault == faults < MaxFaults /\ faults' = faults + 1

Return == pc' = "idle" /\ left' = {} /\ hand' = {} /\ pages' = 0 /\ UNCHANGED until

-----------------------------------------------------------------------------
(* The vendor. *)

(* A record appears or is updated, later than every record so far; or, where *)
(* the filter includes its bound, at the time of the last one.  Without a     *)
(* token to park, one poll must be able to read past the ties of one time.    *)
Update(r) ==
    /\ updates < MaxUpdates /\ updates' = updates + 1
    /\ \/ /\ clock' = clock + 1
          /\ stamp' = [stamp EXCEPT ![r] = clock + 1]
       \/ /\ clock > 0 /\ trait.inclusive /\ stamp[r] # clock
          /\ \/ trait.parks
             \/ Cardinality({x \in Record : stamp[x] = clock}) + 2 <= PageMax * MaxPages
          /\ stamp' = [stamp EXCEPT ![r] = clock]
          /\ UNCHANGED clock
    /\ UNCHANGED <<profile, stored, checkpoint, poll, faults>>

(* A parked token ages out. *)
Refuse ==
    /\ cursor.next # {} /\ ~refused /\ Fault
    /\ refused' = TRUE
    /\ UNCHANGED <<profile, vendor, stored, cursor, poll>>

(* What the filter of a request lets through. *)
Selects(time, since) == IF trait.inclusive THEN time >= since ELSE time > since

Matching(since) ==
    {v \in Version : v[2] = stamp[v[1]] /\ Selects(v[2], since)}

-----------------------------------------------------------------------------
(* fetch(). *)

Walk(rest, began) ==
    /\ pc = "idle" /\ pc' = "page"
    /\ left' = rest /\ until' = began
    /\ UNCHANGED <<profile, vendor, stored, checkpoint, hand, pages>>

NeverResumes == FALSE

(* A poll continues from a parked token. *)
Resumes == cursor.next # {}

Begin ==
    \/ ~Resumes /\ Walk(Matching(cursor.since), clock) /\ UNCHANGED faults
    \/ Resumes /\ ~refused /\ Walk(cursor.next, cursor.until) /\ UNCHANGED faults
    \/ /\ Resumes /\ trait.fallsBack
       /\ \/ refused /\ UNCHANGED faults
          \/ ~refused /\ Fault
       /\ Walk(Matching(cursor.since), clock)

(* Without a fallback every poll on a refused token fails. *)
Wedged ==
    /\ pc = "idle" /\ Resumes /\ refused /\ ~trait.fallsBack
    /\ UNCHANGED vars

(* The vendor's choice of the next page. *)
Page(page) ==
    /\ Cardinality(page) <= PageMax
    /\ page # left => Cardinality(page) = PageMax
    /\ trait.order = "ascending" => \A v \in page, w \in left \ page : v[2] <= w[2]
    /\ trait.order = "descending" => \A v \in page, w \in left \ page : v[2] >= w[2]

MorePagesByOne(rest, read) == rest # {} /\ read <= MaxPages

(* The loop goes on while there is a next page and the poll may read it. *)
MorePages(rest, read) == rest # {} /\ read < MaxPages

ReadPage ==
    /\ pc = "page"
    /\ \E page \in SUBSET left :
         /\ Page(page)
         /\ left' = left \ page /\ hand' = hand \cup page
    /\ pages' = pages + 1
    /\ pc' = IF MorePages(left', pages') THEN "page" ELSE "ingest"
    /\ UNCHANGED <<profile, vendor, stored, checkpoint, until, faults>>

FetchFails ==
    /\ pc = "page" /\ Fault /\ Return
    /\ UNCHANGED <<profile, vendor, stored, checkpoint>>

-----------------------------------------------------------------------------
(* run_collector after fetch(). *)

(* ingest() may raise before or after its commit. *)
Ingest ==
    /\ pc = "ingest"
    /\ \/ /\ stored' = stored \cup hand /\ pc' = "advance"
          /\ UNCHANGED <<left, until, hand, pages, faults>>
       \/ /\ hand # {} /\ Fault
          /\ stored' \in {stored, stored \cup hand}
          /\ Return
    /\ UNCHANGED <<profile, vendor, checkpoint>>

SinceOrNothing(s) ==
    IF hand = {} THEN s = 0
    ELSE (\E v \in hand : v[2] = s) /\ \A v \in hand : v[2] <= s

(* max_time_iso over this poll's records, or the end of the window. *)
Since(s) ==
    IF trait.windowEnd THEN s = until
    ELSE IF hand = {} THEN s = cursor.since
    ELSE (\E v \in hand : v[2] = s) /\ \A v \in hand : v[2] <= s

NothingParked == FALSE
Parked == trait.parks /\ left # {}

(* update_collector with the new checkpoint. *)
Advance ==
    /\ pc = "advance" /\ Return
    /\ \/ /\ Parked
          /\ cursor' = [since |-> cursor.since, until |-> until, next |-> left]
          /\ refused' = FALSE /\ UNCHANGED faults
       \/ /\ ~Parked
          /\ \E s \in 0 .. MaxUpdates :
               Since(s) /\ cursor' = [since |-> s, until |-> 0, next |-> {}]
          /\ refused' = FALSE /\ UNCHANGED faults
       \/ Fault /\ UNCHANGED checkpoint
    /\ UNCHANGED <<profile, vendor, stored>>

Crash ==
    /\ pc # "idle" /\ Fault /\ Return
    /\ UNCHANGED <<profile, vendor, stored, checkpoint>>

Poll == Begin \/ ReadPage \/ Ingest \/ Advance

Next ==
    \/ Poll \/ Wedged \/ FetchFails \/ Crash \/ Refuse
    \/ \E r \in Record : Update(r)

(* The scheduler keeps polling. *)
Fairness == WF_vars(Poll)

Spec == Init /\ [][Next]_vars
FairSpec == Spec /\ Fairness

-----------------------------------------------------------------------------
(* No record is out of reach: its last version is stored, or the parked      *)
(* token leads to it, or the next request from the checkpoint finds it.      *)
(* defender.py calls the opposite "a silent deletion".                       *)
NothingSkipped ==
    \A r \in Record :
        LET v == <<r, stamp[r]>> IN
        stamp[r] # 0 =>
            \/ v \in stored
            \/ v \in cursor.next
            \/ cursor.next = {} /\ Selects(stamp[r], cursor.since)
            \/ cursor.next # {} /\ \A w \in cursor.next : Selects(stamp[r], w[2])

(* The checkpoint is one a request can be made from, and no record is out of *)
(* reach of it.                                                              *)
WatermarkSafety == TypeOK /\ NothingSkipped

(* The checkpoint's time never moves back, on an idle poll or at the end of  *)
(* a walk whose last pages are its oldest.                                   *)
WatermarkNeverMovesBack == [][cursor'.since >= cursor.since]_vars

(* Whatever fails in between, a record is read in the end, or updated again; *)
(* only a collector without a fallback stays behind a token that aged out.   *)
EveryRecordIsStored ==
    \A v \in Version :
        v[2] = stamp[v[1]] ~> \/ v \in stored \/ v[2] # stamp[v[1]]
                              \/ refused /\ ~trait.fallsBack
=============================================================================
