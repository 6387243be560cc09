--------------------------- MODULE IndicatorFeeds ---------------------------
(***************************************************************************)
(* Which source owns an indicator (app/db.py replace_source_iocs,          *)
(* upsert_iocs and delete_ioc under threatintel/runtime.sync_feeds).  The  *)
(* table has one row per indicator; a feed's refresh drops the rows it     *)
(* owns and upserts its list, which takes a row over from whoever has it.  *)
(***************************************************************************)
EXTENDS Integers, Sequences, FiniteSets

CONSTANTS FeedOrder,     \* THREATINTEL_FEEDS, the feeds in the order they are synced
          Indicators,
          Syncers,       \* the scheduler and a console reload
          MaxSyncs, MaxFeedEdits

Feeds == {FeedOrder[i] : i \in DOMAIN FeedOrder}
Manual == "manual"
Nobody == "nobody"

ASSUME FeedsAssumption ==
    /\ FeedOrder \in Seq(Feeds) /\ {Manual, Nobody} \cap Feeds = {}
    /\ MaxSyncs \in Nat /\ MaxFeedEdits \in Nat

VARIABLES
  owner,     \* indicator -> the source of its row, Nobody without a row
  offered,   \* feed -> what it lists now; Unreachable when it does not answer
  sync,      \* syncer -> the feeds left, and the list it has fetched
  syncs, feedEdits,
  applied,   \* feed -> the list last written
  clean,     \* the last sync was alone, reached every feed, and nothing was edited since
  byHand     \* indicators an operator added and no feed has listed since

feedVars == <<owner, offered, sync, syncs, feedEdits, applied, clean, byHand>>

Unreachable == [up |-> FALSE, list |-> {}]
Off == [at |-> "off"]

FeedInit ==
    /\ owner = [x \in Indicators |-> Nobody]
    /\ offered \in [Feeds -> [up : {TRUE}, list : SUBSET Indicators]]
    /\ sync = [s \in Syncers |-> Off]
    /\ syncs = 0 /\ feedEdits = 0
    /\ applied = [f \in Feeds |-> {}]
    /\ clean = FALSE /\ byHand = {}

\* The feed changes its list, or stops answering.
FeedChanges(f) ==
    /\ feedEdits < MaxFeedEdits
    /\ \E now \in [up : {TRUE}, list : SUBSET Indicators] \cup {Unreachable} :
          now # offered[f] /\ offered' = [offered EXCEPT ![f] = now]
    /\ feedEdits' = feedEdits + 1
    /\ UNCHANGED <<owner, sync, syncs, applied, clean, byHand>>

\* A sync that something overlapped.
NotClean == [s \in Syncers |-> IF sync[s] = Off THEN Off ELSE [sync[s] EXCEPT !.clean = FALSE]]

SyncBegins(s) ==
    /\ sync[s] = Off /\ syncs < MaxSyncs
    /\ sync' = [NotClean EXCEPT ![s] =
          [at |-> "fetch", next |-> 1, clean |-> \A t \in Syncers : sync[t] = Off]]
    /\ syncs' = syncs + 1
    /\ clean' = FALSE
    /\ UNCHANGED <<owner, offered, feedEdits, applied, byHand>>

Running(s) == sync[s].at = "fetch" /\ sync[s].next \in DOMAIN FeedOrder

\* load_feed_source and parse_feed; a feed that fails is logged and passed over.
Fetch(s) ==
    /\ Running(s)
    /\ LET f == FeedOrder[sync[s].next]
       IN  sync' = [sync EXCEPT ![s] =
             IF offered[f].up
               THEN [at |-> "replace", next |-> @.next, list |-> offered[f].list,
                     clean |-> @.clean]
               ELSE [at |-> "fetch", next |-> @.next + 1, clean |-> FALSE]]
    /\ UNCHANGED <<owner, offered, syncs, feedEdits, applied, clean, byHand>>

OwnedOnce(x, f, list) ==
    IF x \in list THEN (IF owner[x] = Nobody THEN f ELSE owner[x])
                  ELSE IF owner[x] = f THEN Nobody ELSE owner[x]

OwnedByAll(x, f, list) ==
    IF x \in list THEN f ELSE IF owner[x] \in {f, Manual} THEN Nobody ELSE owner[x]

\* ON CONFLICT DO UPDATE SET source: the row goes to the feed that lists it.
Owned(x, f, list) ==
    IF x \in list THEN f ELSE IF owner[x] = f THEN Nobody ELSE owner[x]

ReplaceSource(s) ==
    /\ sync[s].at = "replace"
    /\ LET f == FeedOrder[sync[s].next]
           list == sync[s].list
       IN  /\ owner' = [x \in Indicators |-> Owned(x, f, list)]
           /\ applied' = [applied EXCEPT ![f] = list]
           /\ byHand' = byHand \ list
    /\ sync' = [sync EXCEPT ![s] = [at |-> "fetch", next |-> @.next + 1, clean |-> @.clean]]
    /\ UNCHANGED <<offered, syncs, feedEdits, clean>>

\* Every feed has been tried: sync_feeds reloads the index (LiveIndex) and returns.
SyncEnds(s) ==
    /\ sync[s].at = "fetch" /\ sync[s].next = Len(FeedOrder) + 1
    /\ clean' = (sync[s].clean /\ \A t \in Syncers \ {s} : sync[t] = Off)
    /\ sync' = [sync EXCEPT ![s] = Off]
    /\ UNCHANGED <<owner, offered, syncs, feedEdits, applied, byHand>>

\* POST /admin/threatintel/add and /delete.
AddIndicator(x) ==
    /\ feedEdits < MaxFeedEdits
    /\ feedEdits' = feedEdits + 1
    /\ owner' = [owner EXCEPT ![x] = Manual]
    /\ byHand' = byHand \cup {x}
    /\ UNCHANGED <<offered, sync, syncs, applied, clean>>

DeleteIndicator(x) ==
    /\ owner[x] # Nobody /\ feedEdits < MaxFeedEdits
    /\ feedEdits' = feedEdits + 1
    /\ owner' = [owner EXCEPT ![x] = Nobody]
    /\ byHand' = byHand \ {x}
    /\ clean' = FALSE
    /\ sync' = NotClean
    /\ UNCHANGED <<offered, syncs, applied>>

FeedNext ==
    \/ \E f \in Feeds : FeedChanges(f)
    \/ \E s \in Syncers : SyncBegins(s) \/ Fetch(s) \/ ReplaceSource(s) \/ SyncEnds(s)
    \/ \E x \in Indicators : AddIndicator(x) \/ DeleteIndicator(x)

FeedSpec == FeedInit /\ [][FeedNext]_feedVars

-----------------------------------------------------------------------------
FeedTypeOK ==
    /\ owner \in [Indicators -> Feeds \cup {Manual, Nobody}]
    /\ DOMAIN sync = Syncers /\ syncs \in 0..MaxSyncs
    /\ applied \in [Feeds -> SUBSET Indicators]

(* sync_feeds: after a sync that reached every feed, alone, an indicator   *)
(* is stored exactly when some feed listed it or an operator added it,     *)
(* however ownership went back and forth between feeds that overlap.  A    *)
(* feed that fails keeps its rows, but not those it shared: the last owner *)
(* drops them.                                                             *)
FeedsAreStored ==
    clean => \A x \in Indicators :
                 owner[x] # Nobody <=> (\E f \in Feeds : x \in applied[f]) \/ owner[x] = Manual

(* replace_source_iocs: a feed removes no indicator an operator added,     *)
(* until that feed or another lists it and so takes it over.               *)
HandAddedStays == \A x \in byHand : owner[x] = Manual

(* What feeds that overlap and operators hold is what is stored.           *)
FeedsKeepTheirs == FeedTypeOK /\ FeedsAreStored /\ HandAddedStays
=============================================================================
