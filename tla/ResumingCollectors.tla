------------------------- MODULE ResumingCollectors --------------------------
(***************************************************************************)
(* The collectors that resume where an earlier poll left off: the Tenable  *)
(* export and the Rapid7 walk (collectors/vuln.py), and the Event Streams  *)
(* of CrowdStrike (collectors/crowdstrike.py).                             *)
(***************************************************************************)
EXTENDS Integers, FiniteSets

-----------------------------------------------------------------------------
(***************************************************************************)
(* The two vulnerability collectors (collectors/vuln.py) that work a       *)
(* listing off over many polls.                                            *)
(***************************************************************************)
-----------------------------------------------------------------------------
(***************************************************************************)
(* The Tenable collector (collectors/vuln.py).  An export is asked for in   *)
(* one poll and drained in later ones, a few chunks at a time, while the    *)
(* vendor still produces it; the checkpoint keeps the export, when it was   *)
(* requested and the chunks already ingested, and moves to the time of the  *)
(* request once every chunk of a finished export is through.                *)
(*                                                                         *)
(* A finding is exported as it was when the export was requested; each one  *)
(* is a chunk of its own here.                                              *)
(***************************************************************************)
CONSTANTS
    Findings,
    ChunkBudget,    \* max_chunks
    ExportMaxAge,   \* export_max_age_seconds
    PullFloor,      \* min_interval_seconds
    LastChange,     \* bound: findings change at the vendor until then
    LastSecond,     \* bound: of the clock
    ExportFaults    \* bound: failures and crashes

ASSUME ExportAssumption == {ExportMaxAge, LastChange, LastSecond} \subseteq Nat

VARIABLES
    second,
    changedAt,      \* finding -> when it last changed at the vendor, -1 before
    export,         \* the vendor's last job: [requested, all, available, status]
    findingRows,    \* <<finding, time>> in the events table
    exportCursor,   \* collectors.cursor: [since, parked, requested, done]
    lastPull,       \* _last_pull, -1 after a start
    exportPoll,     \* run_collector's thread: [at, hand, next]
    exportFaults

exportVars == <<second, changedAt, export, findingRows, exportCursor, lastPull, exportPoll, exportFaults>>

Watermark(since) == [since |-> since, parked |-> FALSE, requested |-> -1, done |-> {}]
NoJob == [requested |-> -1, all |-> {}, available |-> {}, status |-> "ERROR"]
BetweenPolls == [at |-> "idle", hand |-> {}, next |-> Watermark(0)]

ExportInit ==
    /\ second = 0 /\ changedAt = [f \in Findings |-> -1] /\ export = NoJob
    /\ findingRows = {} /\ exportCursor = Watermark(0) /\ lastPull = -1
    /\ exportPoll = BetweenPolls /\ exportFaults = 0

\* Not in the last second, so that what a failure delays still has its time.
ExportFault == second < LastSecond /\ exportFaults < ExportFaults /\ exportFaults' = exportFaults + 1

-----------------------------------------------------------------------------
(* The vendor.                                                             *)

Change(f) ==
    /\ second <= LastChange /\ changedAt[f] < second
    /\ changedAt' = [changedAt EXCEPT ![f] = second]
    /\ UNCHANGED <<second, export, findingRows, exportCursor, lastPull, exportPoll, exportFaults>>

Matching2(since) == {<<f, changedAt[f]>> : f \in {g \in Findings : changedAt[g] >= since}}

Requested(since) == [requested |-> second, all |-> Matching2(since), available |-> {}, status |-> "PROCESSING"]

\* An export is asked for only when no other is parked, so the last one is the
\* only one that can still be drained.
VendorStep(job) ==
    /\ export' = job
    /\ UNCHANGED <<second, changedAt, findingRows, exportCursor, lastPull, exportPoll>>

ChunkReady ==
    /\ export.status = "PROCESSING" /\ UNCHANGED exportFaults
    /\ \E c \in export.all \ export.available : VendorStep([export EXCEPT !.available = @ \cup {c}])

Finish2 ==
    /\ export.status = "PROCESSING" /\ export.available = export.all /\ UNCHANGED exportFaults
    /\ VendorStep([export EXCEPT !.status = "FINISHED"])

\* ERROR or CANCELLED.
JobDies ==
    /\ export.status = "PROCESSING" /\ ExportFault
    /\ VendorStep([export EXCEPT !.status = "ERROR"])

Second ==
    /\ second < LastSecond /\ second' = second + 1
    /\ UNCHANGED <<changedAt, export, findingRows, exportCursor, lastPull, exportPoll, exportFaults>>

-----------------------------------------------------------------------------
(* fetch.                                                                  *)

Due == lastPull = -1 \/ second - lastPull >= PullFloor
Expired == second - exportCursor.requested > ExportMaxAge
Parked2 == exportCursor.parked /\ ~Expired

Fetched(hand, next) == exportPoll' = [at |-> IF hand = {} THEN "advance" ELSE "ingest", hand |-> hand, next |-> next]

\* Queue an export and stop; or, before the floor has passed, nothing.
RequestExport ==
    /\ exportPoll.at = "idle" /\ ~Parked2
    /\ IF Due
       THEN /\ export' = Requested(exportCursor.since) /\ lastPull' = second
            /\ Fetched({}, [since |-> exportCursor.since, parked |-> TRUE, requested |-> second, done |-> {}])
       ELSE Fetched({}, Watermark(exportCursor.since)) /\ UNCHANGED <<export, lastPull>>
    /\ UNCHANGED <<second, changedAt, findingRows, exportCursor, exportFaults>>

\* A finished export that has nothing left is noticed only while it is drained.
ReleasedLate(pending) == FALSE

\* FINISHED, and every chunk was drained in earlier polls.
Released(pending) == export.status = "FINISHED" /\ pending = {}

\* The status alone.
IsComplete(done) == export.status = "FINISHED"

Complete(done) == export.status = "FINISHED" /\ export.available \subseteq done

AdvanceTo == exportCursor.requested

Drain(chunks) ==
    LET pending == export.available \ exportCursor.done
        done == exportCursor.done \cup chunks
    IN  /\ exportPoll.at = "idle" /\ Parked2
        /\ chunks \subseteq pending
        /\ Cardinality(chunks) = IF Cardinality(pending) < ChunkBudget THEN Cardinality(pending) ELSE ChunkBudget
        /\ CASE export.status = "ERROR" -> Fetched({}, Watermark(exportCursor.since))
             [] export.status # "ERROR" /\ Released(pending) -> Fetched({}, Watermark(AdvanceTo))
             [] export.status # "ERROR" /\ ~Released(pending) /\ pending = {} -> Fetched({}, exportCursor)
             [] OTHER -> Fetched(chunks, IF Complete(done) THEN Watermark(AdvanceTo)
                                         ELSE [exportCursor EXCEPT !.done = done])
        /\ UNCHANGED <<second, changedAt, export, findingRows, exportCursor, lastPull, exportFaults>>

-----------------------------------------------------------------------------
(* run_collector.                                                          *)

IngestFindings ==
    /\ exportPoll.at = "ingest" /\ findingRows' = findingRows \cup exportPoll.hand
    /\ exportPoll' = [exportPoll EXCEPT !.at = "advance", !.hand = {}]
    /\ UNCHANGED <<second, changedAt, export, exportCursor, lastPull, exportFaults>>

SaveCursor ==
    /\ exportPoll.at = "advance" /\ exportCursor' = exportPoll.next /\ exportPoll' = BetweenPolls
    /\ UNCHANGED <<second, changedAt, export, findingRows, lastPull, exportFaults>>

\* fetch or ingest raises: the cursor stays.  The request may have reached the vendor.
ExportPollFails ==
    /\ ExportFault /\ exportPoll' = BetweenPolls
    /\ \/ exportPoll.at \in {"ingest", "advance"}
       \/ exportPoll.at = "idle" /\ Parked2
    /\ UNCHANGED <<second, changedAt, export, findingRows, exportCursor, lastPull>>

ExportCrash ==
    /\ ExportFault /\ exportPoll' = BetweenPolls /\ lastPull' = -1
    /\ UNCHANGED <<second, changedAt, export, findingRows, exportCursor>>

PollStep == RequestExport \/ (\E chunks \in SUBSET (Findings \X (0 .. LastChange)) : Drain(chunks)) \/ IngestFindings \/ SaveCursor

ExportNext ==
    \/ \E f \in Findings : Change(f)
    \/ ChunkReady \/ Finish2 \/ JobDies
    \/ Second \/ PollStep \/ ExportPollFails \/ ExportCrash

ExportFairness == WF_exportVars(PollStep) /\ WF_exportVars(ChunkReady \/ Finish2)

ExportSpec == ExportInit /\ [][ExportNext]_exportVars /\ ExportFairness

-----------------------------------------------------------------------------
\* Whatever last changed before the checkpoint has been ingested as it then
\* was: over chunks that appear while others are drained, dead and expired
\* export, failing ingests and restarts (fetch, phase 3; run_collector).
NoFindingIsPassed ==
    \A f \in Findings : (changedAt[f] # -1 /\ changedAt[f] < exportCursor.since) => <<f, changedAt[f]>> \in findingRows

\* A finished export never wedges the collector: the checkpoint does not stay on
\* it, whether its chunks were drained before or after it finished, and if there
\* are none (fetch, phase 2).
FinishedExportsAreReleased ==
    []<>~(exportCursor.parked /\ exportCursor.requested = export.requested /\ export.status = "FINISHED")

-----------------------------------------------------------------------------
(***************************************************************************)
(* The Rapid7 collector (collectors/vuln.py).  A poll reads one page of the *)
(* assets scanned since the checkpoint's day, sorted by id, with each       *)
(* asset's findings and the catalog entry of each finding; it parks the     *)
(* page number until the last page is through, while assets are scanned     *)
(* again, appear and are removed at the vendor.                             *)
(*                                                                         *)
(* An asset has one finding here, of the check Check[asset]; what it says   *)
(* is the time of the asset's last scan.  A poll before the cadence floor   *)
(* has passed writes the checkpoint back as it is, and is left out.         *)
(***************************************************************************)
CONSTANTS
    Assets,         \* ids, which are numbers
    Check,          \* asset -> the check it failed
    GoneChecks,     \* checks the catalog no longer has: it answers 404
    DayLength, AssetPage, MaxVulnLookups, CacheLimit,
    ScansUntil,     \* bound: assets are scanned until then
    LastHour,       \* bound: of the clock
    WalkFaults,     \* bound: failures and crashes
    Removals        \* bound: assets removed at the vendor

ASSUME WalkAssumption ==
    /\ IsFiniteSet(Assets) /\ Assets \subseteq Nat /\ {DayLength, AssetPage} \subseteq Nat \ {0}
    /\ MaxVulnLookups \in Nat

VARIABLES
    hour,
    scannedAt,      \* asset -> its last scan, -1 if the vendor has none
    assetRows,      \* <<asset, scan, with its catalog entry>> in the events table
    walkCursor,     \* collectors.cursor: [since, until, page]
    catalog,        \* _vuln_cache: check -> the entry, found or not
    walkPoll,       \* run_collector's thread: [at, hand, next]
    removed,        \* removals while a walk was parked
    walkFaults

walkVars == <<hour, scannedAt, assetRows, walkCursor, catalog, walkPoll, removed, walkFaults>>

StartOfWalk(since) == [since |-> since, until |-> -1, page |-> 0]
NotPolling == [at |-> "idle", hand |-> {}, next |-> StartOfWalk(0)]

WalkInit ==
    /\ hour = 0 /\ scannedAt = [a \in Assets |-> -1] /\ assetRows = {}
    /\ walkCursor = StartOfWalk(0) /\ catalog = <<>> /\ walkPoll = NotPolling
    /\ removed = 0 /\ walkFaults = 0

WalkFault == walkFaults < WalkFaults /\ walkFaults' = walkFaults + 1

-----------------------------------------------------------------------------
(* The vendor.                                                             *)

Scan(a) ==
    /\ hour <= ScansUntil /\ scannedAt[a] < hour /\ scannedAt' = [scannedAt EXCEPT ![a] = hour]
    /\ UNCHANGED <<hour, assetRows, walkCursor, catalog, walkPoll, removed, walkFaults>>

\* An asset is removed: the later ones move up by one in every listing.
RemoveAsset(a) ==
    /\ scannedAt[a] # -1 /\ removed < Removals /\ walkCursor.page > 0
    /\ removed' = removed + 1 /\ scannedAt' = [scannedAt EXCEPT ![a] = -1]
    /\ UNCHANGED <<hour, assetRows, walkCursor, catalog, walkPoll, walkFaults>>

Hour ==
    /\ hour < LastHour /\ hour' = hour + 1
    /\ UNCHANGED <<scannedAt, assetRows, walkCursor, catalog, walkPoll, removed, walkFaults>>

-----------------------------------------------------------------------------
(* fetch.                                                                  *)

Day(time) == time \div DayLength

\* What was scanned later than the checkpoint.
SearchedAfter(since) == {a \in Assets : scannedAt[a] > since}

\* r7_search_body: the filter takes a date, and includes it.
Searched(since) == {a \in Assets : scannedAt[a] # -1 /\ Day(scannedAt[a]) >= Day(since)}

\* r7_search_url: a page of the assets, sorted by id.
PageOf(found, page) ==
    {a \in found : LET before == Cardinality({b \in found : b < a})
                   IN  before >= page * AssetPage /\ before < (page + 1) * AssetPage}

\* Until now, on every page.
UntilNow == hour

\* Fixed when the walk starts.
Until == IF walkCursor.page > 0 THEN walkCursor.until ELSE hour

\* Any error counts as an entry that is gone.
LookupAbsorbs(c, fails) == TRUE

\* _vulnerability: a 404 is cached as a miss, any other error stops the poll.
LookupSurvives(c, fails) == ~fails

\* The checks of a page that are looked up, while the poll's budget lasts.
Unseen(page) == {Check[a] : a \in page} \ DOMAIN catalog

With(entries, looked, gone) ==
    [c \in DOMAIN entries \cup looked |-> IF c \in DOMAIN entries THEN entries[c] ELSE c \notin gone]

CacheOf(entries, looked) ==
    IF Cardinality(DOMAIN entries) + Cardinality(looked) > CacheLimit THEN entries
    ELSE With(entries, looked, GoneChecks)

FetchPage(looked, failing) ==
    LET found == Searched(walkCursor.since)
        page == PageOf(found, walkCursor.page)
        entry == With(catalog, looked, GoneChecks \cup failing)
        hand == {<<a, scannedAt[a], Check[a] \in DOMAIN entry /\ entry[Check[a]]>> : a \in page}
        more == page # {} /\ (walkCursor.page + 1) * AssetPage < Cardinality(found)
    IN  /\ walkPoll.at = "idle"
        /\ looked \subseteq Unseen(page)
        /\ Cardinality(looked) = IF Cardinality(Unseen(page)) < MaxVulnLookups THEN Cardinality(Unseen(page)) ELSE MaxVulnLookups
        /\ failing \subseteq looked /\ \A c \in looked : LookupSurvives(c, c \in failing)
        /\ catalog' = CacheOf(catalog, looked \ failing)
        /\ walkPoll' = [at |-> IF hand = {} THEN "advance" ELSE "ingest", hand |-> hand,
                        next |-> IF more THEN [since |-> walkCursor.since, until |-> Until, page |-> walkCursor.page + 1]
                                 ELSE StartOfWalk(Until)]
        /\ UNCHANGED <<hour, scannedAt, assetRows, walkCursor, removed, walkFaults>>

-----------------------------------------------------------------------------
(* run_collector.                                                          *)

IngestPage ==
    /\ walkPoll.at = "ingest" /\ assetRows' = assetRows \cup walkPoll.hand
    /\ walkPoll' = [walkPoll EXCEPT !.at = "advance", !.hand = {}]
    /\ UNCHANGED <<hour, scannedAt, walkCursor, catalog, removed, walkFaults>>

SavePage ==
    /\ walkPoll.at = "advance" /\ walkCursor' = walkPoll.next /\ walkPoll' = NotPolling
    /\ UNCHANGED <<hour, scannedAt, assetRows, catalog, removed, walkFaults>>

\* fetch or ingest raises, fetch perhaps after some lookups; a crash forgets them all.
WalkFails ==
    /\ WalkFault /\ walkPoll' = NotPolling
    /\ \/ catalog' \in {catalog, <<>>}
       \/ /\ walkPoll.at = "idle"
          /\ \E looked \in SUBSET Unseen(PageOf(Searched(walkCursor.since), walkCursor.page)) :
                Cardinality(looked) < MaxVulnLookups /\ catalog' = CacheOf(catalog, looked)
    /\ UNCHANGED <<hour, scannedAt, assetRows, walkCursor, removed>>

WalkPollStep ==
    \/ \E looked \in SUBSET {Check[a] : a \in Assets} : \E failing \in SUBSET looked : FetchPage(looked, failing)
    \/ IngestPage \/ SavePage

WalkNext ==
    \/ \E a \in Assets : Scan(a) \/ RemoveAsset(a)
    \/ Hour \/ WalkPollStep \/ WalkFails

WalkSpec == WalkInit /\ [][WalkNext]_walkVars /\ WF_walkVars(WalkPollStep)

-----------------------------------------------------------------------------
\* Every asset whose last scan the checkpoint has passed was ingested as of that
\* scan, except that each asset removed under a parked walk can hide one: scans
\* shift assets between the pages of a walk without losing any (fetch, r7_page).
WalkSkipsNothing ==
    Cardinality({a \in Assets : scannedAt[a] # -1 /\ scannedAt[a] < walkCursor.since
                                  /\ \A full \in BOOLEAN : <<a, scannedAt[a], full>> \notin assetRows})
        <= removed

\* A finding is stored without its catalog entry only because the catalog has
\* none or the poll's budget was spent, never because the catalog failed to
\* answer (_vulnerability).
OnlyBudgetDegrades ==
    \A row \in assetRows : row[3] \/ Check[row[1]] \in GoneChecks
        \/ AssetPage > MaxVulnLookups

\* Every scan is ingested in the end (fetch, run_collector).
EveryScanIsStored ==
    []<>(\A a \in Assets :
            scannedAt[a] = -1 \/ removed > 0 \/ \E full \in BOOLEAN : <<a, scannedAt[a], full>> \in assetRows)

(* A listing worked off over many polls passes nothing by, and degrades no *)
(* finding for a failure.                                                  *)
ListingsAreWhole == NoFindingIsPassed /\ WalkSkipsNothing /\ OnlyBudgetDegrades

-----------------------------------------------------------------------------
(***************************************************************************)
(* The Event Streams collector (collectors/crowdstrike.py).  A poll gets a  *)
(* bearer token, lists the partitions of the feed, reads a bounded batch    *)
(* off each of the first _MAX_FEEDS, and checkpoints the highest offset it  *)
(* could parse of each.  A batch ends where the budget, the feed or the     *)
(* connection does, which may be in the middle of a record.                 *)
(*                                                                         *)
(* The records of a partition have the offsets 1, 2, ...; the vendor reads  *)
(* from an offset on, and from the oldest without one.                      *)
(***************************************************************************)
CONSTANTS
    Feeds,          \* partitions
    MaxFeeds,       \* _MAX_FEEDS
    BatchBudget,    \* records a batch may hold (_STREAM_MAX_BYTES, _STREAM_SECONDS)
    TokenLife, TokenSkew,   \* expires_in, _TOKEN_SKEW
    FetchTime,      \* how long after it got the token fetch may still use it
    MaxOffset, LastMinute, StreamFaults

\* _http_get's timeout of 30 s is within _TOKEN_SKEW of 60 s, and the vendor's
\* tokens live longer than a request.
ASSUME StreamAssumption ==
    /\ {TokenLife, TokenSkew, FetchTime, MaxOffset} \subseteq Nat
    /\ FetchTime <= TokenSkew /\ FetchTime < TokenLife

VARIABLES
    minute,
    produced,       \* partition -> its newest offset
    streamRows,     \* <<partition, offset>> in the events table
    offsets,        \* collectors.cursor: partition -> offset
    token,          \* _token_value, _token_expires, and when it does at the vendor
    streamPoll,     \* [at, began, todo, hand, next]
    streamFaults

streamVars == <<minute, produced, streamRows, offsets, token, streamPoll, streamFaults>>

NoToken2 == [until |-> -1, good |-> -1]
Waiting2 == [at |-> "idle", began |-> 0, todo |-> {}, hand |-> {}, next |-> <<>>]

StreamInit ==
    /\ minute = 0 /\ produced = [f \in Feeds |-> 0] /\ streamRows = {} /\ offsets = <<>>
    /\ token = NoToken2 /\ streamPoll = Waiting2 /\ streamFaults = 0

StreamFault == streamFaults < StreamFaults /\ streamFaults' = streamFaults + 1

-----------------------------------------------------------------------------
Produce(f) ==
    /\ produced[f] < MaxOffset /\ produced' = [produced EXCEPT ![f] = @ + 1]
    /\ UNCHANGED <<minute, streamRows, offsets, token, streamPoll, streamFaults>>

\* The listing is answered FetchTime at most after the token was got: _http_get
\* times out.  The partitions are read with tokens of their own.
Minute ==
    /\ minute < LastMinute /\ minute' = minute + 1
    /\ streamPoll.at = "list" => minute' - streamPoll.began <= FetchTime
    /\ UNCHANGED <<produced, streamRows, offsets, token, streamPoll, streamFaults>>

-----------------------------------------------------------------------------
(* fetch.                                                                  *)

\* As long as the vendor said.
CachedFor(life) == life

\* _token: until a while before it expires.
CachedUntil(life) == IF life > TokenSkew THEN life - TokenSkew ELSE 0

GetToken ==
    /\ streamPoll.at = "idle" /\ streamPoll' = [Waiting2 EXCEPT !.at = "list", !.began = minute, !.next = offsets]
    /\ IF minute < token.until THEN UNCHANGED token
       ELSE token' = [until |-> minute + CachedUntil(TokenLife), good |-> minute + TokenLife]
    /\ UNCHANGED <<minute, produced, streamRows, offsets, streamFaults>>

\* datafeed_streams(...)[:_MAX_FEEDS].
ListFeeds(listed) ==
    /\ streamPoll.at = "list"
    /\ Cardinality(listed) = IF Cardinality(Feeds) < MaxFeeds THEN Cardinality(Feeds) ELSE MaxFeeds
    /\ streamPoll' = [streamPoll EXCEPT !.at = "read", !.todo = listed]
    /\ UNCHANGED <<minute, produced, streamRows, offsets, token, streamFaults>>

OffsetOf(f) == IF f \in DOMAIN streamPoll.next THEN streamPoll.next[f] ELSE 0

\* How far the connection got.
OffsetReached(f, whole, torn) == IF torn THEN whole + 1 ELSE whole

\* max_offset of stream_records: the last record that was read to its end.
OffsetParsed(f, whole, torn) == IF whole = OffsetOf(f) THEN OffsetOf(f) ELSE whole

Advanced(next, f, upTo) == [g \in DOMAIN next \cup {f} |-> IF g = f THEN upTo ELSE next[g]]

ReadFeed(f, whole, torn) ==
    LET from == OffsetOf(f)
        upTo == OffsetParsed(f, whole, torn)
    IN  /\ streamPoll.at = "read" /\ f \in streamPoll.todo
        /\ whole >= from /\ whole <= produced[f] /\ whole - from <= BatchBudget
        /\ torn => whole < produced[f]
        \* An end before the budget is spent has a cause.
        /\ (whole - from < BatchBudget /\ whole < produced[f]) => torn
        /\ IF torn THEN StreamFault ELSE UNCHANGED streamFaults
        /\ streamPoll' = [streamPoll EXCEPT
              !.todo = @ \ {f}, !.hand = @ \cup {<<f, o>> : o \in (from + 1) .. whole},
              !.next = IF upTo = 0 THEN @ ELSE Advanced(@, f, upTo)]
        /\ UNCHANGED <<minute, produced, streamRows, offsets, token>>

FetchDone ==
    /\ streamPoll.at = "read" /\ streamPoll.todo = {}
    /\ streamPoll' = [streamPoll EXCEPT !.at = IF streamPoll.hand = {} THEN "advance" ELSE "ingest"]
    /\ UNCHANGED <<minute, produced, streamRows, offsets, token, streamFaults>>

-----------------------------------------------------------------------------
(* run_collector.                                                          *)

IngestStream ==
    /\ streamPoll.at = "ingest" /\ streamRows' = streamRows \cup streamPoll.hand
    /\ streamPoll' = [streamPoll EXCEPT !.at = "advance", !.hand = {}]
    /\ UNCHANGED <<minute, produced, offsets, token, streamFaults>>

\* The last poll's map alone.
OnlyRead(next) == [f \in {g \in DOMAIN next : g \notin DOMAIN offsets \/ next[g] # offsets[g]} |-> next[f]]

\* stream_cursor: the offsets of every partition ever read.
CursorFrom(next) == next

SaveOffsets ==
    /\ streamPoll.at = "advance" /\ offsets' = CursorFrom(streamPoll.next) /\ streamPoll' = Waiting2
    /\ UNCHANGED <<minute, produced, streamRows, token, streamFaults>>

\* A request or the ingest raises, or the process dies, with the token in memory.
StreamFails ==
    /\ StreamFault /\ streamPoll.at # "idle" /\ streamPoll' = Waiting2 /\ token' \in {token, NoToken2}
    /\ UNCHANGED <<minute, produced, streamRows, offsets>>

StreamPollStep ==
    \/ GetToken \/ (\E listed \in SUBSET Feeds : ListFeeds(listed))
    \/ (\E f \in Feeds, whole \in 0 .. MaxOffset, torn \in BOOLEAN : ReadFeed(f, whole, torn))
    \/ FetchDone \/ IngestStream \/ SaveOffsets

StreamNext ==
    \/ \E f \in Feeds : Produce(f)
    \/ Minute \/ StreamPollStep \/ StreamFails

StreamSpec == StreamInit /\ [][StreamNext]_streamVars /\ WF_streamVars(StreamPollStep)

-----------------------------------------------------------------------------
\* Nothing at or below a partition's offset is missing from the store: a record
\* cut at the end of a batch, a reset, a failing ingest or a crash costs only
\* what is read again (_read_stream, stream_records, max_offset).
OffsetsAreBacked ==
    \A f \in DOMAIN offsets : \A o \in 1 .. offsets[f] : <<f, o>> \in streamRows

\* A partition is never read again from its start, whatever an idle batch or
\* another partition's batch returned (max_offset, stream_cursor).
OffsetsNeverMoveBack ==
    [][\A f \in DOMAIN offsets : f \in DOMAIN offsets' /\ offsets'[f] >= offsets[f]]_streamVars

\* A request under way still holds a token the vendor takes, for a token from
\* the cache as for a new one (_token).
TokenOutlivesFetch == streamPoll.at = "list" => minute < token.good

\* Every record is ingested in the end while the feed has no more partitions
\* than a poll reads (fetch).
EveryRecordIsRead ==
    []<>(Cardinality(Feeds) <= MaxFeeds => \A f \in Feeds : \A o \in 1 .. produced[f] : <<f, o>> \in streamRows)

(* A partition is stored up to its offset, with requests the vendor        *)
(* accepts.                                                                *)
PartitionsAreWhole == OffsetsAreBacked /\ TokenOutlivesFetch
=============================================================================
