---------------------------- MODULE Sources_proofs ----------------------------
(***************************************************************************)
(* Proofs about what brings events in, what is done with each before it is  *)
(* stored, and what looks at them afterwards: the collectors that resume,   *)
(* the S3 notifications, the jobs on a timer, the geo index and the path of *)
(* an event.  Each machine is alone here, but for the last theorem:         *)
(* MCEventPath has one of them move at a time.                              *)
(***************************************************************************)
EXTENDS MCEventPath, FiniteSetTheorems, TLAPS

-----------------------------------------------------------------------------
(***************************************************************************)
(* The Event Streams (ResumingCollectors).                                 *)
(*                                                                         *)
(* What a poll has in hand backs what it would write as its cursor, and     *)
(* that is nowhere behind the cursor there is; a poll still listing has     *)
(* used no more than FetchTime of its token.                                *)
(***************************************************************************)
AreOffsets(next) == \A f \in DOMAIN next : f \in Feeds /\ next[f] \in Nat

StreamTyped ==
    /\ minute \in Nat /\ AreOffsets(offsets)
    /\ streamPoll.at \in {"idle", "list", "read", "ingest", "advance"}
    /\ streamPoll = [at |-> streamPoll.at, began |-> streamPoll.began, todo |-> streamPoll.todo,
                     hand |-> streamPoll.hand, next |-> streamPoll.next]
    /\ streamPoll.began \in Nat /\ streamPoll.todo \in SUBSET Feeds /\ AreOffsets(streamPoll.next)
    /\ token.until \in Int /\ token.good \in Int

OffsetsBackedBy(next, stock) == \A f \in DOMAIN next : \A o \in 1 .. next[f] : <<f, o>> \in stock
NotBehind(next, before) == \A f \in DOMAIN before : f \in DOMAIN next /\ next[f] >= before[f]

StreamInv ==
    /\ StreamTyped
    /\ OffsetsBackedBy(offsets, streamRows)
    /\ streamPoll.at # "idle" =>
          OffsetsBackedBy(streamPoll.next, streamRows \cup streamPoll.hand) /\ NotBehind(streamPoll.next, offsets)
    /\ streamPoll.at \in {"idle", "list", "advance"} => streamPoll.hand = {}
    /\ token.until > minute => token.until + TokenSkew <= token.good
    /\ streamPoll.at = "list" =>
          /\ streamPoll.began + FetchTime < token.good
          /\ minute >= streamPoll.began /\ minute - streamPoll.began <= FetchTime

LEMMA StreamInvInit == StreamInit => StreamInv
<1> SUFFICES ASSUME StreamInit PROVE StreamInv
  OBVIOUS
<1>1. minute = 0 /\ offsets = <<>> /\ token = NoToken2 /\ streamPoll = Waiting2
  BY DEF StreamInit
<1>2. AreOffsets(<<>>) /\ OffsetsBackedBy(<<>>, streamRows)
  BY DEF AreOffsets, OffsetsBackedBy
<1> QED
  BY <1>1, <1>2 DEF StreamInv, StreamTyped, Waiting2, NoToken2

(* A batch read off one partition: its records are in hand up to the offset *)
(* they end at (stream_records, max_offset).                                *)
LEMMA FeedRead ==
  ASSUME NEW next, AreOffsets(next), NEW f \in Feeds, NEW whole \in Nat, NEW from \in Nat, whole >= from,
         from = IF f \in DOMAIN next THEN next[f] ELSE 0, NEW stock,
         OffsetsBackedBy(next, stock)
  PROVE  LET after == IF whole = 0 THEN next ELSE Advanced(next, f, whole)
         IN  /\ AreOffsets(after) /\ NotBehind(after, next)
             /\ OffsetsBackedBy(after, stock \cup {<<f, o>> : o \in (from + 1) .. whole})
<1> DEFINE after == IF whole = 0 THEN next ELSE Advanced(next, f, whole)
           read == {<<f, o>> : o \in (from + 1) .. whole}
<1>1. /\ DOMAIN Advanced(next, f, whole) = DOMAIN next \cup {f}
      /\ \A g \in DOMAIN next \cup {f} : Advanced(next, f, whole)[g] = IF g = f THEN whole ELSE next[g]
  BY DEF Advanced
<1>2. CASE whole = 0
  BY <1>2 DEF AreOffsets, NotBehind, OffsetsBackedBy
<1>3. CASE whole # 0
  <2>1. AreOffsets(Advanced(next, f, whole)) /\ NotBehind(Advanced(next, f, whole), next)
    BY <1>1 DEF AreOffsets, NotBehind
  <2>2. ASSUME NEW g \in DOMAIN Advanced(next, f, whole), NEW o \in 1 .. Advanced(next, f, whole)[g]
        PROVE  <<g, o>> \in stock \cup read
    <3>1. CASE g = f
      <4>1. o \in 1 .. whole
        BY <3>1, <2>2, <1>1
      <4>2. CASE o \in (from + 1) .. whole
        BY <3>1, <4>2
      <4>3. CASE o \notin (from + 1) .. whole
        <5>1. o \in 1 .. from
          BY <4>1, <4>3
        <5>2. f \in DOMAIN next /\ o \in 1 .. next[f]
          BY <5>1
        <5> QED
          BY <3>1, <5>2 DEF OffsetsBackedBy
      <4> QED
        BY <4>2, <4>3
    <3>2. CASE g # f
      BY <3>2, <2>2, <1>1 DEF OffsetsBackedBy
    <3> QED
      BY <3>1, <3>2
  <2>3. OffsetsBackedBy(Advanced(next, f, whole), stock \cup read)
    BY <2>2 DEF OffsetsBackedBy
  <2> QED
    BY <2>1, <2>3, <1>3
<1> QED
  BY <1>2, <1>3

LEMMA StreamInvStep == StreamInv /\ [StreamNext]_streamVars => StreamInv'
<1> SUFFICES ASSUME StreamInv, [StreamNext]_streamVars PROVE StreamInv'
  OBVIOUS
<1>t. /\ minute \in Nat /\ AreOffsets(offsets) /\ AreOffsets(streamPoll.next) /\ streamPoll.began \in Nat
      /\ token.until \in Int /\ token.good \in Int /\ streamPoll.todo \in SUBSET Feeds
      /\ streamPoll = [at |-> streamPoll.at, began |-> streamPoll.began, todo |-> streamPoll.todo,
                       hand |-> streamPoll.hand, next |-> streamPoll.next]
  BY DEF StreamInv, StreamTyped
<1>e. AreOffsets(<<>>)
  BY DEF AreOffsets
<1>w. /\ Waiting2.at = "idle" /\ Waiting2.hand = {} /\ Waiting2.todo = {} /\ Waiting2.began = 0 /\ Waiting2.next = <<>>
      /\ Waiting2 = [at |-> Waiting2.at, began |-> Waiting2.began, todo |-> Waiting2.todo,
                     hand |-> Waiting2.hand, next |-> Waiting2.next]
  BY DEF Waiting2
<1>c. /\ TokenLife \in Nat /\ TokenSkew \in Nat /\ FetchTime \in Nat
      /\ FetchTime <= TokenSkew /\ FetchTime < TokenLife
  BY StreamAssumption
<1>1. CASE \E f \in Feeds : Produce(f)
  BY <1>1 DEF Produce, StreamInv, StreamTyped
<1>2. CASE Minute
  BY <1>2, <1>t, <1>c DEF Minute, StreamInv, StreamTyped
<1>3. CASE GetToken
  <2>1. /\ streamPoll.at = "idle" /\ UNCHANGED <<minute, streamRows, offsets>>
        /\ streamPoll' = [Waiting2 EXCEPT !.at = "list", !.began = minute, !.next = offsets]
        /\ IF minute < token.until THEN UNCHANGED token
           ELSE token' = [until |-> minute + CachedUntil(TokenLife), good |-> minute + TokenLife]
    BY <1>3 DEF GetToken
  <2>2. /\ streamPoll'.at = "list" /\ streamPoll'.began = minute /\ streamPoll'.next = offsets
        /\ streamPoll'.hand = {} /\ streamPoll'.todo = {}
        /\ streamPoll' = [at |-> "list", began |-> minute, todo |-> {}, hand |-> {}, next |-> offsets]
    BY <2>1 DEF Waiting2
  <2>3. CachedUntil(TokenLife) \in Nat /\ (CachedUntil(TokenLife) > 0 => CachedUntil(TokenLife) + TokenSkew <= TokenLife)
    BY <1>c DEF CachedUntil
  <2>4. /\ token'.until \in Int /\ token'.good \in Int /\ minute + FetchTime < token'.good
        /\ token'.until > minute => token'.until + TokenSkew <= token'.good
    <3>1. CASE minute < token.until
      BY <2>1, <3>1, <1>t, <1>c DEF StreamInv
    <3>2. CASE ~(minute < token.until)
      <4> DEFINE c == CachedUntil(TokenLife)
      <4>1. token'.until = minute + c /\ token'.good = minute + TokenLife
        BY <2>1, <3>2
      <4> HIDE DEF c
      <4> QED
        BY <4>1, <2>3, <1>t, <1>c DEF c
    <3> QED
      BY <3>1, <3>2
  <2>5. OffsetsBackedBy(offsets, streamRows) /\ NotBehind(offsets, offsets)
    BY <1>t DEF StreamInv, NotBehind, AreOffsets
  <2>6. streamRows \cup {} = streamRows
    OBVIOUS
  <2>7. minute - minute <= FetchTime /\ minute >= minute
    BY <1>t, <1>c
  <2> QED
    BY <2>1, <2>2, <2>4, <2>5, <2>6, <2>7, <1>t, <1>c DEF StreamInv, StreamTyped
<1>4. ASSUME NEW listed \in SUBSET Feeds, ListFeeds(listed) PROVE StreamInv'
  BY <1>4, <1>t DEF ListFeeds, StreamInv, StreamTyped
<1>5. ASSUME NEW f \in Feeds, NEW whole \in 0 .. MaxOffset, NEW torn \in BOOLEAN, ReadFeed(f, whole, torn) PROVE StreamInv'
  <2> DEFINE from == OffsetOf(f)
             after == IF whole = 0 THEN streamPoll.next ELSE Advanced(streamPoll.next, f, whole)
             read == {<<f, o>> : o \in (from + 1) .. whole}
  <2>1. from \in Nat /\ whole \in Nat /\ from = IF f \in DOMAIN streamPoll.next THEN streamPoll.next[f] ELSE 0
    BY <1>t DEF OffsetOf, AreOffsets
  <2>2. OffsetParsed(f, whole, torn) = whole
    BY DEF OffsetParsed
  <2>3. /\ streamPoll.at = "read" /\ whole >= from /\ UNCHANGED <<minute, streamRows, offsets, token>>
        /\ streamPoll' = [streamPoll EXCEPT !.todo = @ \ {f}, !.hand = @ \cup read, !.next = after]
    BY <1>5, <2>2 DEF ReadFeed
  <2>4. OffsetsBackedBy(streamPoll.next, streamRows \cup streamPoll.hand) /\ NotBehind(streamPoll.next, offsets)
    BY <2>3 DEF StreamInv
  <2>5. /\ AreOffsets(after) /\ NotBehind(after, streamPoll.next)
        /\ OffsetsBackedBy(after, (streamRows \cup streamPoll.hand) \cup read)
    BY <2>1, <2>3, <2>4, <1>t, FeedRead
  <2> HIDE DEF after, read, from
  <2>6. /\ streamPoll'.at = "read" /\ streamPoll'.next = after /\ streamPoll'.hand = streamPoll.hand \cup read
        /\ streamPoll'.began = streamPoll.began /\ streamPoll'.todo = streamPoll.todo \ {f}
        /\ streamPoll' = [at |-> streamPoll'.at, began |-> streamPoll'.began, todo |-> streamPoll'.todo,
                          hand |-> streamPoll'.hand, next |-> streamPoll'.next]
    BY <2>3, <1>t
  <2>7. NotBehind(after, offsets)
    BY <2>4, <2>5, <1>t DEF NotBehind, AreOffsets
  <2>8. streamRows \cup (streamPoll.hand \cup read) = (streamRows \cup streamPoll.hand) \cup read
    OBVIOUS
  <2> QED
    BY <2>3, <2>5, <2>6, <2>7, <2>8, <1>t DEF StreamInv, StreamTyped
<1>6. CASE FetchDone
  BY <1>6, <1>t DEF FetchDone, StreamInv, StreamTyped
<1>7. CASE IngestStream
  <2>1. /\ streamPoll.at = "ingest" /\ streamRows' = streamRows \cup streamPoll.hand
        /\ UNCHANGED <<minute, offsets, token>>
        /\ streamPoll'.at = "advance" /\ streamPoll'.hand = {} /\ streamPoll'.next = streamPoll.next
        /\ streamPoll'.began = streamPoll.began /\ streamPoll'.todo = streamPoll.todo
        /\ streamPoll' = [at |-> streamPoll'.at, began |-> streamPoll'.began, todo |-> streamPoll'.todo,
                          hand |-> streamPoll'.hand, next |-> streamPoll'.next]
    BY <1>7, <1>t DEF IngestStream
  <2>2. OffsetsBackedBy(offsets, streamRows') /\ OffsetsBackedBy(streamPoll.next, streamRows' \cup {})
    BY <2>1 DEF StreamInv, OffsetsBackedBy
  <2> QED
    BY <2>1, <2>2, <1>t DEF StreamInv, StreamTyped
<1>8. CASE SaveOffsets
  <2>1. /\ streamPoll.at = "advance" /\ offsets' = streamPoll.next /\ streamPoll' = Waiting2
        /\ UNCHANGED <<minute, streamRows, token>>
    BY <1>8 DEF SaveOffsets, CursorFrom
  <2>2. OffsetsBackedBy(streamPoll.next, streamRows)
    BY <2>1 DEF StreamInv, OffsetsBackedBy
  <2> QED
    BY <2>1, <2>2, <1>t, <1>e, <1>w DEF StreamInv, StreamTyped
<1>9. CASE StreamFails
  <2>1. streamPoll' = Waiting2 /\ token' \in {token, NoToken2} /\ UNCHANGED <<minute, streamRows, offsets>>
    BY <1>9 DEF StreamFails
  <2>2. token'.until \in Int /\ token'.good \in Int /\ (token'.until > minute => token'.until + TokenSkew <= token'.good)
    BY <2>1, <1>t DEF NoToken2, StreamInv
  <2> QED
    BY <2>1, <2>2, <1>t, <1>e, <1>w DEF StreamInv, StreamTyped
<1>10. CASE UNCHANGED streamVars
  BY <1>10 DEF streamVars, StreamInv, StreamTyped
<1> QED
  BY <1>1, <1>2, <1>3, <1>4, <1>5, <1>6, <1>7, <1>8, <1>9, <1>10 DEF StreamNext, StreamPollStep

(* Wherever a batch is cut, an ingest fails or the process dies, a           *)
(* partition is stored up to its offset, and a request under way holds a     *)
(* token the vendor takes (collectors/crowdstrike.py, _token, max_offset,    *)
(* stream_cursor; runner.run_collector).                                     *)
THEOREM StreamPartitionsAreWhole == StreamSpec => []PartitionsAreWhole
<1>1. StreamInv => PartitionsAreWhole
  BY StreamAssumption DEF StreamInv, StreamTyped, PartitionsAreWhole, OffsetsAreBacked, TokenOutlivesFetch, OffsetsBackedBy
<1> QED
  BY <1>1, StreamInvInit, StreamInvStep, PTL DEF StreamSpec

Forward == \A f \in DOMAIN offsets : f \in DOMAIN offsets' /\ offsets'[f] >= offsets[f]

LEMMA OffsetsStep == StreamInv /\ [StreamNext]_streamVars => [Forward]_streamVars
<1> SUFFICES ASSUME StreamInv, StreamNext PROVE Forward
  OBVIOUS
<1>1. CASE SaveOffsets
  BY <1>1 DEF SaveOffsets, CursorFrom, StreamInv, NotBehind, Forward
<1>2. CASE UNCHANGED offsets
  BY <1>2 DEF StreamInv, StreamTyped, AreOffsets, Forward
<1> QED
  BY <1>1, <1>2 DEF StreamNext, StreamPollStep, Produce, Minute, GetToken, ListFeeds, ReadFeed, FetchDone,
                    IngestStream, StreamFails

(* No step of the collector, nor a failure of it, takes an offset back or    *)
(* forgets one (stream_cursor).                                              *)
THEOREM StreamOffsetsNeverMoveBack == StreamSpec => OffsetsNeverMoveBack
BY StreamInvInit, StreamInvStep, OffsetsStep, PTL DEF StreamSpec, OffsetsNeverMoveBack, Forward

-----------------------------------------------------------------------------
(***************************************************************************)
(* The Tenable export (ResumingCollectors).                                *)
(*                                                                         *)
(* The vendor's last job covers what changed from the checkpoint up to the  *)
(* time it was requested: what changes later is no longer from before it.   *)
(* A parked checkpoint is of that job, or has expired; the chunks it says   *)
(* are done are stored.                                                     *)
(***************************************************************************)
PassedAreIn(since, stock) ==
    \A f \in Findings : (changedAt[f] # -1 /\ changedAt[f] < since) => <<f, changedAt[f]>> \in stock

JobCovers(ex, since) ==
    \A f \in Findings : (changedAt[f] # -1 /\ changedAt[f] < ex.requested) =>
        changedAt[f] < since \/ <<f, changedAt[f]>> \in ex.all

ExportTyped ==
    /\ second \in Nat /\ changedAt \in [Findings -> Int] /\ \A f \in Findings : changedAt[f] <= second /\ changedAt[f] >= -1
    /\ export = [requested |-> export.requested, all |-> export.all, available |-> export.available, status |-> export.status]
    /\ export.requested \in Int /\ export.requested <= second
    /\ exportCursor = [since |-> exportCursor.since, parked |-> exportCursor.parked,
                       requested |-> exportCursor.requested, done |-> exportCursor.done]
    /\ exportCursor.since \in Int /\ exportCursor.since <= second /\ exportCursor.requested \in Int
    /\ exportPoll.at \in {"idle", "ingest", "advance"}
    /\ exportPoll = [at |-> exportPoll.at, hand |-> exportPoll.hand, next |-> exportPoll.next]

NextTyped(next) ==
    /\ next = [since |-> next.since, parked |-> next.parked, requested |-> next.requested, done |-> next.done]
    /\ next.since \in Int /\ next.since <= second /\ next.requested \in Int

NextIsTrue(next, stock) ==
    /\ NextTyped(next)
    /\ PassedAreIn(next.since, stock) /\ JobCovers(export, next.since)
    /\ next.parked => next.done \subseteq stock /\ next.requested = export.requested

ExportInv ==
    /\ ExportTyped
    /\ PassedAreIn(exportCursor.since, findingRows) /\ JobCovers(export, exportCursor.since)
    /\ exportCursor.parked =>
          exportCursor.done \subseteq findingRows /\ (exportCursor.requested = export.requested \/ Expired)
    /\ export.status = "FINISHED" => export.available = export.all
    /\ exportPoll.at # "idle" => NextIsTrue(exportPoll.next, findingRows \cup exportPoll.hand)
    /\ exportPoll.at # "ingest" => exportPoll.hand = {}

LEMMA ExportInvInit == ExportInit => ExportInv
<1> SUFFICES ASSUME ExportInit PROVE ExportInv
  OBVIOUS
<1>1. /\ second = 0 /\ changedAt = [f \in Findings |-> -1] /\ export = NoJob /\ findingRows = {}
      /\ exportCursor = Watermark(0) /\ exportPoll = BetweenPolls
  BY DEF ExportInit
<1>2. ExportTyped
  BY <1>1 DEF ExportTyped, NoJob, Watermark, BetweenPolls
<1> QED
  BY <1>1, <1>2 DEF ExportInv, NoJob, Watermark, BetweenPolls, PassedAreIn, JobCovers

(* A poll that got no further than its hand leaves what a restart finds.   *)
LEMMA ExportInvByPoll ==
  ASSUME ExportInv, UNCHANGED <<second, changedAt, export, exportCursor, findingRows>>,
         exportPoll'.at \in {"idle", "ingest", "advance"},
         exportPoll' = [at |-> exportPoll'.at, hand |-> exportPoll'.hand, next |-> exportPoll'.next],
         exportPoll'.at # "idle" => NextIsTrue(exportPoll'.next, findingRows \cup exportPoll'.hand),
         exportPoll'.at # "ingest" => exportPoll'.hand = {}
  PROVE  ExportInv'
<1>1. exportPoll'.at # "idle" => NextIsTrue(exportPoll.next, findingRows \cup exportPoll.hand)'
  BY DEF NextIsTrue, NextTyped, PassedAreIn, JobCovers
<1> QED
  BY <1>1 DEF ExportInv, ExportTyped, PassedAreIn, JobCovers, Expired

(* A job drained to its end takes the checkpoint to its request.           *)
LEMMA DrainedTakesOver ==
  ASSUME ExportInv, Parked2, NEW done, NEW stock, findingRows \in SUBSET stock, done \in SUBSET stock,
         export.status = "FINISHED", export.available \in SUBSET done
  PROVE  NextIsTrue(Watermark(AdvanceTo), stock)
<1>1. exportCursor.requested = export.requested /\ export.requested \in Int /\ export.requested <= second
  BY DEF Parked2, ExportInv, ExportTyped
<1>2. export.all \subseteq stock
  BY DEF ExportInv
<1>3. PassedAreIn(export.requested, stock)
  BY <1>2 DEF ExportInv, PassedAreIn, JobCovers
<1>4. JobCovers(export, export.requested)
  BY DEF JobCovers
<1>5. Watermark(AdvanceTo).since = export.requested /\ Watermark(AdvanceTo).parked = FALSE
      /\ Watermark(AdvanceTo).requested = -1
  BY <1>1 DEF Watermark, AdvanceTo
<1> QED
  BY <1>1, <1>3, <1>4, <1>5 DEF NextIsTrue, NextTyped, Watermark, AdvanceTo

LEMMA ExportInvStep == ExportInv /\ [ExportNext]_exportVars => ExportInv'
<1> SUFFICES ASSUME ExportInv, [ExportNext]_exportVars PROVE ExportInv'
  OBVIOUS
<1>c. ExportMaxAge \in Nat
  BY ExportAssumption
<1>t. /\ second \in Nat /\ changedAt \in [Findings -> Int] /\ export.requested \in Int /\ exportCursor.requested \in Int
      /\ export.requested <= second /\ exportCursor.since \in Int /\ exportCursor.since <= second
      /\ export = [requested |-> export.requested, all |-> export.all, available |-> export.available, status |-> export.status]
      /\ exportPoll = [at |-> exportPoll.at, hand |-> exportPoll.hand, next |-> exportPoll.next]
  BY DEF ExportInv, ExportTyped
<1>b. /\ BetweenPolls.at = "idle" /\ BetweenPolls.hand = {}
      /\ BetweenPolls = [at |-> BetweenPolls.at, hand |-> BetweenPolls.hand, next |-> BetweenPolls.next]
  BY DEF BetweenPolls
<1>1. ASSUME NEW f \in Findings, Change(f) PROVE ExportInv'
  <2>1. /\ changedAt' = [changedAt EXCEPT ![f] = second]
        /\ UNCHANGED <<second, export, findingRows, exportCursor, exportPoll>>
    BY <1>1 DEF Change
  <2>2. \A g \in Findings : changedAt'[g] = IF g = f THEN second ELSE changedAt[g]
    BY <2>1, <1>t
  <2>3. ExportTyped'
    BY <2>1, <2>2, <1>t DEF ExportInv, ExportTyped
  <2>4. ASSUME NEW since \in Int, since <= second, NEW stock, PassedAreIn(since, stock)
        PROVE  \A g \in Findings : (changedAt'[g] # -1 /\ changedAt'[g] < since) => <<g, changedAt'[g]>> \in stock
    BY <2>2, <2>4, <1>t DEF PassedAreIn
  <2>5. ASSUME NEW since, JobCovers(export, since)
        PROVE  \A g \in Findings : (changedAt'[g] # -1 /\ changedAt'[g] < export.requested) =>
                  changedAt'[g] < since \/ <<g, changedAt'[g]>> \in export.all
    BY <2>2, <2>5, <1>t DEF JobCovers
  <2>6. PassedAreIn(exportCursor.since, findingRows)' /\ JobCovers(export, exportCursor.since)'
    BY <2>1, <2>4, <2>5, <1>t DEF ExportInv, PassedAreIn, JobCovers
  <2>7. (exportPoll.at # "idle" => NextIsTrue(exportPoll.next, findingRows \cup exportPoll.hand))'
    <3> SUFFICES ASSUME exportPoll.at # "idle"
                 PROVE  NextIsTrue(exportPoll.next, findingRows \cup exportPoll.hand)'
      BY <2>1
    <3>1. NextIsTrue(exportPoll.next, findingRows \cup exportPoll.hand)
      BY DEF ExportInv
    <3>2. PassedAreIn(exportPoll.next.since, findingRows \cup exportPoll.hand)'
      BY <2>1, <2>4, <3>1 DEF NextIsTrue, NextTyped, PassedAreIn
    <3>3. JobCovers(export, exportPoll.next.since)'
      BY <2>1, <2>5, <3>1 DEF NextIsTrue, JobCovers
    <3> QED
      BY <2>1, <3>1, <3>2, <3>3 DEF NextIsTrue, NextTyped
  <2> QED
    BY <2>1, <2>3, <2>6, <2>7 DEF ExportInv, Expired
<1>2. CASE ChunkReady \/ Finish2 \/ JobDies
  <2>1. /\ UNCHANGED <<second, changedAt, findingRows, exportCursor, exportPoll>>
        /\ export.status = "PROCESSING" /\ export'.requested = export.requested /\ export'.all = export.all
        /\ export' = [requested |-> export'.requested, all |-> export'.all, available |-> export'.available, status |-> export'.status]
        /\ export'.status = "FINISHED" => export'.available = export'.all
    BY <1>2, <1>t DEF ChunkReady, Finish2, JobDies, VendorStep
  <2>2. ExportTyped'
    BY <2>1, <1>t DEF ExportInv, ExportTyped
  <2>3. PassedAreIn(exportCursor.since, findingRows)' /\ JobCovers(export, exportCursor.since)'
    BY <2>1 DEF ExportInv, PassedAreIn, JobCovers
  <2>4. (exportPoll.at # "idle" => NextIsTrue(exportPoll.next, findingRows \cup exportPoll.hand))'
    BY <2>1 DEF ExportInv, NextIsTrue, NextTyped, PassedAreIn, JobCovers
  <2> QED
    BY <2>1, <2>2, <2>3, <2>4 DEF ExportInv, Expired
<1>3. CASE Second
  <2>1. second' = second + 1 /\ UNCHANGED <<changedAt, export, findingRows, exportCursor, exportPoll>>
    BY <1>3 DEF Second
  <2>2. ExportTyped'
    BY <2>1, <1>t DEF ExportInv, ExportTyped
  <2>3. Expired => Expired'
    BY <2>1, <1>t, <1>c DEF Expired
  <2>4. (exportPoll.at # "idle" => NextIsTrue(exportPoll.next, findingRows \cup exportPoll.hand))'
    BY <2>1, <1>t DEF ExportInv, NextIsTrue, NextTyped, PassedAreIn, JobCovers
  <2> QED
    BY <2>1, <2>2, <2>3, <2>4 DEF ExportInv, PassedAreIn, JobCovers
<1>4. CASE RequestExport
  <2>1. /\ exportPoll.at = "idle" /\ ~Parked2 /\ UNCHANGED <<second, changedAt, findingRows, exportCursor>>
    BY <1>4 DEF RequestExport
  <2>2. exportCursor.parked => Expired
    BY <2>1 DEF Parked2
  <2>r. findingRows \cup {} = findingRows
    OBVIOUS
  <2>3. CASE Due
    <3> DEFINE next == [since |-> exportCursor.since, parked |-> TRUE, requested |-> second, done |-> {}]
    <3>1. export' = Requested(exportCursor.since) /\ exportPoll' = [at |-> "advance", hand |-> {}, next |-> next]
      BY <1>4, <2>3 DEF RequestExport, Fetched
    <3>2. /\ export'.requested = second /\ export'.all = Matching2(exportCursor.since) /\ export'.status = "PROCESSING"
          /\ export' = [requested |-> export'.requested, all |-> export'.all, available |-> export'.available, status |-> export'.status]
      BY <3>1 DEF Requested
    <3>3. \A f \in Findings : changedAt[f] < exportCursor.since \/ <<f, changedAt[f]>> \in export'.all
      BY <3>2, <1>t DEF Matching2
    <3>4. JobCovers(export', exportCursor.since)
      BY <3>3 DEF JobCovers
    <3>5. JobCovers(export, exportCursor.since)'
      BY <3>4, <2>1 DEF JobCovers
    <3>6. ExportTyped'
      BY <2>1, <3>1, <3>2, <1>t DEF ExportInv, ExportTyped
    <3>7. NextIsTrue(exportPoll.next, findingRows \cup exportPoll.hand)'
      <4>1. /\ exportPoll'.next = next /\ exportPoll'.hand = {} /\ next.since = exportCursor.since
            /\ next.requested = second /\ next.done = {}
            /\ next = [since |-> next.since, parked |-> next.parked, requested |-> next.requested, done |-> next.done]
        BY <3>1
      <4> HIDE DEF next
      <4>2. NextTyped(exportPoll.next)'
        BY <2>1, <4>1, <1>t DEF NextTyped
      <4>3. PassedAreIn(exportPoll.next.since, findingRows \cup exportPoll.hand)' /\ JobCovers(export, exportPoll.next.since)'
        BY <2>1, <3>5, <4>1 DEF ExportInv, PassedAreIn, JobCovers
      <4> QED
        BY <3>2, <4>1, <4>2, <4>3 DEF NextIsTrue
    <3> QED
      BY <2>1, <2>2, <3>1, <3>2, <3>5, <3>6, <3>7 DEF ExportInv, Expired, PassedAreIn
  <2>4. CASE ~Due
    <3>1. UNCHANGED export /\ exportPoll' = [at |-> "advance", hand |-> {}, next |-> Watermark(exportCursor.since)]
      BY <1>4, <2>4 DEF RequestExport, Fetched
    <3>2. NextIsTrue(Watermark(exportCursor.since), findingRows \cup {})
      BY <2>r, <1>t DEF ExportInv, NextIsTrue, NextTyped, Watermark
    <3> QED
      BY <2>1, <3>1, <3>2, ExportInvByPoll
  <2> QED
    BY <2>3, <2>4
<1>5. ASSUME NEW chunks, Drain(chunks) PROVE ExportInv'
  <2> DEFINE ready == export.available \ exportCursor.done
             done == exportCursor.done \cup chunks
  <2>1. /\ exportPoll.at = "idle" /\ Parked2 /\ chunks \subseteq ready
        /\ UNCHANGED <<second, changedAt, export, findingRows, exportCursor>>
        /\ \/ Fetched({}, Watermark(exportCursor.since))
           \/ Released(ready) /\ Fetched({}, Watermark(AdvanceTo))
           \/ Fetched({}, exportCursor)
           \/ Fetched(chunks, IF Complete(done) THEN Watermark(AdvanceTo) ELSE [exportCursor EXCEPT !.done = done])
    <3>1. CASE export.status = "ERROR"
      BY <1>5, <3>1 DEF Drain
    <3>2. CASE export.status # "ERROR" /\ Released(ready)
      BY <1>5, <3>2 DEF Drain
    <3>3. CASE export.status # "ERROR" /\ ~Released(ready) /\ ready = {}
      BY <1>5, <3>3 DEF Drain
    <3>4. CASE export.status # "ERROR" /\ ~Released(ready) /\ ready # {}
      BY <1>5, <3>4 DEF Drain
    <3> QED
      BY <3>1, <3>2, <3>3, <3>4
  <2>2. /\ exportCursor.parked /\ exportCursor.done \subseteq findingRows /\ exportCursor.requested = export.requested
        /\ exportCursor = [since |-> exportCursor.since, parked |-> exportCursor.parked,
                           requested |-> exportCursor.requested, done |-> exportCursor.done]
    BY <2>1 DEF Parked2, ExportInv, ExportTyped
  <2>3. ASSUME NEW hand, NEW next, Fetched(hand, next), NextIsTrue(next, findingRows \cup hand) PROVE ExportInv'
    <3>1. exportPoll' = [at |-> IF hand = {} THEN "advance" ELSE "ingest", hand |-> hand, next |-> next]
      BY <2>3 DEF Fetched
    <3>2. /\ exportPoll'.hand = hand /\ exportPoll'.next = next /\ exportPoll'.at \in {"ingest", "advance"}
          /\ exportPoll'.at # "ingest" => hand = {}
          /\ exportPoll' = [at |-> exportPoll'.at, hand |-> exportPoll'.hand, next |-> exportPoll'.next]
      BY <3>1
    <3>3. NextIsTrue(exportPoll'.next, findingRows \cup exportPoll'.hand)
      BY <3>2, <2>3
    <3> QED
      BY <2>1, <3>2, <3>3, ExportInvByPoll
  <2>r. findingRows \cup {} = findingRows
    OBVIOUS
  <2>4. NextIsTrue(Watermark(exportCursor.since), findingRows \cup {})
    BY <2>r, <1>t DEF ExportInv, NextIsTrue, NextTyped, Watermark
  <2>5. Released(ready) => NextIsTrue(Watermark(AdvanceTo), findingRows \cup {})
    <3> SUFFICES ASSUME Released(ready) PROVE NextIsTrue(Watermark(AdvanceTo), findingRows)
      BY <2>r
    <3>1. export.status = "FINISHED" /\ export.available \in SUBSET exportCursor.done
      BY DEF Released
    <3> QED
      BY <2>1, <2>2, <3>1, DrainedTakesOver
  <2>6. NextIsTrue(exportCursor, findingRows \cup {})
    BY <2>2, <2>r, <1>t DEF ExportInv, NextIsTrue, NextTyped
  <2>7. NextIsTrue(IF Complete(done) THEN Watermark(AdvanceTo) ELSE [exportCursor EXCEPT !.done = done], findingRows \cup chunks)
    <3>1. done \in SUBSET (findingRows \cup chunks) /\ findingRows \in SUBSET (findingRows \cup chunks)
      BY <2>2
    <3>2. CASE Complete(done)
      <4>1. export.status = "FINISHED" /\ export.available \in SUBSET done
        BY <3>2 DEF Complete
      <4>2. NextIsTrue(Watermark(AdvanceTo), findingRows \cup chunks)
        BY <2>1, <3>1, <4>1, DrainedTakesOver
      <4> QED
        BY <3>2, <4>2
    <3>3. CASE ~Complete(done)
      <4>1. PassedAreIn(exportCursor.since, findingRows \cup chunks) /\ JobCovers(export, exportCursor.since)
        BY DEF ExportInv, PassedAreIn
      <4> DEFINE next == [exportCursor EXCEPT !.done = done]
      <4>2. /\ next.since = exportCursor.since /\ next.done = done /\ next.requested = exportCursor.requested
            /\ next = [since |-> next.since, parked |-> next.parked, requested |-> next.requested, done |-> next.done]
        BY <2>2
      <4> HIDE DEF next, done
      <4>3. NextIsTrue(next, findingRows \cup chunks)
        BY <2>2, <3>1, <4>1, <4>2, <1>t DEF NextIsTrue, NextTyped
      <4> QED
        BY <3>3, <4>3 DEF next
    <3> QED
      BY <3>2, <3>3
  <2> HIDE DEF ready, done
  <2> QED
    BY <2>1, <2>3, <2>4, <2>5, <2>6, <2>7
<1>6. CASE IngestFindings
  <2>1. /\ exportPoll.at = "ingest" /\ findingRows' = findingRows \cup exportPoll.hand
        /\ exportPoll'.at = "advance" /\ exportPoll'.hand = {} /\ exportPoll'.next = exportPoll.next
        /\ exportPoll' = [at |-> exportPoll'.at, hand |-> exportPoll'.hand, next |-> exportPoll'.next]
        /\ UNCHANGED <<second, changedAt, export, exportCursor>>
    BY <1>6, <1>t DEF IngestFindings
  <2>2. NextIsTrue(exportPoll.next, findingRows \cup exportPoll.hand)'
    <3>1. NextIsTrue(exportPoll.next, findingRows \cup exportPoll.hand)
      BY <2>1 DEF ExportInv
    <3>2. findingRows' \cup exportPoll'.hand = findingRows \cup exportPoll.hand
      BY <2>1
    <3> QED
      BY <2>1, <3>1, <3>2 DEF NextIsTrue, NextTyped, PassedAreIn, JobCovers
  <2>3. ExportTyped'
    BY <2>1, <1>t DEF ExportInv, ExportTyped
  <2> QED
    BY <2>1, <2>2, <2>3 DEF ExportInv, PassedAreIn, JobCovers, Expired
<1>7. CASE SaveCursor
  <2>1. /\ exportPoll.at = "advance" /\ exportCursor' = exportPoll.next /\ exportPoll' = BetweenPolls
        /\ UNCHANGED <<second, changedAt, export, findingRows>>
    BY <1>7 DEF SaveCursor
  <2>2. NextIsTrue(exportPoll.next, findingRows)
    <3>1. findingRows \cup exportPoll.hand = findingRows /\ NextIsTrue(exportPoll.next, findingRows \cup exportPoll.hand)
      BY <2>1 DEF ExportInv
    <3> QED
      BY <3>1
  <2>3. ExportTyped'
    BY <2>1, <2>2, <1>t, <1>b DEF ExportInv, ExportTyped, NextIsTrue, NextTyped
  <2> QED
    BY <2>1, <2>2, <2>3, <1>b DEF ExportInv, NextIsTrue, PassedAreIn, JobCovers
<1>8. CASE ExportPollFails \/ ExportCrash
  <2>1. exportPoll' = BetweenPolls /\ UNCHANGED <<second, changedAt, export, exportCursor, findingRows>>
    BY <1>8 DEF ExportPollFails, ExportCrash
  <2> QED
    BY <2>1, <1>b, ExportInvByPoll
<1>9. CASE UNCHANGED exportVars
  <2>1. UNCHANGED <<second, changedAt, export, exportCursor, findingRows, exportPoll>>
    BY <1>9 DEF exportVars
  <2> QED
    BY <2>1 DEF ExportInv, ExportTyped, Expired, NextIsTrue, NextTyped, PassedAreIn, JobCovers
<1> QED
  BY <1>1, <1>2, <1>3, <1>4, <1>5, <1>6, <1>7, <1>8, <1>9 DEF ExportNext, PollStep

(* Over chunks that appear while others are drained, dead and expired jobs,  *)
(* failing ingests and restarts, whatever changed before the checkpoint is   *)
(* stored as it then was (collectors/vuln.py, fetch; runner.run_collector).  *)
THEOREM ExportPassesNothing == ExportSpec => []NoFindingIsPassed
<1>1. ExportInv => NoFindingIsPassed
  BY DEF ExportInv, PassedAreIn, NoFindingIsPassed
<1> QED
  BY <1>1, ExportInvInit, ExportInvStep, PTL DEF ExportSpec

-----------------------------------------------------------------------------
(***************************************************************************)
(* Ranks: how many of a set of ids come before one.                        *)
(***************************************************************************)
RankIn(found, a) == Cardinality({b \in found : b < a})

LEMMA LeastOf ==
  ASSUME NEW T \in SUBSET Nat, T # {}
  PROVE  \E x \in T : \A y \in T : x <= y
<1> DEFINE R == OpToRel(<, Nat)
<1>1. IsWellFoundedOn(R, Nat)
  BY NatLessThanWellFounded
<1> HIDE DEF R
<1>2. PICK x \in T : \A y \in T : ~(<<y, x>> \in R)
  BY <1>1, WFMin
<1>3. \A y \in T : <<y, x>> \in R <=> y < x
  BY DEF R, OpToRel
<1>4. \A y \in T : ~(y < x)
  BY <1>2, <1>3
<1> QED
  BY <1>4

LEMMA RankType ==
  ASSUME NEW found, IsFiniteSet(found), found \in SUBSET Nat, NEW a \in Nat
  PROVE  IsFiniteSet({b \in found : b < a}) /\ RankIn(found, a) \in Nat /\ RankIn(found, a) <= Cardinality(found)
<1>1. {b \in found : b < a} \in SUBSET found
  OBVIOUS
<1>2. IsFiniteSet({b \in found : b < a}) /\ Cardinality({b \in found : b < a}) <= Cardinality(found)
  BY <1>1, FS_Subset
<1> QED
  BY <1>2, FS_CardinalityType DEF RankIn

LEMMA RankGrows ==
  ASSUME NEW found, IsFiniteSet(found), found \in SUBSET Nat, NEW a \in found, NEW b \in Nat, a < b
  PROVE  RankIn(found, a) + 1 <= RankIn(found, b)
<1> DEFINE below == {x \in found : x < a}
<1>n. a \in Nat /\ \A x \in found : x \in Nat
  OBVIOUS
<1>1. IsFiniteSet(below) /\ a \notin below /\ Cardinality(below) \in Nat
  <2>1. IsFiniteSet({x \in found : x < a}) /\ RankIn(found, a) \in Nat
    BY <1>n, RankType
  <2> QED
    BY <2>1, <1>n DEF RankIn
<1>2. Cardinality(below \cup {a}) = Cardinality(below) + 1
  BY <1>1, FS_AddElement
<1>3. below \cup {a} \in SUBSET {x \in found : x < b}
  <2>1. \A x \in below : x \in found /\ x < b
    BY <1>n
  <2> QED
    BY <2>1
<1>4. IsFiniteSet({x \in found : x < b})
  BY RankType
<1>5. Cardinality(below \cup {a}) <= Cardinality({x \in found : x < b})
  BY <1>3, <1>4, FS_Subset
<1> QED
  BY <1>2, <1>5 DEF RankIn

LEMMA RankBelowSize ==
  ASSUME NEW found, IsFiniteSet(found), found \in SUBSET Nat, NEW a \in found
  PROVE  RankIn(found, a) < Cardinality(found)
<1>1. {x \in found : x < a} \in SUBSET found /\ {x \in found : x < a} # found
  OBVIOUS
<1>2. /\ Cardinality({x \in found : x < a}) <= Cardinality(found)
      /\ Cardinality(found) # Cardinality({x \in found : x < a})
  BY <1>1, FS_Subset
<1>3. Cardinality(found) \in Nat /\ RankIn(found, a) \in Nat
  BY RankType, FS_CardinalityType
<1> QED
  BY <1>2, <1>3 DEF RankIn

(* Ids whose ranks are in an interval are no more than it is long.         *)
LEMMA RanksFit ==
  ASSUME NEW found, IsFiniteSet(found), found \in SUBSET Nat, NEW S \in SUBSET found, NEW low \in Nat, NEW n \in Nat,
         \A a \in S : RankIn(found, a) >= low /\ RankIn(found, a) < low + n
  PROVE  IsFiniteSet(S) /\ Cardinality(S) <= n
<1> DEFINE T == low .. (low + n - 1)
           f == [a \in S |-> RankIn(found, a)]
<1>1. IsFiniteSet(S) /\ Cardinality(S) \in Nat
  BY FS_Subset, FS_CardinalityType
<1>2. IsFiniteSet(T) /\ Cardinality(T) = n
  BY FS_Interval
<1>3. f \in [S -> T]
  <2> SUFFICES ASSUME NEW a \in S PROVE RankIn(found, a) \in T
    OBVIOUS
  <2>1. a \in Nat /\ a \in found
    OBVIOUS
  <2>2. RankIn(found, a) \in Nat
    BY <2>1, RankType
  <2> QED
    BY <2>2
<1>4. SUFFICES ASSUME n < Cardinality(S) PROVE FALSE
  BY <1>1
<1>5. Cardinality(T) < Cardinality(S)
  BY <1>2, <1>4
<1> HIDE DEF T
<1> HIDE DEF f
<1>6. \E x, y \in S : x # y /\ f[x] = f[y]
  BY <1>1, <1>2, <1>3, <1>5, FS_PigeonHole
<1>7. PICK x \in S, y \in S : x # y /\ RankIn(found, x) = RankIn(found, y)
  BY <1>6 DEF f
<1>8. x \in found /\ y \in found /\ x \in Nat /\ y \in Nat /\ RankIn(found, x) \in Nat /\ RankIn(found, y) \in Nat
  BY RankType
<1>9. CASE x < y
  <2>1. RankIn(found, x) + 1 <= RankIn(found, y)
    BY <1>8, <1>9, RankGrows
  <2> QED
    BY <1>7, <1>8, <2>1
<1>10. CASE y < x
  <2>1. RankIn(found, y) + 1 <= RankIn(found, x)
    BY <1>8, <1>10, RankGrows
  <2> QED
    BY <1>7, <1>8, <2>1
<1> QED
  BY <1>7, <1>8, <1>9, <1>10

(* A page that is empty has no later one: ranks have no gaps.              *)
LEMMA RanksHaveNoGap ==
  ASSUME NEW found, IsFiniteSet(found), found \in SUBSET Nat, NEW low \in Nat, NEW n \in Nat \ {0},
         {a \in found : RankIn(found, a) >= low /\ RankIn(found, a) < low + n} = {}
  PROVE  \A a \in found : RankIn(found, a) < low
<1> DEFINE T == {a \in found : RankIn(found, a) >= low}
<1>r. \A a \in found : RankIn(found, a) \in Nat /\ a \in Nat
  BY RankType
<1>1. SUFFICES ASSUME T # {} PROVE FALSE
  BY <1>r
<1>2. T \in SUBSET Nat
  BY <1>r
<1>3. PICK x \in T : \A y \in T : x <= y
  BY <1>1, <1>2, LeastOf
<1> DEFINE S == {b \in found : b < x}
<1>4. x \in found /\ x \in Nat /\ RankIn(found, x) >= low + n
  BY <1>3, <1>r
<1>5. \A a \in S : RankIn(found, a) < low
  BY <1>3, <1>4, <1>r
<1>6. S \in SUBSET found /\ \A a \in S : RankIn(found, a) >= 0 /\ RankIn(found, a) < 0 + low
  BY <1>5, <1>r
<1> HIDE DEF S, T
<1>7. Cardinality(S) <= low
  BY <1>6, RanksFit
<1>8. RankIn(found, x) = Cardinality(S) /\ RankIn(found, x) \in Nat
  BY <1>4, <1>r DEF RankIn, S
<1> QED
  BY <1>4, <1>7, <1>8

-----------------------------------------------------------------------------
(***************************************************************************)
(* The Rapid7 walk (ResumingCollectors).                                   *)
(*                                                                         *)
(* A checkpoint has passed the assets last scanned before its `since', and, *)
(* of those the walk ends with, the ones on the pages before its own.  At   *)
(* most one of them is not stored for each asset removed: a removal moves   *)
(* one asset over the edge of the page, and a scan moves only its own.      *)
(***************************************************************************)
FoundIn(scans, since) == {a \in Assets : scans[a] # -1 /\ Day(scans[a]) >= Day(since)}
IsStored(scans, a, stock) == \E full \in BOOLEAN : <<a, scans[a], full>> \in stock

Missing(scans, c, stock) ==
    {a \in Assets :
        /\ scans[a] # -1 /\ ~IsStored(scans, a, stock)
        /\ \/ scans[a] < c.since
           \/ /\ scans[a] < c.until /\ a \in FoundIn(scans, c.since)
              /\ RankIn(FoundIn(scans, c.since), a) < c.page * AssetPage}

ScansTyped(scans, clk) ==
    clk \in Nat /\ scans \in [Assets -> Int] /\ \A a \in Assets : scans[a] <= clk /\ scans[a] >= -1
PlaceTyped(c, clk) ==
    /\ c.since \in Nat /\ c.since <= clk /\ c.until \in Int /\ c.until <= clk /\ c.page \in Nat
    /\ (c.page > 0 => c.until \in Nat)

RowsComplete(stock) ==
    \A row \in stock : row[3] \/ Check[row[1]] \in GoneChecks \/ AssetPage > MaxVulnLookups

CatalogTrue(entries) == \A c \in DOMAIN entries : entries[c] = (c \notin GoneChecks)

WalkTyped ==
    /\ ScansTyped(scannedAt, hour) /\ removed \in Nat /\ PlaceTyped(walkCursor, hour)
    /\ walkPoll.at \in {"idle", "ingest", "advance"}
    /\ walkPoll = [at |-> walkPoll.at, hand |-> walkPoll.hand, next |-> walkPoll.next]

WalkInv ==
    /\ WalkTyped
    /\ Cardinality(Missing(scannedAt, walkCursor, assetRows)) <= removed
    /\ walkPoll.at # "idle" =>
          /\ PlaceTyped(walkPoll.next, hour)
          /\ Cardinality(Missing(scannedAt, walkPoll.next, assetRows \cup walkPoll.hand)) <= removed
    /\ walkPoll.at # "ingest" => walkPoll.hand = {}
    /\ RowsComplete(assetRows) /\ RowsComplete(walkPoll.hand)
    /\ CatalogTrue(catalog)

LEMMA DayGrows ==
  ASSUME NEW x \in Nat, NEW y \in Nat, x <= y
  PROVE  Day(x) <= Day(y)
<1>1. DayLength \in Nat \ {0}
  BY WalkAssumption
<1> QED
  BY <1>1 DEF Day

LEMMA FoundAreFinite ==
  ASSUME NEW scans, NEW since, NEW c, NEW stock
  PROVE  /\ FoundIn(scans, since) \in SUBSET Assets /\ FoundIn(scans, since) \in SUBSET Nat
         /\ IsFiniteSet(FoundIn(scans, since))
         /\ IsFiniteSet(Missing(scans, c, stock)) /\ Cardinality(Missing(scans, c, stock)) \in Nat
<1>1. FoundIn(scans, since) \in SUBSET Assets /\ Missing(scans, c, stock) \in SUBSET Assets
  BY DEF FoundIn, Missing
<1>2. IsFiniteSet(FoundIn(scans, since)) /\ IsFiniteSet(Missing(scans, c, stock))
  BY <1>1, WalkAssumption, FS_Subset
<1>3. Cardinality(Missing(scans, c, stock)) \in Nat
  BY <1>2, FS_CardinalityType
<1> QED
  BY <1>1, <1>2, <1>3, WalkAssumption

LEMMA FewerMissing ==
  ASSUME NEW S, NEW T, S \in SUBSET T, IsFiniteSet(T), NEW n \in Nat, Cardinality(T) <= n
  PROVE  Cardinality(S) <= n
<1>1. IsFiniteSet(S) /\ Cardinality(S) <= Cardinality(T)
  BY FS_Subset
<1>2. Cardinality(S) \in Nat /\ Cardinality(T) \in Nat
  BY <1>1, FS_CardinalityType
<1> QED
  BY <1>1, <1>2

LEMMA OneMore ==
  ASSUME NEW S, IsFiniteSet(S), NEW e, NEW n \in Int, Cardinality(S) <= n
  PROVE  IsFiniteSet(S \cup {e}) /\ Cardinality(S \cup {e}) \in Nat /\ Cardinality(S \cup {e}) <= n + 1
<1>1. Cardinality(S) \in Nat
  BY FS_CardinalityType
<1>2. IsFiniteSet(S \cup {e}) /\ Cardinality(S \cup {e}) = IF e \in S THEN Cardinality(S) ELSE Cardinality(S) + 1
  BY FS_AddElement
<1> QED
  BY <1>1, <1>2

(* A scan moves the others to later pages only.                            *)
LEMMA ScanMissesNothing ==
  ASSUME NEW scans, NEW clk, ScansTyped(scans, clk), NEW c, PlaceTyped(c, clk), NEW stock, NEW a \in Assets
  PROVE  Missing([scans EXCEPT ![a] = clk], c, stock) \in SUBSET Missing(scans, c, stock)
<1> DEFINE moved == [scans EXCEPT ![a] = clk]
           F == FoundIn(scans, c.since)
           G == FoundIn(moved, c.since)
<1>1. moved[a] = clk /\ clk \in Nat /\ \A x \in Assets : x # a => moved[x] = scans[x]
  BY DEF ScansTyped
<1>2. Day(c.since) <= Day(clk)
  BY DayGrows DEF PlaceTyped, ScansTyped
<1>d. Day(c.since) \in Int /\ Day(clk) \in Int
  BY WalkAssumption DEF PlaceTyped, ScansTyped, Day
<1>3. F \in SUBSET G /\ \A x \in G : x = a \/ x \in F
  BY <1>1, <1>2, <1>d DEF FoundIn
<1>4. F \in SUBSET Nat /\ G \in SUBSET Nat /\ IsFiniteSet(F) /\ IsFiniteSet(G)
  BY FoundAreFinite
<1> SUFFICES ASSUME NEW x \in Missing(moved, c, stock) PROVE x \in Missing(scans, c, stock)
  OBVIOUS
<1>5. x # a
  BY <1>1 DEF Missing, PlaceTyped
<1>6. x \in Assets /\ moved[x] = scans[x] /\ ~IsStored(scans, x, stock)
  BY <1>1, <1>5 DEF Missing, IsStored
<1>7. ASSUME x \in G, RankIn(G, x) < c.page * AssetPage PROVE x \in F /\ RankIn(F, x) < c.page * AssetPage
  <2>1. x \in F /\ x \in Nat
    BY <1>3, <1>4, <1>5, <1>7
  <2>2. {b \in F : b < x} \in SUBSET {b \in G : b < x}
    BY <1>3
  <2>3. IsFiniteSet({b \in G : b < x}) /\ RankIn(F, x) \in Nat /\ RankIn(G, x) \in Nat
    BY <1>4, <2>1, RankType
  <2>4. RankIn(F, x) <= RankIn(G, x)
    BY <2>2, <2>3, FS_Subset DEF RankIn
  <2>5. c.page * AssetPage \in Int
    BY WalkAssumption DEF PlaceTyped
  <2> QED
    BY <1>7, <2>1, <2>3, <2>4, <2>5
<1> HIDE DEF moved, F, G
<1> QED
  BY <1>6, <1>7 DEF Missing, F, G

(* A removal moves one asset over the edge of the page.                    *)
LEMMA RemovalMissesOne ==
  ASSUME NEW scans, NEW clk, ScansTyped(scans, clk), NEW c, PlaceTyped(c, clk), NEW stock, NEW a \in Assets,
         NEW n \in Nat, Cardinality(Missing(scans, c, stock)) <= n
  PROVE  Cardinality(Missing([scans EXCEPT ![a] = -1], c, stock)) <= n + 1
<1> DEFINE moved == [scans EXCEPT ![a] = -1]
           F == FoundIn(scans, c.since)
           G == FoundIn(moved, c.since)
           edge == c.page * AssetPage
           E == {x \in F : RankIn(F, x) = edge}
           M == Missing(scans, c, stock)
<1>1. moved[a] = -1 /\ \A x \in Assets : x # a => moved[x] = scans[x]
  BY DEF ScansTyped
<1>2. G \in SUBSET F /\ \A x \in F : x = a \/ x \in G
  BY <1>1 DEF FoundIn
<1>3. F \in SUBSET Nat /\ G \in SUBSET Nat /\ IsFiniteSet(F) /\ IsFiniteSet(G) /\ IsFiniteSet(M) /\ Cardinality(M) \in Nat
  BY FoundAreFinite
<1>4. edge \in Nat
  BY WalkAssumption DEF PlaceTyped
<1>5. \A x \in Missing(moved, c, stock) : x \in M \/ x \in E
  <2> SUFFICES ASSUME NEW x \in Missing(moved, c, stock) PROVE x \in M \/ x \in E
    OBVIOUS
  <2>1. x # a /\ x \in Assets /\ moved[x] = scans[x] /\ ~IsStored(scans, x, stock)
    BY <1>1 DEF Missing, IsStored
  <2>2. ASSUME x \in G, RankIn(G, x) < edge PROVE x \in F /\ (RankIn(F, x) < edge \/ RankIn(F, x) = edge)
    <3> DEFINE below == {b \in G : b < x}
    <3>1. x \in F /\ x \in Nat
      BY <1>2, <1>3, <2>2
    <3>2. {b \in F : b < x} \in SUBSET (below \cup {a})
      BY <1>2
    <3>3. IsFiniteSet(below) /\ RankIn(F, x) \in Nat /\ RankIn(G, x) \in Nat /\ Cardinality(below) = RankIn(G, x)
      BY <1>3, <3>1, RankType DEF RankIn
    <3> HIDE DEF below
    <3>4. IsFiniteSet(below \cup {a}) /\ Cardinality(below \cup {a}) <= RankIn(G, x) + 1
      <4>1. RankIn(G, x) \in Int /\ Cardinality(below) <= RankIn(G, x)
        BY <3>3
      <4> QED
        BY <3>3, <4>1, OneMore
    <3>5. Cardinality({b \in F : b < x}) <= Cardinality(below \cup {a})
      BY <3>2, <3>4, FS_Subset
    <3>6. Cardinality(below \cup {a}) \in Nat
      BY <3>4, FS_CardinalityType
    <3>7. RankIn(F, x) = Cardinality({b \in F : b < x})
      BY DEF RankIn
    <3> HIDE DEF edge
    <3> QED
      BY <1>4, <2>2, <3>1, <3>3, <3>4, <3>5, <3>6, <3>7
  <2> HIDE DEF moved, F, G
  <2> QED
    BY <2>1, <2>2 DEF Missing, F, G
<1>6. IsFiniteSet(E) /\ Cardinality(E) <= 1
  <2>1. E \in SUBSET F /\ \A x \in E : RankIn(F, x) >= edge /\ RankIn(F, x) < edge + 1
    BY <1>4
  <2> HIDE DEF E, edge, F
  <2> QED
    BY <1>3, <1>4, <2>1, RanksFit
<1> HIDE DEF moved, E, M, F, G, edge
<1>7. CASE E = {}
  <2>1. Missing(moved, c, stock) \in SUBSET M
    BY <1>5, <1>7
  <2>2. Cardinality(Missing(moved, c, stock)) <= n
    <3>1. Cardinality(M) <= n
      BY DEF M
    <3> QED
      BY <1>3, <2>1, <3>1, FewerMissing
  <2>3. Cardinality(Missing(moved, c, stock)) \in Nat
    BY FoundAreFinite
  <2> QED
    BY <2>2, <2>3 DEF moved
<1>8. CASE E # {}
  <2>1. Cardinality(E) \in Nat /\ Cardinality(E) # 0
    BY <1>6, <1>8, FS_CardinalityType, FS_EmptySet
  <2>2. Cardinality(E) = 1
    BY <1>6, <2>1
  <2>3. PICK e : E = {e}
    BY <1>6, <2>2, FS_Singleton
  <2>4. IsFiniteSet(M \cup {e}) /\ Cardinality(M \cup {e}) <= n + 1
    <3>1. Cardinality(M) <= n /\ n \in Int
      BY DEF M
    <3> QED
      BY <1>3, <3>1, OneMore
  <2>5. Missing(moved, c, stock) \in SUBSET (M \cup {e})
    BY <1>5, <2>3
  <2>6. n + 1 \in Nat
    OBVIOUS
  <2>7. Cardinality(Missing(moved, c, stock)) <= n + 1
    BY <2>4, <2>5, <2>6, FewerMissing
  <2> QED
    BY <2>7 DEF moved
<1> QED
  BY <1>7, <1>8

(* A page that is stored leaves nothing to miss before the next place.     *)
NextPlace(scans, c, clk) ==
    LET found == FoundIn(scans, c.since)
        until == IF c.page > 0 THEN c.until ELSE clk
    IN  IF PageOf(found, c.page) # {} /\ (c.page + 1) * AssetPage < Cardinality(found)
        THEN [since |-> c.since, until |-> until, page |-> c.page + 1] ELSE StartOfWalk(until)

LEMMA PageRead ==
  ASSUME NEW scans, NEW clk, ScansTyped(scans, clk), NEW c, PlaceTyped(c, clk), NEW stock, NEW hand,
         \A a \in PageOf(FoundIn(scans, c.since), c.page) : IsStored(scans, a, hand)
  PROVE  /\ PlaceTyped(NextPlace(scans, c, clk), clk)
         /\ Missing(scans, NextPlace(scans, c, clk), stock \cup hand) \in SUBSET Missing(scans, c, stock)
<1> DEFINE F == FoundIn(scans, c.since)
           P == PageOf(F, c.page)
           until == IF c.page > 0 THEN c.until ELSE clk
           edge == c.page * AssetPage
           next == NextPlace(scans, c, clk)
<1>1. AssetPage \in Nat \ {0} /\ edge \in Nat /\ (c.page + 1) * AssetPage = edge + AssetPage
  BY WalkAssumption DEF PlaceTyped
<1>2. F \in SUBSET Nat /\ IsFiniteSet(F) /\ Cardinality(F) \in Nat
  BY FoundAreFinite, FS_CardinalityType
<1>3. P = {a \in F : RankIn(F, a) >= edge /\ RankIn(F, a) < edge + AssetPage}
  BY <1>1 DEF PageOf, RankIn
<1>4. \A x \in F : RankIn(F, x) \in Nat /\ RankIn(F, x) < Cardinality(F)
  <2> SUFFICES ASSUME NEW x \in F PROVE RankIn(F, x) \in Nat /\ RankIn(F, x) < Cardinality(F)
    OBVIOUS
  <2>1. x \in Nat
    BY <1>2
  <2> QED
    BY <1>2, <2>1, RankType, RankBelowSize
<1>5. until \in Nat /\ until <= clk /\ clk \in Nat /\ c.since \in Nat /\ c.page \in Nat
  BY DEF PlaceTyped, ScansTyped
<1>6. /\ P # {} /\ edge + AssetPage < Cardinality(F) => next = [since |-> c.since, until |-> until, page |-> c.page + 1]
      /\ ~(P # {} /\ edge + AssetPage < Cardinality(F)) => next = [since |-> until, until |-> -1, page |-> 0]
  BY <1>1 DEF NextPlace, StartOfWalk
<1>7. PlaceTyped(next, clk)
  <2> HIDE DEF next, until, P, F, edge
  <2> QED
    BY <1>5, <1>6 DEF PlaceTyped
<1>8. ASSUME NEW x \in Missing(scans, next, stock \cup hand) PROVE x \in Missing(scans, c, stock)
  <2>1. /\ x \in Assets /\ scans[x] # -1 /\ ~IsStored(scans, x, stock) /\ ~IsStored(scans, x, hand)
        /\ \/ scans[x] < next.since
           \/ scans[x] < next.until /\ x \in FoundIn(scans, next.since)
                /\ RankIn(FoundIn(scans, next.since), x) < next.page * AssetPage
    BY <1>8 DEF Missing, IsStored
  <2>2. x \notin P
    BY <2>1
  <2>3. scans[x] \in Nat
    BY <2>1 DEF ScansTyped
  <2>4. SUFFICES ASSUME ~(scans[x] < c.since) PROVE scans[x] < c.until /\ x \in F /\ RankIn(F, x) < edge
    BY <2>1 DEF Missing
  <2>5. x \in F
    <3>1. Day(c.since) <= Day(scans[x])
      BY <2>3, <2>4, <1>5, DayGrows
    <3>2. Day(c.since) \in Int /\ Day(scans[x]) \in Int
      BY <2>3, <1>5, WalkAssumption DEF Day
    <3> QED
      BY <2>1, <3>1, <3>2 DEF FoundIn
  <2>6. RankIn(F, x) \in Nat /\ RankIn(F, x) < Cardinality(F)
    BY <1>4, <2>5
  <2>7. scans[x] < until /\ RankIn(F, x) < edge
    <3>1. CASE P # {} /\ edge + AssetPage < Cardinality(F)
      <4>1. next.since = c.since /\ next.until = until /\ next.page * AssetPage = edge + AssetPage
        BY <1>1, <1>6, <3>1
      <4>2. scans[x] < until /\ RankIn(F, x) < edge + AssetPage
        BY <2>1, <2>4, <4>1
      <4> HIDE DEF next, until, P, F, edge
      <4> QED
        BY <1>1, <1>3, <2>2, <2>5, <2>6, <4>2
    <3>2. CASE P = {}
      <4>1. next.since = until /\ next.until = -1
        BY <1>6, <3>2
      <4>2. scans[x] < until
        BY <2>1, <2>3, <4>1
      <4>3. {a \in F : RankIn(F, a) >= edge /\ RankIn(F, a) < edge + AssetPage} = {}
        BY <1>3, <3>2
      <4> HIDE DEF next, until, P, F, edge
      <4> QED
        BY <1>1, <1>2, <2>5, <4>2, <4>3, RanksHaveNoGap
    <3>3. CASE P # {} /\ ~(edge + AssetPage < Cardinality(F))
      <4>1. next.since = until /\ next.until = -1
        BY <1>6, <3>3
      <4>2. scans[x] < until
        BY <2>1, <2>3, <4>1
      <4> HIDE DEF next, until, P, F, edge
      <4> QED
        BY <1>1, <1>2, <1>3, <2>2, <2>5, <2>6, <3>3, <4>2
    <3> HIDE DEF next, until, P, F, edge
    <3> QED
      BY <3>1, <3>2, <3>3
  <2>8. c.page > 0
    <3>1. c.page = 0 => edge = 0
      BY <1>1
    <3> HIDE DEF next, until, P, F, edge
    <3> QED
      BY <1>5, <2>6, <2>7, <3>1
  <2> QED
    BY <2>5, <2>7, <2>8
<1> QED
  BY <1>7, <1>8

LEMMA LookedUpAll ==
  ASSUME NEW page, IsFiniteSet(page), NEW D, NEW looked, looked \in SUBSET ({Check[a] : a \in page} \ D),
         NEW n \in Nat, Cardinality(page) <= n,
         n <= Cardinality(looked) \/ Cardinality(looked) = Cardinality({Check[a] : a \in page} \ D)
  PROVE  looked = {Check[a] : a \in page} \ D
<1> DEFINE C == {Check[a] : a \in page}
           U == C \ D
           f == [a \in page |-> Check[a]]
<1>1. f \in Surjection(page, C)
  BY DEF Surjection
<1>2. IsFiniteSet(C) /\ Cardinality(C) <= Cardinality(page)
  <2> HIDE DEF f, C
  <2> QED
    BY <1>1, FS_Surjection
<1>3. IsFiniteSet(U) /\ Cardinality(U) <= Cardinality(C)
  <2>1. U \in SUBSET C
    OBVIOUS
  <2> HIDE DEF U, C
  <2> QED
    BY <1>2, <2>1, FS_Subset
<1>4. IsFiniteSet(looked) /\ Cardinality(looked) <= Cardinality(U) /\ (Cardinality(looked) = Cardinality(U) => looked = U)
  <2>1. looked \in SUBSET U
    OBVIOUS
  <2> HIDE DEF U, C
  <2> QED
    BY <1>3, <2>1, FS_Subset
<1>5. Cardinality(looked) \in Nat /\ Cardinality(U) \in Nat /\ Cardinality(C) \in Nat /\ Cardinality(page) \in Nat
  <2> HIDE DEF U, C
  <2> QED
    BY <1>2, <1>3, <1>4, FS_CardinalityType
<1>6. n <= Cardinality(looked) \/ Cardinality(looked) = Cardinality(U)
  OBVIOUS
<1> HIDE DEF U, C
<1>7. Cardinality(looked) = Cardinality(U)
  BY <1>2, <1>3, <1>4, <1>5, <1>6
<1> QED
  BY <1>4, <1>7 DEF U, C

LEMMA CatalogStaysTrue ==
  ASSUME NEW entries, CatalogTrue(entries), NEW looked
  PROVE  CatalogTrue(With(entries, looked, GoneChecks)) /\ CatalogTrue(CacheOf(entries, looked))
<1>1. CatalogTrue(With(entries, looked, GoneChecks))
  BY Zenon DEF CatalogTrue, With
<1> QED
  BY <1>1 DEF CacheOf

LEMMA PageFits ==
  ASSUME NEW scans, NEW c, c.page \in Nat
  PROVE  /\ PageOf(FoundIn(scans, c.since), c.page) \in SUBSET Assets
         /\ IsFiniteSet(PageOf(FoundIn(scans, c.since), c.page))
         /\ Cardinality(PageOf(FoundIn(scans, c.since), c.page)) <= AssetPage
<1> DEFINE F == FoundIn(scans, c.since)
           edge == c.page * AssetPage
<1>1. AssetPage \in Nat /\ edge \in Nat /\ (c.page + 1) * AssetPage = edge + AssetPage
  BY WalkAssumption
<1>2. F \in SUBSET Assets /\ F \in SUBSET Nat /\ IsFiniteSet(F)
  BY FoundAreFinite
<1>3. PageOf(F, c.page) = {a \in F : RankIn(F, a) >= edge /\ RankIn(F, a) < edge + AssetPage}
  BY <1>1 DEF PageOf, RankIn
<1> HIDE DEF F, edge
<1>4. IsFiniteSet(PageOf(F, c.page)) /\ Cardinality(PageOf(F, c.page)) <= AssetPage
  <2>1. PageOf(F, c.page) \in SUBSET F /\ \A a \in PageOf(F, c.page) : RankIn(F, a) >= edge /\ RankIn(F, a) < edge + AssetPage
    BY <1>3
  <2> QED
    BY <1>1, <1>2, <2>1, RanksFit
<1> QED
  BY <1>2, <1>3, <1>4 DEF F

LEMMA WalkInvInit == WalkInit => WalkInv
<1> SUFFICES ASSUME WalkInit PROVE WalkInv
  OBVIOUS
<1>1. /\ hour = 0 /\ scannedAt = [a \in Assets |-> -1] /\ assetRows = {} /\ catalog = <<>> /\ removed = 0
      /\ walkCursor = [since |-> 0, until |-> -1, page |-> 0]
      /\ walkPoll = [at |-> "idle", hand |-> {}, next |-> [since |-> 0, until |-> -1, page |-> 0]]
  BY DEF WalkInit, StartOfWalk, NotPolling
<1>2. WalkTyped
  BY <1>1 DEF WalkTyped, ScansTyped, PlaceTyped
<1>3. Missing(scannedAt, walkCursor, assetRows) = {}
  BY <1>1 DEF Missing
<1>4. Cardinality(Missing(scannedAt, walkCursor, assetRows)) <= removed
  <2>1. removed = 0
    BY <1>1
  <2> QED
    BY <1>3, <2>1, FS_EmptySet
<1>5. CatalogTrue(catalog)
  BY <1>1 DEF CatalogTrue
<1> QED
  BY <1>1, <1>2, <1>4, <1>5 DEF WalkInv, RowsComplete

LEMMA FetchPageStep ==
  ASSUME WalkInv, NEW looked, NEW failing, FetchPage(looked, failing)
  PROVE  WalkInv'
<1> DEFINE F == FoundIn(scannedAt, walkCursor.since)
           page == PageOf(F, walkCursor.page)
           entry == With(catalog, looked, GoneChecks)
           hand == {<<a, scannedAt[a], Check[a] \in DOMAIN entry /\ entry[Check[a]]>> : a \in page}
           next == NextPlace(scannedAt, walkCursor, hour)
<1>1. /\ ScansTyped(scannedAt, hour) /\ PlaceTyped(walkCursor, hour) /\ walkPoll.at = "idle" /\ removed \in Nat
      /\ CatalogTrue(catalog) /\ RowsComplete(assetRows)
      /\ Cardinality(Missing(scannedAt, walkCursor, assetRows)) <= removed
  BY DEF WalkInv, WalkTyped, FetchPage
<1>2. F = Searched(walkCursor.since)
  BY DEF FoundIn, Searched
<1>3. failing = {}
  BY Zenon DEF FetchPage, LookupSurvives
<1>4. /\ looked \in SUBSET ({Check[a] : a \in page} \ DOMAIN catalog)
      /\ Cardinality(looked) = IF Cardinality({Check[a] : a \in page} \ DOMAIN catalog) < MaxVulnLookups
                               THEN Cardinality({Check[a] : a \in page} \ DOMAIN catalog) ELSE MaxVulnLookups
  BY <1>2 DEF FetchPage, Unseen
<1>5. walkPoll' = [at |-> IF hand = {} THEN "advance" ELSE "ingest", hand |-> hand, next |-> next]
  BY <1>2, <1>3 DEF FetchPage, NextPlace, Until
<1>6. catalog' = CacheOf(catalog, looked)
  BY <1>3 DEF FetchPage
<1>7. UNCHANGED <<hour, scannedAt, assetRows, walkCursor, removed>>
  BY DEF FetchPage
<1>8. CatalogTrue(entry) /\ CatalogTrue(catalog')
  BY <1>1, <1>6, CatalogStaysTrue
<1>9. page \in SUBSET Assets /\ IsFiniteSet(page) /\ Cardinality(page) <= AssetPage
  <2>1. walkCursor.page \in Nat
    BY <1>1 DEF PlaceTyped
  <2> QED
    BY <2>1, PageFits
<1>10. \A a \in page : IsStored(scannedAt, a, hand)
  BY DEF IsStored
<1>11. RowsComplete(hand)
  <2>1. SUFFICES ASSUME ~(AssetPage > MaxVulnLookups) PROVE RowsComplete(hand)
    BY DEF RowsComplete
  <2>2. AssetPage \in Nat /\ MaxVulnLookups \in Nat /\ AssetPage <= MaxVulnLookups
    BY <2>1, WalkAssumption
  <2>3. looked = {Check[a] : a \in page} \ DOMAIN catalog
    <3> HIDE DEF page
    <3>1. \/ AssetPage <= Cardinality(looked)
          \/ Cardinality(looked) = Cardinality({Check[a] : a \in page} \ DOMAIN catalog)
      BY <1>4, <2>2
    <3> QED
      BY <1>4, <1>9, <2>2, <3>1, LookedUpAll
  <2>4. DOMAIN entry = DOMAIN catalog \cup looked
    BY DEF With
  <2>5. SUFFICES ASSUME NEW a \in page, Check[a] \notin GoneChecks
                 PROVE  Check[a] \in DOMAIN entry /\ entry[Check[a]]
    <3> SUFFICES ASSUME NEW row \in hand, Check[row[1]] \notin GoneChecks PROVE row[3]
      BY DEF RowsComplete
    <3>1. PICK b \in page : row = <<b, scannedAt[b], Check[b] \in DOMAIN entry /\ entry[Check[b]]>>
      OBVIOUS
    <3> HIDE DEF page, entry, hand
    <3>2. row[1] = b
      BY <3>1
    <3>3. Check[b] \in DOMAIN entry /\ entry[Check[b]]
      BY <2>5, <3>2
    <3>4. (Check[b] \in DOMAIN entry /\ entry[Check[b]]) = TRUE
      BY <3>3, Zenon
    <3>5. row = <<b, scannedAt[b], TRUE>>
      BY <3>1, <3>4, Zenon
    <3> QED
      BY <3>5
  <2>6. Check[a] \in DOMAIN entry
    BY <2>3, <2>4
  <2> HIDE DEF page, entry
  <2>7. entry[Check[a]] = (Check[a] \notin GoneChecks)
    BY <1>8, <2>6, Zenon DEF CatalogTrue
  <2> QED
    BY <2>5, <2>6, <2>7, Zenon
<1> HIDE DEF hand
<1>12. PlaceTyped(next, hour) /\ Missing(scannedAt, next, assetRows \cup hand) \in SUBSET Missing(scannedAt, walkCursor, assetRows)
  BY <1>1, <1>10, PageRead
<1> HIDE DEF next, page, F, entry
<1>13. Cardinality(Missing(scannedAt, next, assetRows \cup hand)) <= removed
  BY <1>1, <1>12, FoundAreFinite, FewerMissing
<1>14. walkPoll'.next = next /\ walkPoll'.hand = hand /\ walkPoll'.at \in {"advance", "ingest"}
       /\ (walkPoll'.at # "ingest" => walkPoll'.hand = {})
       /\ walkPoll' = [at |-> walkPoll'.at, hand |-> walkPoll'.hand, next |-> walkPoll'.next]
  BY <1>5
<1>15. WalkTyped'
  BY <1>1, <1>7, <1>14 DEF WalkTyped
<1>16. Cardinality(Missing(scannedAt', walkPoll'.next, assetRows' \cup walkPoll'.hand)) <= removed'
  BY <1>7, <1>13, <1>14
<1>17. /\ Cardinality(Missing(scannedAt', walkCursor', assetRows')) <= removed' /\ PlaceTyped(walkPoll'.next, hour')
       /\ RowsComplete(assetRows') /\ RowsComplete(walkPoll'.hand) /\ CatalogTrue(catalog')
  BY <1>1, <1>7, <1>8, <1>11, <1>12, <1>14
<1> QED
  BY <1>14, <1>15, <1>16, <1>17 DEF WalkInv

LEMMA VendorSteps ==
  ASSUME WalkInv, NEW a \in Assets
  PROVE  (Scan(a) \/ RemoveAsset(a)) => WalkInv'
<1>t. /\ ScansTyped(scannedAt, hour) /\ removed \in Nat /\ PlaceTyped(walkCursor, hour)
      /\ Cardinality(Missing(scannedAt, walkCursor, assetRows)) <= removed
      /\ walkPoll.at # "idle" =>
            /\ PlaceTyped(walkPoll.next, hour)
            /\ Cardinality(Missing(scannedAt, walkPoll.next, assetRows \cup walkPoll.hand)) <= removed
  BY DEF WalkInv, WalkTyped
<1>1. ASSUME Scan(a) PROVE WalkInv'
  <2>1. /\ scannedAt' = [scannedAt EXCEPT ![a] = hour]
        /\ UNCHANGED <<hour, assetRows, walkCursor, catalog, walkPoll, removed>>
    BY <1>1 DEF Scan
  <2>2. ScansTyped(scannedAt', hour)
    BY <1>t, <2>1 DEF ScansTyped
  <2>3. Cardinality(Missing(scannedAt', walkCursor, assetRows)) <= removed
    <3>1. Missing(scannedAt', walkCursor, assetRows) \in SUBSET Missing(scannedAt, walkCursor, assetRows)
      BY <1>t, <2>1, ScanMissesNothing
    <3> QED
      BY <1>t, <3>1, FoundAreFinite, FewerMissing
  <2>4. walkPoll.at # "idle" => Cardinality(Missing(scannedAt', walkPoll.next, assetRows \cup walkPoll.hand)) <= removed
    <3> SUFFICES ASSUME walkPoll.at # "idle"
                 PROVE  Cardinality(Missing(scannedAt', walkPoll.next, assetRows \cup walkPoll.hand)) <= removed
      OBVIOUS
    <3>1. Missing(scannedAt', walkPoll.next, assetRows \cup walkPoll.hand)
            \in SUBSET Missing(scannedAt, walkPoll.next, assetRows \cup walkPoll.hand)
      BY <1>t, <2>1, ScanMissesNothing
    <3> QED
      BY <1>t, <3>1, FoundAreFinite, FewerMissing
  <2> QED
    BY <2>1, <2>2, <2>3, <2>4 DEF WalkInv, WalkTyped
<1>2. ASSUME RemoveAsset(a) PROVE WalkInv'
  <2>1. /\ scannedAt' = [scannedAt EXCEPT ![a] = -1] /\ removed' = removed + 1
        /\ UNCHANGED <<hour, assetRows, walkCursor, catalog, walkPoll>>
    BY <1>2 DEF RemoveAsset
  <2>2. ScansTyped(scannedAt', hour)
    BY <1>t, <2>1 DEF ScansTyped
  <2>3. Cardinality(Missing(scannedAt', walkCursor, assetRows)) <= removed'
    BY <1>t, <2>1, RemovalMissesOne
  <2>4. walkPoll.at # "idle" => Cardinality(Missing(scannedAt', walkPoll.next, assetRows \cup walkPoll.hand)) <= removed'
    BY <1>t, <2>1, RemovalMissesOne
  <2>5. removed' \in Nat
    BY <1>t, <2>1
  <2> QED
    BY <2>1, <2>2, <2>3, <2>4, <2>5 DEF WalkInv, WalkTyped
<1> QED
  BY <1>1, <1>2

LEMMA WalkInvStep == WalkInv /\ [WalkNext]_walkVars => WalkInv'
<1> SUFFICES ASSUME WalkInv, [WalkNext]_walkVars PROVE WalkInv'
  OBVIOUS
<1>b. NotPolling.at = "idle" /\ NotPolling.hand = {} /\ NotPolling = [at |-> NotPolling.at, hand |-> NotPolling.hand, next |-> NotPolling.next]
  BY DEF NotPolling
<1>1. CASE \E a \in Assets : Scan(a) \/ RemoveAsset(a)
  BY <1>1, VendorSteps
<1>2. CASE Hour
  <2>1. hour' = hour + 1 /\ UNCHANGED <<scannedAt, assetRows, walkCursor, catalog, walkPoll, removed>>
    BY <1>2 DEF Hour
  <2>2. ScansTyped(scannedAt, hour') /\ PlaceTyped(walkCursor, hour')
    BY <2>1 DEF WalkInv, WalkTyped, ScansTyped, PlaceTyped
  <2>3. walkPoll.at # "idle" => PlaceTyped(walkPoll.next, hour')
    BY <2>1 DEF WalkInv, WalkTyped, ScansTyped, PlaceTyped
  <2> QED
    BY <2>1, <2>2, <2>3 DEF WalkInv, WalkTyped
<1>3. CASE \E looked \in SUBSET {Check[a] : a \in Assets} : \E failing \in SUBSET looked : FetchPage(looked, failing)
  BY <1>3, FetchPageStep
<1>4. CASE IngestPage
  <2>1. /\ walkPoll.at = "ingest" /\ assetRows' = assetRows \cup walkPoll.hand
        /\ walkPoll'.at = "advance" /\ walkPoll'.hand = {} /\ walkPoll'.next = walkPoll.next
        /\ walkPoll' = [at |-> walkPoll'.at, hand |-> walkPoll'.hand, next |-> walkPoll'.next]
        /\ UNCHANGED <<hour, scannedAt, walkCursor, catalog, removed>>
    BY <1>4 DEF IngestPage, WalkInv, WalkTyped
  <2>2. assetRows' \cup walkPoll'.hand = assetRows \cup walkPoll.hand
    BY <2>1
  <2>3. Missing(scannedAt, walkCursor, assetRows') \in SUBSET Missing(scannedAt, walkCursor, assetRows)
    BY <2>1 DEF Missing, IsStored
  <2>4. Cardinality(Missing(scannedAt, walkCursor, assetRows')) <= removed
    BY <2>3, FoundAreFinite, FewerMissing DEF WalkInv, WalkTyped
  <2>5. RowsComplete(assetRows') /\ RowsComplete(walkPoll'.hand)
    <3>1. RowsComplete(assetRows) /\ RowsComplete(walkPoll.hand)
      BY DEF WalkInv
    <3> QED
      BY <2>1, <3>1, Zenon DEF RowsComplete
  <2>6. WalkTyped'
    BY <2>1 DEF WalkInv, WalkTyped
  <2>7. PlaceTyped(walkPoll'.next, hour') /\ Cardinality(Missing(scannedAt', walkPoll'.next, assetRows' \cup walkPoll'.hand)) <= removed'
    BY <2>1, <2>2 DEF WalkInv
  <2> QED
    BY <2>1, <2>4, <2>5, <2>6, <2>7 DEF WalkInv
<1>5. CASE SavePage
  <2>1. /\ walkPoll.at = "advance" /\ walkCursor' = walkPoll.next /\ walkPoll' = NotPolling
        /\ UNCHANGED <<hour, scannedAt, assetRows, catalog, removed>>
    BY <1>5 DEF SavePage
  <2>2. assetRows \cup walkPoll.hand = assetRows
    BY <2>1 DEF WalkInv
  <2>3. PlaceTyped(walkPoll.next, hour) /\ Cardinality(Missing(scannedAt, walkPoll.next, assetRows)) <= removed
    BY <2>1, <2>2 DEF WalkInv
  <2>4. WalkTyped'
    BY <2>1, <2>3, <1>b DEF WalkInv, WalkTyped
  <2> QED
    BY <2>1, <2>3, <2>4, <1>b DEF WalkInv, RowsComplete
<1>6. CASE WalkFails
  <2>1. walkPoll' = NotPolling /\ UNCHANGED <<hour, scannedAt, assetRows, walkCursor, removed>>
    BY <1>6 DEF WalkFails
  <2>2. catalog' = catalog \/ catalog' = <<>> \/ \E looked : catalog' = CacheOf(catalog, looked)
    BY <1>6 DEF WalkFails
  <2>3. CatalogTrue(catalog')
    <3>1. CatalogTrue(catalog)
      BY DEF WalkInv
    <3>2. CASE catalog' = <<>>
      BY <3>2 DEF CatalogTrue
    <3> QED
      BY <2>2, <3>1, <3>2, CatalogStaysTrue
  <2>4. WalkTyped'
    BY <2>1, <1>b DEF WalkInv, WalkTyped
  <2> QED
    BY <2>1, <2>3, <2>4, <1>b DEF WalkInv, RowsComplete
<1>7. CASE UNCHANGED walkVars
  <2>1. UNCHANGED <<hour, scannedAt, assetRows, walkCursor, catalog, walkPoll, removed>>
    BY <1>7 DEF walkVars
  <2> QED
    BY <2>1 DEF WalkInv, WalkTyped
<1> QED
  BY <1>1, <1>2, <1>3, <1>4, <1>5, <1>6, <1>7 DEF WalkNext, WalkPollStep

(* Over scans that move assets between the pages and removals under a parked *)
(* walk, each removal hides one asset at most, and no finding is stored bare *)
(* for a catalog that failed to answer (collectors/vuln.py, r7_page, fetch). *)
THEOREM WalkStaysWhole == WalkSpec => [](WalkSkipsNothing /\ OnlyBudgetDegrades)
<1>1. WalkInv => WalkSkipsNothing
  <2> SUFFICES ASSUME WalkInv PROVE WalkSkipsNothing
    OBVIOUS
  <2> DEFINE hidden == {a \in Assets : scannedAt[a] # -1 /\ scannedAt[a] < walkCursor.since
                                  /\ \A full \in BOOLEAN : <<a, scannedAt[a], full>> \notin assetRows}
  <2>1. hidden \in SUBSET Missing(scannedAt, walkCursor, assetRows)
    BY DEF Missing, IsStored
  <2>2. Cardinality(hidden) <= removed
    <3> HIDE DEF hidden
    <3> QED
      BY <2>1, FoundAreFinite, FewerMissing DEF WalkInv, WalkTyped
  <2> QED
    BY <2>2 DEF WalkSkipsNothing
<1>2. WalkInv => OnlyBudgetDegrades
  BY DEF WalkInv, RowsComplete, OnlyBudgetDegrades
<1> QED
  BY <1>1, <1>2, WalkInvInit, WalkInvStep, PTL DEF WalkSpec

(* The two listings that are worked off over many polls pass nothing by.   *)
THEOREM ListingsStayWhole == ExportSpec /\ WalkSpec => []ListingsAreWhole
  BY ExportPassesNothing, WalkStaysWhole, PTL DEF ListingsAreWhole

-----------------------------------------------------------------------------
(***************************************************************************)
(* The SQS poll (SqsTransport).                                            *)
(*                                                                         *)
(* A message that was deleted has its records stored or given up, but for  *)
(* the ones of the poll that is about to ingest them; a message is put up  *)
(* for deletion once what it names was read.                               *)
(***************************************************************************)
Accounted(m, records) ==
    \A o \in ObjectsOf(m) : Legible(o) => o \notin Unreadable3 /\ Objects[o].records \subseteq records

SqsInv ==
    /\ \A m \in complete : m \in Message3 /\ Accounted(m, inHand)
    /\ \A m \in Message3 : onQueue[m] = "deleted" =>
          Accounted(m, ingested \cup forgone) \/ (poll = "ingest" /\ m \in complete)
    /\ poll = "idle" => complete = {} /\ inHand = {}

LEMMA SqsInvInit == SqsInit => SqsInv
BY DEF SqsInit, SqsInv

(* The message that is read in full is accounted for by what is in hand.   *)
LEMMA ReadInFull ==
  ASSUME NEW m \in Message3, SqsInv, NEW failing, Read3(m, failing)
  PROVE  SqsInv'
<1> DEFINE within == {i \in ObjectKeys(m) : Cardinality({k \in ObjectKeys(m) : k < i}) < ObjectBudget - reads}
           tried == ObjectsAt(m, within)
<1>1. /\ poll = "read" /\ tried \cap Unreadable3 \subseteq failing
      /\ inHand' = inHand \cup UNION {RecordsOf(o) : o \in tried \ failing}
      /\ complete' = IF within = ObjectKeys(m) /\ failing = {} THEN complete \cup {m} ELSE complete
      /\ UNCHANGED <<onQueue, poll, ingested, forgone>>
  BY DEF Read3
<1>2. \A n : Accounted(n, inHand) => Accounted(n, inHand')
  BY <1>1 DEF Accounted
<1>3. ASSUME within = ObjectKeys(m), failing = {} PROVE Accounted(m, inHand')
  <2>1. tried = ObjectsOf(m)
    BY <1>3 DEF ObjectsOf
  <2>2. SUFFICES ASSUME NEW o \in ObjectsOf(m), Legible(o) PROVE o \notin Unreadable3 /\ Objects[o].records \subseteq inHand'
    BY DEF Accounted
  <2>3. o \in tried \ failing /\ RecordsOf(o) = Objects[o].records
    BY <1>3, <2>1, <2>2 DEF Legible, RecordsOf
  <2> HIDE DEF tried
  <2> QED
    BY <1>1, <1>3, <2>3
<1> HIDE DEF within, tried
<1>4. \A n \in complete' : n \in Message3 /\ Accounted(n, inHand')
  BY <1>1, <1>2, <1>3 DEF SqsInv
<1>5. ASSUME NEW n \in Message3, onQueue'[n] = "deleted" PROVE Accounted(n, ingested \cup forgone)
  BY <1>1, <1>5 DEF SqsInv
<1> QED
  BY <1>1, <1>4, <1>5 DEF SqsInv, Accounted

(* What fails after the deletion gives up the records that were in hand.   *)
LEMMA GivenUp ==
  ASSUME SqsInv, NEW gone \in SUBSET complete, NEW m \in gone
  PROVE  Accounted(m, forgone \cup LostWith(gone))
<1>1. Accounted(m, inHand)
  BY DEF SqsInv
<1>2. SUFFICES ASSUME NEW o \in ObjectsOf(m), Legible(o) PROVE Objects[o].records \subseteq LostWith(gone)
  BY <1>1 DEF Accounted
<1>3. Objects[o].records \subseteq inHand /\ RecordsOf(o) = Objects[o].records
  BY <1>1, <1>2 DEF Accounted, Legible, RecordsOf
<1>4. o \in UNION {ObjectsOf(n) : n \in gone}
  OBVIOUS
<1> QED
  BY <1>3, <1>4 DEF LostWith

LEMMA SqsInvStep == SqsInv /\ [SqsNext]_sqsVars => SqsInv'
<1> SUFFICES ASSUME SqsInv, [SqsNext]_sqsVars PROVE SqsInv'
  OBVIOUS
<1>m. \A m, r, s : Accounted(m, r) => Accounted(m, r \cup s) /\ Accounted(m, s \cup r)
  BY DEF Accounted
<1>1. ASSUME NEW m \in Message3, Notify(m) \/ Reappear(m) PROVE SqsInv'
  <2>1. onQueue' = [onQueue EXCEPT ![m] = "visible"] /\ UNCHANGED <<poll, inHand, complete, ingested, forgone>>
    BY <1>1 DEF Notify, Reappear, KeepsPoll
  <2>2. \A n \in Message3 : onQueue'[n] = "deleted" => onQueue[n] = "deleted"
    BY <2>1
  <2> QED
    BY <2>1, <2>2 DEF SqsInv, Accounted
<1>2. ASSUME NEW m \in Message3, Reading(m) PROVE SqsInv'
  BY <1>2, ReadInFull DEF Reading, ReadMessage
<1>3. CASE PollBegins
  <2>1. /\ poll = "idle" /\ poll' = "receive" /\ UNCHANGED <<inHand, complete, ingested, forgone>>
        /\ \A n \in Message3 : onQueue'[n] = "deleted" => onQueue[n] = "deleted"
    BY <1>3 DEF PollBegins, KeepsPoll
  <2> QED
    BY <2>1 DEF SqsInv, Accounted
<1>4. ASSUME NEW b \in SUBSET Message3, Receive3(b) PROVE SqsInv'
  <2>1. /\ poll = "receive" /\ poll' \in {"delete", "read"} /\ UNCHANGED <<inHand, complete, ingested, forgone>>
        /\ \A n \in Message3 : onQueue'[n] = "deleted" => onQueue[n] = "deleted"
    BY <1>4 DEF Receive3
  <2> QED
    BY <2>1 DEF SqsInv, Accounted
<1>5. CASE BatchRead
  BY <1>5 DEF BatchRead, KeepsPoll, SqsInv, Accounted
<1>6. CASE Delete3
  <2>1. /\ poll = "delete" /\ poll' = "ingest" /\ UNCHANGED <<inHand, complete, ingested, forgone>>
        /\ \A n \in Message3 : onQueue'[n] = "deleted" => onQueue[n] = "deleted" \/ n \in complete
    BY <1>6 DEF Delete3, Deleted3, KeepsPoll
  <2> QED
    BY <2>1 DEF SqsInv, Accounted
<1>7. CASE DeleteFails
  <2>1. PICK gone \in SUBSET complete : onQueue' = Deleted3(gone) /\ forgone' = forgone \cup LostWith(gone)
    BY <1>7 DEF DeleteFails
  <2>2. poll = "delete" /\ poll' = "idle" /\ complete' = {} /\ inHand' = {} /\ ingested' = ingested
    BY <1>7 DEF DeleteFails, Forget
  <2>3. ASSUME NEW n \in Message3, onQueue'[n] = "deleted" PROVE Accounted(n, ingested \cup forgone')
    <3>1. CASE n \in gone
      <4>1. Accounted(n, forgone')
        BY <2>1, <3>1, GivenUp
      <4> QED
        BY <4>1, <1>m
    <3>2. CASE n \notin gone
      <4>1. onQueue[n] = "deleted"
        BY <2>1, <2>3, <3>2 DEF Deleted3
      <4>2. Accounted(n, ingested \cup forgone)
        BY <2>2, <4>1 DEF SqsInv
      <4>3. ingested \cup forgone' = (ingested \cup forgone) \cup LostWith(gone)
        BY <2>1
      <4> QED
        BY <4>2, <4>3, <1>m
    <3> QED
      BY <3>1, <3>2
  <2> QED
    BY <2>2, <2>3 DEF SqsInv, Accounted
<1>8. CASE ReceiveFails
  BY <1>8 DEF ReceiveFails, Forget, SqsInv, Accounted
<1>9. CASE Store3
  <2>1. poll = "ingest" /\ poll' = "idle" /\ ingested' = ingested \cup inHand /\ complete' = {} /\ inHand' = {} /\ UNCHANGED <<onQueue, forgone>>
    BY <1>9 DEF Store3, Forget
  <2>2. ASSUME NEW n \in Message3, onQueue[n] = "deleted" PROVE Accounted(n, ingested' \cup forgone)
    <3>1. Accounted(n, ingested \cup forgone) \/ Accounted(n, inHand)
      BY <2>2 DEF SqsInv
    <3>2. ingested' \cup forgone = (ingested \cup forgone) \cup inHand
      BY <2>1
    <3> QED
      BY <3>1, <3>2, <1>m
  <2> QED
    BY <2>1, <2>2 DEF SqsInv, Accounted
<1>10. CASE StoreFails \/ Crash3
  <2>1. /\ poll # "idle" /\ poll' = "idle" /\ complete' = {} /\ inHand' = {} /\ UNCHANGED <<onQueue, ingested>>
        /\ forgone' = IF poll = "ingest" THEN forgone \cup LostWith(complete) ELSE forgone
    BY <1>10 DEF StoreFails, Crash3, Forget
  <2>2. ASSUME NEW n \in Message3, onQueue[n] = "deleted" PROVE Accounted(n, ingested \cup forgone')
    <3>1. CASE poll = "ingest" /\ n \in complete
      <4>1. Accounted(n, forgone')
        BY <2>1, <3>1, GivenUp
      <4> QED
        BY <4>1, <1>m
    <3>2. CASE ~(poll = "ingest" /\ n \in complete)
      <4>1. Accounted(n, ingested \cup forgone)
        BY <2>2, <3>2 DEF SqsInv
      <4>2. ingested \cup forgone' = (ingested \cup forgone) \cup (IF poll = "ingest" THEN LostWith(complete) ELSE {})
        BY <2>1
      <4> QED
        BY <4>1, <4>2, <1>m
    <3> QED
      BY <3>1, <3>2
  <2> QED
    BY <2>1, <2>2 DEF SqsInv, Accounted
<1>11. CASE UNCHANGED sqsVars
  BY <1>11 DEF sqsVars, SqsInv, Accounted
<1> QED
  BY <1>1, <1>2, <1>3, <1>4, <1>5, <1>6, <1>7, <1>8, <1>9, <1>10, <1>11 DEF SqsNext

(* Over objects that cannot be read, budgets that end a message half way,  *)
(* failing deletions, stores and crashes, no notification is deleted whose *)
(* records are neither stored nor in hand nor knowingly given up           *)
(* (collectors/aws_s3.py, S3SqsCollector.fetch).                           *)
THEOREM SqsAccountsForTheDeleted == SqsSpec => []DeletedIsAccountedFor
<1>1. SqsInv => DeletedIsAccountedFor
  <2> SUFFICES ASSUME SqsInv, NEW m \in Message3, onQueue[m] = "deleted"
               PROVE  Accounted(m, ingested \cup inHand \cup forgone)
    BY DEF DeletedIsAccountedFor, Accounted
  <2> QED
    BY DEF SqsInv, Accounted
<1> QED
  BY <1>1, SqsInvInit, SqsInvStep, PTL DEF SqsSpec

-----------------------------------------------------------------------------
(***************************************************************************)
(* The correlation rules and the silent-source check (Watchers).           *)
(*                                                                         *)
(* Alerts differ in rule, key or period; a job that has committed alerts   *)
(* and not sent them yet is alone with them, and none was sent.            *)
(***************************************************************************)
AllRules == DOMAIN CorrelationRules \cup {Silent2}
Identities(raised) == {AlertIdentity(a) : a \in raised}

JobTyped(j) ==
    /\ job[j].at \in {"sleep", "query", "insert", "dispatch"} /\ job[j].now \in Nat
    /\ job[j].at # "sleep" => job[j].turn \in 1 .. Len(RulesOf2(j))
    /\ job[j].at = "insert" => Rule2(j) \notin BrokenRules
    /\ job[j] = [at |-> job[j].at, turn |-> job[j].turn, now |-> job[j].now,
                 found |-> job[j].found, newest |-> job[j].newest, new |-> job[j].new]
    /\ job[j].at # "dispatch" => job[j].new = {}

WatchTyped ==
    /\ clock \in Nat /\ scheduled \in SUBSET {j \in Jobs : RulesOf2(j) # <<>>}
    /\ job = [j \in Jobs |-> job[j]] /\ \A j \in Jobs : JobTyped(j)
    /\ lastRun = [r \in AllRules |-> lastRun[r]]

AlertTyped(a) ==
    /\ a = <<a[1], a[2], a[3], a[4]>>
    /\ Period(a[1]) \in Nat \ {0} /\ a[4] \in Nat /\ a[3] = a[4] \div Period(a[1])

WatchInv ==
    /\ WatchTyped
    /\ \A a \in alertRows : AlertTyped(a)
    /\ \A a, b \in alertRows : AlertIdentity(a) = AlertIdentity(b) => a = b
    /\ DOMAIN sent \subseteq Identities(alertRows) /\ \A i \in DOMAIN sent : sent[i] = 1
    /\ \A j \in Jobs : Identities(job[j].new) \subseteq Identities(alertRows) \ DOMAIN sent
    /\ \A j, k \in Jobs : j # k => Identities(job[j].new) \cap Identities(job[k].new) = {}
    /\ \A r \in AllRules : \A k \in lastRun[r].found : <<r, k, lastRun[r].bucket>> \in Identities(alertRows)

LEMMA SleepingTyped ==
  /\ Sleeping.at = "sleep" /\ Sleeping.now \in Nat /\ Sleeping.new = {}
  /\ Sleeping = [at |-> Sleeping.at, turn |-> Sleeping.turn, now |-> Sleeping.now,
                 found |-> Sleeping.found, newest |-> Sleeping.newest, new |-> Sleeping.new]
BY DEF Sleeping

LEMMA RulesTyped ==
  ASSUME NEW j \in Jobs
  PROVE  /\ Len(RulesOf2(j)) \in Nat /\ \A i \in 1 .. Len(RulesOf2(j)) : RulesOf2(j)[i] \in AllRules
         /\ RulesOf2(j) # <<>> => Len(RulesOf2(j)) >= 1
<1>1. RuleOrder \in Seq(DOMAIN CorrelationRules)
  BY WatchAssumption
<1>2. /\ Len(RuleOrder) \in Nat /\ \A i \in 1 .. Len(RuleOrder) : RuleOrder[i] \in DOMAIN CorrelationRules
      /\ RuleOrder # <<>> => Len(RuleOrder) >= 1
  BY <1>1
<1>3. CASE j = "correlation"
  BY <1>2, <1>3 DEF RulesOf2, AllRules
<1>4. CASE j # "correlation"
  BY <1>4 DEF RulesOf2, AllRules
<1> QED
  BY <1>3, <1>4

LEMMA PeriodTyped ==
  ASSUME NEW r \in AllRules, r \notin BrokenRules
  PROVE  Period(r) \in Nat \ {0}
BY WatchAssumption DEF Period, AllRules

LEMMA WatchInvInit == WatchInit => WatchInv
<1> SUFFICES ASSUME WatchInit PROVE WatchInv
  OBVIOUS
<1>1. /\ clock = 0 /\ alertRows = {} /\ sent = <<>> /\ job = [j \in Jobs |-> Sleeping]
      /\ scheduled \in SUBSET {j \in Jobs : RulesOf2(j) # <<>>}
      /\ lastRun = [r \in AllRules |-> NeverRan]
  BY DEF WatchInit, AllRules
<1>2. \A j \in Jobs : JobTyped(j) /\ job[j].new = {}
  BY <1>1, SleepingTyped DEF JobTyped
<1>3. \A r \in AllRules : lastRun[r].found = {}
  BY <1>1 DEF NeverRan
<1>4. Identities({}) = {} /\ DOMAIN sent = {}
  BY <1>1 DEF Identities
<1> QED
  BY <1>1, <1>2, <1>3, <1>4 DEF WatchInv, WatchTyped

(* A step that leaves the alerts alone and only moves a job on.            *)
LEMMA JobMovesOn ==
  ASSUME WatchInv, UNCHANGED <<alertRows, sent, lastRun, scheduled>>, clock' \in Nat,
         job' = [j \in Jobs |-> job'[j]],
         \A j \in Jobs : JobTyped(j)' /\ job'[j].new \subseteq job[j].new
  PROVE  WatchInv'
<1>1. WatchTyped'
  BY DEF WatchInv, WatchTyped
<1>2. \A j \in Jobs : Identities(job'[j].new) \subseteq Identities(job[j].new)
  BY DEF Identities
<1> QED
  BY <1>1, <1>2 DEF WatchInv, Identities, AlertTyped

LEMMA OnwardTyped ==
  ASSUME NEW j \in Jobs, WatchTyped, job[j].at # "sleep"
  PROVE  /\ Onward(j).new = {} /\ Onward(j).at \in {"sleep", "query"} /\ Onward(j).now \in Nat
         /\ Onward(j).at # "sleep" => Onward(j).turn \in 1 .. Len(RulesOf2(j))
         /\ Onward(j) = [at |-> Onward(j).at, turn |-> Onward(j).turn, now |-> Onward(j).now,
                 found |-> Onward(j).found, newest |-> Onward(j).newest, new |-> Onward(j).new]
<1>1. job[j].turn \in 1 .. Len(RulesOf2(j)) /\ Len(RulesOf2(j)) \in Nat
  BY RulesTyped DEF WatchTyped, JobTyped
<1>2. CASE job[j].turn = Len(RulesOf2(j))
  <2>1. Onward(j) = Sleeping
    BY <1>2 DEF Onward
  <2> QED
    BY <2>1, SleepingTyped
<1>3. CASE job[j].turn # Len(RulesOf2(j))
  <2>1. Onward(j) = [at |-> "query", turn |-> job[j].turn + 1, now |-> 0, found |-> {},
                     newest |-> [k \in Keys |-> -1], new |-> {}]
    BY <1>3 DEF Onward, Sleeping
  <2>2. job[j].turn + 1 \in 1 .. Len(RulesOf2(j))
    BY <1>1, <1>3
  <2> QED
    BY <2>1, <2>2
<1> QED
  BY <1>2, <1>3

LEMMA WatchStillHeld ==
  ASSUME WatchInv, NEW j \in Jobs, Wake(j) \/ Query2(j) \/ RunFails(j)
  PROVE  WatchInv'
<1>t. WatchTyped /\ JobTyped(j) /\ job = [k \in Jobs |-> job[k]]
  BY DEF WatchInv, WatchTyped
<1>1. PICK rec : job' = [job EXCEPT ![j] = rec] /\ Set2(j, rec)
      /\ \/ Wake(j) /\ rec = [Sleeping EXCEPT !.at = "query", !.turn = 1, !.now = clock]
         \/ Query2(j) /\ rec = [job[j] EXCEPT !.at = "insert", !.found = Found2(Rule2(j), job[j].now),
                         !.newest = [k \in Keys |-> IF Within2(k, 0) = {} THEN -1 ELSE NewestOf(k, 0)]]
         \/ RunFails(j) /\ rec = Onward(j)
  BY Zenon DEF Wake, Query2, RunFails, AfterFailure, Set2
<1>2. UNCHANGED <<alertRows, sent, lastRun, scheduled, clock>>
  BY DEF Wake, Query2, RunFails
<1>3. job' = [k \in Jobs |-> job'[k]] /\ job'[j] = rec /\ \A k \in Jobs : k # j => job'[k] = job[k]
  BY <1>1, <1>t
<1>4. /\ rec.new = {} /\ rec.at \in {"sleep", "query", "insert"} /\ rec.now \in Nat
      /\ rec.at # "sleep" => rec.turn \in 1 .. Len(RulesOf2(j))
      /\ rec.at = "insert" => RulesOf2(j)[rec.turn] \notin BrokenRules
      /\ rec = [at |-> rec.at, turn |-> rec.turn, now |-> rec.now, found |-> rec.found, newest |-> rec.newest, new |-> rec.new]
  <2>1. CASE Wake(j) /\ rec = [Sleeping EXCEPT !.at = "query", !.turn = 1, !.now = clock]
    <3>1. rec = [at |-> "query", turn |-> 1, now |-> clock, found |-> {}, newest |-> [k \in Keys |-> -1], new |-> {}]
      BY <2>1 DEF Sleeping
    <3>2. j \in scheduled /\ RulesOf2(j) # <<>>
      BY <2>1, <1>t DEF Wake, WatchTyped
    <3>3. 1 \in 1 .. Len(RulesOf2(j))
      BY <3>2, RulesTyped
    <3> QED
      BY <3>1, <3>3, <1>t DEF WatchTyped
  <2>2. CASE Query2(j) /\ rec = [job[j] EXCEPT !.at = "insert", !.found = Found2(Rule2(j), job[j].now),
                         !.newest = [k \in Keys |-> IF Within2(k, 0) = {} THEN -1 ELSE NewestOf(k, 0)]]
    <3>1. job[j].at = "query" /\ RulesOf2(j)[job[j].turn] \notin BrokenRules
      BY <2>2 DEF Query2, Rule2
    <3>2. \E found, newest : rec = [at |-> "insert", turn |-> job[j].turn, now |-> job[j].now,
                     found |-> found, newest |-> newest, new |-> job[j].new]
      <4> DEFINE f == Found2(Rule2(j), job[j].now)
                 w == [k \in Keys |-> IF Within2(k, 0) = {} THEN -1 ELSE NewestOf(k, 0)]
      <4>1. rec = [job[j] EXCEPT !.at = "insert", !.found = f, !.newest = w]
        BY <2>2
      <4> HIDE DEF f, w
      <4> QED
        BY <4>1, <1>t DEF JobTyped
    <3> QED
      BY <3>1, <3>2, <1>t DEF JobTyped
  <2>3. CASE RunFails(j) /\ rec = Onward(j)
    <3>1. job[j].at # "sleep"
      BY <2>3 DEF RunFails
    <3> QED
      BY <2>3, <3>1, <1>t, OnwardTyped
  <2> QED
    BY <1>1, <2>1, <2>2, <2>3
<1>5. \A k \in Jobs : JobTyped(k)' /\ job'[k].new \subseteq job[k].new
  <2> SUFFICES ASSUME NEW k \in Jobs PROVE JobTyped(k)' /\ job'[k].new \subseteq job[k].new
    OBVIOUS
  <2>1. CASE k = j
    BY <2>1, <1>3, <1>4 DEF JobTyped, Rule2
  <2>2. CASE k # j
    BY <2>2, <1>3, <1>t DEF JobTyped, Rule2, WatchTyped
  <2> QED
    BY <2>1, <2>2
<1>6. clock' \in Nat
  BY <1>2, <1>t DEF WatchTyped
<1> QED
  BY <1>2, <1>3, <1>5, <1>6, JobMovesOn

(* A run commits alerts of one rule and one period, and keeps the new ones. *)
LEMMA InsertHeld ==
  ASSUME WatchInv, NEW j \in Jobs, InsertAlerts2(j)
  PROVE  WatchInv'
<1> DEFINE rule == Rule2(j)
           clk == IF j = "health" THEN job[j].now ELSE clock
           bucket == Bucket2(rule, clk)
           raised == {<<rule, k, bucket, clk>> : k \in job[j].found}
           new == NewOf(raised)
<1>t. /\ JobTyped(j) /\ job = [k \in Jobs |-> job[k]] /\ job[j].at = "insert" /\ clk \in Nat /\ clock \in Nat
      /\ lastRun = [r \in AllRules |-> lastRun[r]]
  BY DEF WatchInv, WatchTyped, JobTyped, InsertAlerts2
<1>1. rule \in AllRules /\ rule \notin BrokenRules
  <2>1. job[j].turn \in 1 .. Len(RulesOf2(j))
    BY <1>t DEF JobTyped
  <2> QED
    BY <2>1, <1>t, RulesTyped DEF JobTyped, Rule2
<1>2. Period(rule) \in Nat \ {0} /\ bucket = clk \div Period(rule)
  BY <1>1, PeriodTyped DEF Bucket2
<1>3. /\ alertRows' = alertRows \cup new
      /\ lastRun' = [lastRun EXCEPT ![rule] = [bucket |-> bucket, found |-> job[j].found, newest |-> job[j].newest]]
      /\ job' = [job EXCEPT ![j] = [job[j] EXCEPT !.at = "dispatch", !.found = {}, !.newest = Sleeping.newest, !.new = new]]
      /\ UNCHANGED <<clock, scheduled, sent>>
  BY DEF InsertAlerts2, NewOf, Set2, Bucket2
<1>4. \A a \in new : /\ a[1] = rule /\ a[3] = bucket /\ a[4] = clk /\ a[2] \in job[j].found /\ a = <<a[1], a[2], a[3], a[4]>>
                     /\ AlertIdentity(a) \notin Identities(alertRows)
  BY DEF NewOf, Identities
<1>5. \A k \in job[j].found : <<rule, k, bucket>> \in Identities(alertRows \cup new)
  <2> SUFFICES ASSUME NEW k \in job[j].found PROVE <<rule, k, bucket>> \in Identities(alertRows \cup new)
    OBVIOUS
  <2> DEFINE a == <<rule, k, bucket, clk>>
  <2>1. a \in raised /\ AlertIdentity(a) = <<rule, k, bucket>>
    BY DEF AlertIdentity
  <2>2. a \in new \/ AlertIdentity(a) \in {AlertIdentity(b) : b \in alertRows}
    BY <2>1 DEF NewOf
  <2> HIDE DEF a, new
  <2> QED
    BY <2>1, <2>2 DEF Identities
<1> HIDE DEF new, raised, bucket, clk, rule
<1>6. /\ job'[j].at = "dispatch" /\ job'[j].new = new /\ job'[j].turn = job[j].turn /\ job'[j].now = job[j].now
      /\ job'[j] = [at |-> job'[j].at, turn |-> job'[j].turn, now |-> job'[j].now,
                    found |-> job'[j].found, newest |-> job'[j].newest, new |-> job'[j].new]
      /\ job' = [k \in Jobs |-> job'[k]] /\ \A k \in Jobs : k # j => job'[k] = job[k]
  BY <1>3, <1>t DEF JobTyped
<1>7. WatchTyped'
  <2>1. \A k \in Jobs : JobTyped(k)'
    <3> SUFFICES ASSUME NEW k \in Jobs PROVE JobTyped(k)'
      OBVIOUS
    <3>1. CASE k = j
      BY <3>1, <1>6, <1>t DEF JobTyped, Rule2
    <3>2. CASE k # j
      BY <3>2, <1>6 DEF JobTyped, Rule2, WatchInv, WatchTyped
    <3> QED
      BY <3>1, <3>2
  <2>2. lastRun' = [r \in AllRules |-> lastRun'[r]]
    BY <1>3, <1>t
  <2> QED
    BY <2>1, <2>2, <1>3, <1>6 DEF WatchInv, WatchTyped
<1>8. \A a \in alertRows' : AlertTyped(a)
  BY <1>2, <1>3, <1>4, <1>t DEF WatchInv, AlertTyped
<1>9. \A a, b \in alertRows' : AlertIdentity(a) = AlertIdentity(b) => a = b
  <2> SUFFICES ASSUME NEW a \in alertRows', NEW b \in alertRows', AlertIdentity(a) = AlertIdentity(b) PROVE a = b
    OBVIOUS
  <2>1. \A x \in alertRows : AlertIdentity(x) \in Identities(alertRows)
    BY DEF Identities
  <2>2. CASE a \in alertRows /\ b \in alertRows
    BY <2>2 DEF WatchInv
  <2>3. CASE a \in new /\ b \in new
    BY <2>3, <1>4 DEF AlertIdentity
  <2> QED
    BY <2>1, <2>2, <2>3, <1>3, <1>4
<1>10. Identities(alertRows) \subseteq Identities(alertRows') /\ Identities(new) \subseteq Identities(alertRows')
       /\ Identities(new) \cap Identities(alertRows) = {}
  BY <1>3, <1>4 DEF Identities
<1>11. \A k \in Jobs : Identities(job'[k].new) \subseteq Identities(alertRows') \ DOMAIN sent'
  <2> SUFFICES ASSUME NEW k \in Jobs PROVE Identities(job'[k].new) \subseteq Identities(alertRows') \ DOMAIN sent'
    OBVIOUS
  <2>1. DOMAIN sent \subseteq Identities(alertRows) /\ sent' = sent
    BY <1>3 DEF WatchInv
  <2>2. CASE k = j
    BY <2>1, <2>2, <1>6, <1>10
  <2>3. CASE k # j
    BY <2>1, <2>3, <1>6, <1>10 DEF WatchInv
  <2> QED
    BY <2>2, <2>3
<1>12. \A k, l \in Jobs : k # l => Identities(job'[k].new) \cap Identities(job'[l].new) = {}
  <2>1. \A k \in Jobs : Identities(job[k].new) \subseteq Identities(alertRows)
    BY DEF WatchInv
  <2>2. \A k, l \in Jobs : k # l => Identities(job[k].new) \cap Identities(job[l].new) = {}
    BY DEF WatchInv
  <2> QED
    BY <2>1, <2>2, <1>6, <1>10
<1>13. \A r \in AllRules : \A k \in lastRun'[r].found : <<r, k, lastRun'[r].bucket>> \in Identities(alertRows')
  <2> SUFFICES ASSUME NEW r \in AllRules, NEW k \in lastRun'[r].found PROVE <<r, k, lastRun'[r].bucket>> \in Identities(alertRows')
    OBVIOUS
  <2>1. CASE r = rule
    <3>1. lastRun'[r].bucket = bucket /\ k \in job[j].found
      BY <2>1, <1>3, <1>t
    <3> QED
      BY <2>1, <3>1, <1>3, <1>5
  <2>2. CASE r # rule
    <3>1. lastRun'[r] = lastRun[r]
      BY <2>2, <1>3, <1>t
    <3> QED
      BY <3>1, <1>10 DEF WatchInv
  <2> QED
    BY <2>1, <2>2
<1>14. DOMAIN sent' \subseteq Identities(alertRows') /\ \A i \in DOMAIN sent' : sent'[i] = 1
  BY <1>3, <1>10 DEF WatchInv
<1> QED
  BY <1>7, <1>8, <1>9, <1>11, <1>12, <1>13, <1>14 DEF WatchInv

LEMMA DispatchHeld ==
  ASSUME WatchInv, NEW j \in Jobs, Dispatch2(j)
  PROVE  WatchInv'
<1> DEFINE gone == Identities(job[j].new)
<1>t. WatchTyped /\ JobTyped(j) /\ job = [k \in Jobs |-> job[k]] /\ job[j].at = "dispatch"
  BY DEF WatchInv, WatchTyped, Dispatch2
<1>1. /\ sent' = [i \in DOMAIN sent \cup gone |-> (IF i \in DOMAIN sent THEN sent[i] ELSE 0) + (IF i \in gone THEN 1 ELSE 0)]
      /\ job' = [job EXCEPT ![j] = Onward(j)]
      /\ UNCHANGED <<scheduled, clock, alertRows, lastRun>>
  BY DEF Dispatch2, Set2, Identities
<1>2. gone \subseteq Identities(alertRows) \ DOMAIN sent
  BY DEF WatchInv
<1>3. job'[j] = Onward(j) /\ job' = [k \in Jobs |-> job'[k]] /\ \A k \in Jobs : k # j => job'[k] = job[k]
  BY <1>1, <1>t
<1>4. Onward(j).new = {}
  BY <1>t, OnwardTyped
<1>5. WatchTyped'
  <2>1. \A k \in Jobs : JobTyped(k)'
    <3> SUFFICES ASSUME NEW k \in Jobs PROVE JobTyped(k)'
      OBVIOUS
    <3>1. CASE k = j
      <4>1. /\ Onward(j).at \in {"sleep", "query"} /\ Onward(j).now \in Nat
            /\ Onward(j).at # "sleep" => Onward(j).turn \in 1 .. Len(RulesOf2(j))
            /\ Onward(j) = [at |-> Onward(j).at, turn |-> Onward(j).turn, now |-> Onward(j).now,
                 found |-> Onward(j).found, newest |-> Onward(j).newest, new |-> Onward(j).new]
        BY <1>t, OnwardTyped
      <4> QED
        BY <3>1, <4>1, <1>3, <1>4 DEF JobTyped, Rule2
    <3>2. CASE k # j
      BY <3>2, <1>3, <1>t DEF JobTyped, Rule2, WatchTyped
    <3> QED
      BY <3>1, <3>2
  <2> QED
    BY <2>1, <1>1, <1>3, <1>t DEF WatchTyped
<1>6. DOMAIN sent' \subseteq Identities(alertRows') /\ \A i \in DOMAIN sent' : sent'[i] = 1
  <2> HIDE DEF gone
  <2> QED
    BY <1>1, <1>2 DEF WatchInv
<1>7. \A k \in Jobs : Identities(job'[k].new) \subseteq Identities(alertRows') \ DOMAIN sent'
  <2> SUFFICES ASSUME NEW k \in Jobs PROVE Identities(job'[k].new) \subseteq Identities(alertRows') \ DOMAIN sent'
    OBVIOUS
  <2>1. CASE k = j
    BY <2>1, <1>3, <1>4 DEF Identities
  <2>2. CASE k # j
    <3>1. Identities(job[k].new) \cap gone = {} /\ Identities(job[k].new) \subseteq Identities(alertRows) \ DOMAIN sent
      BY <2>2 DEF WatchInv
    <3>2. DOMAIN sent' = DOMAIN sent \cup gone
      BY <1>1
    <3> QED
      BY <2>2, <3>1, <3>2, <1>1, <1>3
  <2> QED
    BY <2>1, <2>2
<1>8. \A k, l \in Jobs : k # l => Identities(job'[k].new) \cap Identities(job'[l].new) = {}
  <2>1. \A k, l \in Jobs : k # l => Identities(job[k].new) \cap Identities(job[l].new) = {}
    BY DEF WatchInv
  <2>2. Identities(job'[j].new) = {}
    BY <1>3, <1>4 DEF Identities
  <2> QED
    BY <2>1, <2>2, <1>3
<1> QED
  BY <1>1, <1>5, <1>6, <1>7, <1>8 DEF WatchInv, AlertTyped, Identities

LEMMA WatchInvStep == WatchInv /\ [WatchNext]_watchVars => WatchInv'
<1> SUFFICES ASSUME WatchInv, [WatchNext]_watchVars PROVE WatchInv'
  OBVIOUS
<1>t. WatchTyped
  BY DEF WatchInv
<1>1. ASSUME NEW j \in Jobs, Wake(j) \/ Query2(j) \/ InsertAlerts2(j) \/ Dispatch2(j) \/ RunFails(j) PROVE WatchInv'
  BY <1>1, WatchStillHeld, InsertHeld, DispatchHeld
<1>2. CASE WatchCrash
  <2>1. job' = [j \in Jobs |-> Sleeping] /\ UNCHANGED <<alertRows, sent, lastRun, scheduled, clock>>
    BY <1>2 DEF WatchCrash
  <2>2. \A j \in Jobs : job'[j] = Sleeping
    BY <2>1
  <2>3. \A j \in Jobs : JobTyped(j)' /\ job'[j].new \subseteq job[j].new
    BY <2>2, SleepingTyped DEF JobTyped
  <2>4. job' = [j \in Jobs |-> job'[j]] /\ clock' \in Nat
    BY <2>1, <1>t DEF WatchTyped
  <2> QED
    BY <2>1, <2>3, <2>4, JobMovesOn
<1>3. CASE Tick2 \/ (\E k \in Keys, v \in Values \cup {NoValue}, s \in Skews : Arrives(k, v, s)) \/ UNCHANGED watchVars
  <2>1. UNCHANGED <<job, alertRows, sent, lastRun, scheduled>> /\ clock' \in Nat
    BY <1>3, <1>t DEF Tick2, Arrives, watchVars, WatchTyped
  <2>2. \A j \in Jobs : JobTyped(j)' /\ job'[j].new \subseteq job[j].new
    BY <2>1, <1>t DEF WatchTyped, JobTyped, Rule2
  <2>3. job' = [j \in Jobs |-> job'[j]]
    BY <2>1, <1>t DEF WatchTyped
  <2> QED
    BY <2>1, <2>2, <2>3, JobMovesOn
<1> QED
  BY <1>1, <1>2, <1>3 DEF WatchNext

(* Times two periods apart by number are a period apart.                   *)
LEMMA PeriodsApart ==
  ASSUME NEW p \in Nat \ {0}, NEW x \in Nat, NEW y \in Nat, (x \div p) + 2 <= y \div p
  PROVE  y - x >= p
<1> DEFINE q == x \div p
           r == y \div p
<1>1. q \in Nat /\ r \in Nat
  OBVIOUS
<1>2. x < p * (q + 1) /\ p * r <= y
  OBVIOUS
<1> HIDE DEF q, r
<1>3. q + 2 <= r
  BY DEF q, r
<1>4. PICK d \in Nat : r = q + 2 + d
  <2>1. r - (q + 2) \in Nat
    BY <1>1, <1>3
  <2> QED
    BY <1>1, <2>1
<1>5. p * r = p * (q + 1) + p + p * d /\ p * d \in Nat /\ p * (q + 1) \in Nat
  BY <1>1, <1>4
<1> QED
  BY <1>2, <1>5

LEMMA TwoAtMost ==
  ASSUME NEW x, NEW y
  PROVE  Cardinality({x, y}) # 3
<1>1. IsFiniteSet({x}) /\ Cardinality({x}) = 1
  BY FS_Singleton
<1>2. Cardinality({x} \cup {y}) = 1 \/ Cardinality({x} \cup {y}) = 2
  BY <1>1, FS_AddElement
<1>3. {x} \cup {y} = {x, y}
  OBVIOUS
<1> QED
  BY <1>2, <1>3

LEMMA ThreeDiffer ==
  ASSUME NEW a, NEW b, NEW c, Cardinality({a, b, c}) = 3
  PROVE  a # b /\ b # c /\ a # c
<1>1. (a = b => {a, b, c} = {a, c}) /\ (b = c => {a, b, c} = {a, c}) /\ (a = c => {a, b, c} = {a, b})
  OBVIOUS
<1>2. Cardinality({a, c}) # 3 /\ Cardinality({a, b}) # 3
  BY TwoAtMost
<1> QED
  BY <1>1, <1>2

LEMMA AlertsSpaced == WatchInv => AlertsAreSpaced
<1> SUFFICES ASSUME WatchInv, NEW a \in alertRows, NEW b \in alertRows, NEW c \in alertRows,
                    Cardinality({a, b, c}) = 3, <<a[1], a[2]>> = <<b[1], b[2]>>, <<a[1], a[2]>> = <<c[1], c[2]>>,
                    a[4] <= b[4], b[4] <= c[4]
             PROVE  c[4] - a[4] >= Period(a[1])
  BY DEF AlertsAreSpaced
<1> DEFINE p == Period(a[1])
<1>1. a # b /\ b # c
  BY ThreeDiffer
<1>2. a[1] = b[1] /\ a[1] = c[1] /\ a[2] = b[2] /\ a[2] = c[2]
  OBVIOUS
<1>3. AlertTyped(a) /\ AlertTyped(b) /\ AlertTyped(c)
  BY DEF WatchInv
<1>4. /\ p \in Nat \ {0} /\ a[4] \in Nat /\ b[4] \in Nat /\ c[4] \in Nat
      /\ a[3] = a[4] \div p /\ b[3] = b[4] \div p /\ c[3] = c[4] \div p
  BY <1>2, <1>3 DEF AlertTyped
<1>5. a[3] # b[3] /\ b[3] # c[3]
  BY <1>1, <1>2 DEF WatchInv, AlertIdentity
<1> HIDE DEF p
<1>6. a[4] \div p <= b[4] \div p /\ b[4] \div p <= c[4] \div p /\ a[4] \div p \in Nat /\ b[4] \div p \in Nat /\ c[4] \div p \in Nat
  BY <1>4
<1>7. (a[4] \div p) + 2 <= c[4] \div p
  BY <1>4, <1>5, <1>6
<1>8. c[4] - a[4] >= p
  BY <1>4, <1>7, PeriodsApart
<1> QED
  BY <1>8 DEF p

(* Over runs that find the same again, two jobs at once, a failing insert  *)
(* and a restart between commit and dispatch, what a run found is reported *)
(* in its period, sent once, and not more than twice a period              *)
(* (correlation.run_rule, sourcehealth.run_check, db.insert_alerts).       *)
THEOREM FindingsStayAlertedOnce == WatchSpec => []FindingsAlertOnce
<1>1. WatchInv => DispatchedOnce
  BY DEF WatchInv, DispatchedOnce
<1>2. WatchInv => ReportedEachPeriod
  <2> SUFFICES ASSUME WatchInv, NEW r \in DOMAIN lastRun, NEW k \in lastRun[r].found
               PROVE  \E a \in alertRows : a[1] = r /\ a[2] = k /\ a[4] \div Period(r) = lastRun[r].bucket
    BY DEF ReportedEachPeriod
  <2>1. DOMAIN lastRun = AllRules
    BY DEF WatchInv, WatchTyped
  <2>2. PICK a \in alertRows : AlertIdentity(a) = <<r, k, lastRun[r].bucket>>
    BY <2>1 DEF WatchInv, Identities
  <2>3. a[1] = r /\ a[2] = k /\ a[3] = lastRun[r].bucket /\ AlertTyped(a)
    BY <2>2 DEF AlertIdentity, WatchInv
  <2> QED
    BY <2>3 DEF AlertTyped
<1> QED
  BY <1>1, <1>2, AlertsSpaced, WatchInvInit, WatchInvStep, PTL DEF WatchSpec, FindingsAlertOnce

-----------------------------------------------------------------------------
(***************************************************************************)
(* The geo index (GeoCache).                                               *)
(*                                                                         *)
(* That a healthy status is true of history is not inductive: the stamp is *)
(* compared with an index that does not exist yet.  So the invariant is    *)
(* about prospects: the files as they are, and what a load comes to if no  *)
(* further file changes.  The stamp of an untouched prospect says what the *)
(* rows hold, and the index in between cannot have said otherwise.  The    *)
(* rest orders the files in time: what was read is no newer than what is.  *)
(***************************************************************************)
File == [content : Nat, stat : Nat]
Sources == UNION {[d -> File] : d \in SUBSET GeoSettings}
GeoIndex == [sources : Sources, failed : SUBSET GeoSettings, began : Nat, torn : BOOLEAN]
GeoLoad == [at : {"idle", "wait", "stat", "read"}, todo : SUBSET GeoSettings, file : Nat, seen : File,
            sources : Sources, failed : SUBSET GeoSettings, began : Nat, torn : BOOLEAN]
GeoRow == [ip : Addresses, answer : Nat, late : BOOLEAN]
Prints == UNION {[d -> Nat \X Nat] : d \in SUBSET GeoSettings}
Perhaps(kind) == {<<>>} \cup {<<x>> : x \in kind}

GeoTyped ==
    /\ geoFiles \in [GeoSettings -> File] /\ geoConfigured \in SUBSET GeoSettings
    /\ geoCache \in Perhaps(GeoIndex) /\ heldIndex \in Perhaps(GeoIndex)
    /\ loadOf \in [Threads2 -> GeoLoad]
    /\ geoRows \in Seq(GeoRow) /\ geoStamp \in Perhaps(Prints)
    /\ preserved \in BOOLEAN /\ sideLoads \in Nat /\ loads \in Nat

\* One thread loads at a time, the writer only while there is no index.
LoadsAt(t) == loadOf[t].at \in {"stat", "read"}
OneLoads ==
    /\ \A t \in Threads2 : LoadsAt(t) => geoLock = t
    /\ LoadsAt("writer") => geoCache = <<>>

\* Every configured source has its place in a load and in an index.
Parts(x, todo) ==
    /\ DOMAIN x.sources \cup x.failed \cup todo = geoConfigured
    /\ DOMAIN x.sources \cap x.failed = {} /\ todo \cap (DOMAIN x.sources \cup x.failed) = {}
    /\ \A s \in DOMAIN x.sources : x.sources[s].content # 0
PartsFit ==
    /\ geoCache # <<>> => Parts(geoCache[1], {})
    /\ \A t \in Threads2 : LoadsAt(t) =>
          /\ Parts(loadOf[t], loadOf[t].todo)
          /\ loadOf[t].at = "read" => loadOf[t].file \in loadOf[t].todo

\* The loads are numbered, and the memo knows of no load that has not ended.
Numbered ==
    /\ geoCache # <<>> => 0 < geoCache[1].began /\ geoCache[1].began <= loads
    /\ heldIndex # <<>> => heldIndex[1].began <= loads
    /\ \A t \in Threads2 : LoadsAt(t) =>
          /\ 0 < loadOf[t].began /\ loadOf[t].began <= loads
          /\ geoCache # <<>> => geoCache[1].began < loadOf[t].began
          /\ heldIndex # <<>> => heldIndex[1].began < loadOf[t].began
          /\ \A k \in DOMAIN memos : k[1] < loadOf[t].began
    /\ \A k \in DOMAIN memos : k[1] \in Nat /\ k[1] <= loads
    /\ geoCache # <<>> /\ heldIndex # <<>> /\ geoCache[1].began = heldIndex[1].began => geoCache = heldIndex

MemoOf(x) ==
    \A ip \in Addresses : HasSources(x) /\ MemoKey(x, ip) \in DOMAIN memos => memos[MemoKey(x, ip)] = AnswerOf(x, ip)
MemosTrue ==
    /\ geoCache # <<>> => MemoOf(geoCache[1])
    /\ heldIndex # <<>> => MemoOf(heldIndex[1])
    /\ ~misresolved

\* What was read is no newer than the file, and the same where it is as new.
NoNewer(file, than) == file.stat <= than.stat /\ (file.stat = than.stat => file.content = than.content)
StatsFit ==
    /\ \A s \in GeoSettings : geoFiles[s].stat <= sideLoads
    /\ geoStamp # <<>> => /\ DOMAIN geoStamp[1] \subseteq geoConfigured
                          /\ \A s \in DOMAIN geoStamp[1] : geoStamp[1][s][1] <= sideLoads
FilesAreNewer ==
    /\ geoCache # <<>> => \A s \in DOMAIN geoCache[1].sources : NoNewer(geoCache[1].sources[s], geoFiles[s])
    /\ \A t \in Threads2 : LoadsAt(t) =>
          /\ \A s \in DOMAIN loadOf[t].sources : NoNewer(loadOf[t].sources[s], geoFiles[s])
          /\ loadOf[t].at = "read" => NoNewer(loadOf[t].seen, geoFiles[loadOf[t].file])

\* A load sees each file no older than the live index saw it.
LoadIsNewer(t) ==
    \A s \in DOMAIN geoCache[1].sources :
        LET cached == geoCache[1].sources[s]
        IN  /\ s \in DOMAIN loadOf[t].sources =>
                  /\ cached.stat <= loadOf[t].sources[s].stat
                  /\ ~loadOf[t].torn => NoNewer(cached, loadOf[t].sources[s])
            /\ s \in loadOf[t].failed => cached.stat < geoFiles[s].stat
            /\ loadOf[t].at = "read" /\ s = loadOf[t].file => cached.stat <= loadOf[t].seen.stat
LoadsAreNewer == \A t \in Threads2 : LoadsAt(t) /\ geoCache # <<>> => LoadIsNewer(t)

\* The prospects.
FilesView == [s \in geoConfigured |-> geoFiles[s]]
ViewOf(t) == [s \in geoConfigured |->
                IF s \in DOMAIN loadOf[t].sources THEN loadOf[t].sources[s] ELSE geoFiles[s]]
Undisturbed(t) ==
    /\ LoadsAt(t) /\ ~loadOf[t].torn /\ loadOf[t].failed = {}
    /\ loadOf[t].at = "read" => loadOf[t].seen = geoFiles[loadOf[t].file]
Prospects == {FilesView} \cup {ViewOf(t) : t \in {u \in Threads2 : Undisturbed(u)}}

Stamped(v) ==
    /\ geoStamp # <<>> /\ DOMAIN geoStamp[1] = DOMAIN v
    /\ \A s \in DOMAIN v : geoStamp[1][s][1] = v[s].stat
RowsAsOf(v) ==
    \A i \in DOMAIN geoRows : ~geoRows[i].late => geoRows[i].answer = AnswerOf([sources |-> v], geoRows[i].ip)
Within(x, v) == x.failed = {} /\ \A s \in DOMAIN x.sources : x.sources[s].content = v[s].content

ProspectHolds(v) ==
    (\A s \in DOMAIN v : v[s].content # 0) /\ Stamped(v) =>
        /\ RowsAsOf(v)
        /\ geoCache # <<>> => Within(geoCache[1], v)
        /\ \A t \in Threads2 : LoadsAt(t) => Within(loadOf[t], v)
CacheHolds ==
    geoCache # <<>> /\ ~geoCache[1].torn /\ geoCache[1].failed = {} /\ Stamped(geoCache[1].sources)
        => RowsAsOf(geoCache[1].sources)

HistoryFollows ==
    ~preserved => /\ StatsFit /\ FilesAreNewer /\ LoadsAreNewer
                  /\ (\A v \in Prospects : ProspectHolds(v)) /\ CacheHolds

GeoInv == GeoTyped /\ OneLoads /\ PartsFit /\ Numbered /\ MemosTrue /\ HistoryFollows

(* The answer is a number, and depends on nothing but what the sources hold. *)
LEMMA FirstSource ==
    ASSUME NEW T \in SUBSET Nat, T # {}
    PROVE  \E x \in T : \A y \in T : x <= y
<1> DEFINE R == OpToRel(<, Nat)
<1>1. IsWellFoundedOn(R, Nat)
  BY NatLessThanWellFounded
<1> HIDE DEF R
<1>2. PICK x \in T : \A y \in T : ~(<<y, x>> \in R)
  BY <1>1, WFMin
<1>3. \A y \in T : <<y, x>> \in R <=> y < x
  BY DEF R, OpToRel
<1>4. \A y \in T : ~(y < x)
  BY <1>2, <1>3
<1> QED
  BY <1>4

LEMMA AnswerSame ==
    ASSUME NEW x, NEW y, NEW ip,
           DOMAIN x.sources \in SUBSET GeoSettings, DOMAIN y.sources = DOMAIN x.sources,
           \A s \in DOMAIN x.sources : x.sources[s].content = y.sources[s].content
    PROVE  AnswerOf(x, ip) = AnswerOf(y, ip)
<1> DEFINE covering == {s \in DOMAIN x.sources : ip \in Covers[s]}
           first == CHOOSE s \in covering : \A u \in covering : s <= u
<1>1. covering = {s \in DOMAIN y.sources : ip \in Covers[s]}
  OBVIOUS
<1>2. CASE covering = {}
  BY <1>1, <1>2 DEF AnswerOf
<1>3. CASE covering # {}
  <2>1. covering \in SUBSET Nat
    BY GeoAssumption
  <2> HIDE DEF covering
  <2>2. \E s \in covering : \A u \in covering : s <= u
    BY <1>3, <2>1, FirstSource
  <2>3. first \in covering
    BY <2>2
  <2> USE DEF covering
  <2>4. first \in DOMAIN x.sources
    BY <2>3
  <2> HIDE DEF first
  <2>5. x.sources[first].content = y.sources[first].content
    BY <2>4
  <2> QED
    BY <1>1, <1>3, <2>5 DEF AnswerOf, first
<1> QED
  BY <1>2, <1>3

LEMMA AnswerType ==
    ASSUME NEW x, x.sources \in Sources, NEW ip
    PROVE  AnswerOf(x, ip) \in Nat
<1> DEFINE covering == {s \in DOMAIN x.sources : ip \in Covers[s]}
           first == CHOOSE s \in covering : \A u \in covering : s <= u
<1>1. DOMAIN x.sources \in SUBSET GeoSettings /\ \A s \in DOMAIN x.sources : x.sources[s].content \in Nat
  BY DEF Sources, File
<1>2. CASE covering = {}
  BY <1>2 DEF AnswerOf
<1>3. CASE covering # {}
  <2>1. covering \in SUBSET Nat
    BY <1>1, GeoAssumption
  <2> HIDE DEF covering
  <2>2. \E s \in covering : \A u \in covering : s <= u
    BY <1>3, <2>1, FirstSource
  <2>3. first \in covering
    BY <2>2
  <2> USE DEF covering
  <2>4. first \in DOMAIN x.sources
    BY <2>3
  <2> HIDE DEF first
  <2>5. x.sources[first].content \in Nat
    BY <1>1, <2>4
  <2> QED
    BY <1>3, <2>5 DEF AnswerOf, first
<1> QED
  BY <1>2, <1>3

LEMMA SourcesShape ==
    ASSUME NEW x \in Sources
    PROVE  /\ DOMAIN x \in SUBSET GeoSettings /\ \A s \in DOMAIN x : x[s] \in File
           /\ x = [s \in DOMAIN x |-> x[s]]
BY DEF Sources

LEMMA SourcesExtended ==
    ASSUME NEW x \in Sources, NEW f \in GeoSettings, NEW y \in File
    PROVE  /\ Extended(x, f, y) \in Sources
           /\ DOMAIN Extended(x, f, y) = DOMAIN x \cup {f}
           /\ Extended(x, f, y)[f] = y
           /\ \A s \in DOMAIN x : s # f => Extended(x, f, y)[s] = x[s]
<1>1. DOMAIN x \in SUBSET GeoSettings /\ \A s \in DOMAIN x : x[s] \in File
  BY SourcesShape
<1> DEFINE D == DOMAIN x \cup {f}
<1>2. D \in SUBSET GeoSettings
  BY <1>1
<1>3. Extended(x, f, y) \in [D -> File]
  BY <1>1 DEF Extended
<1>4. Extended(x, f, y) \in Sources
  BY <1>2, <1>3 DEF Sources
<1> QED
  BY <1>1, <1>4 DEF Extended

LEMMA NoSourcesType == NoSources \in Sources /\ DOMAIN NoSources = {}
<1>1. NoSources \in [{} -> File]
  BY DEF NoSources
<1>2. {} \in SUBSET GeoSettings
  OBVIOUS
<1> QED
  BY <1>1, <1>2 DEF Sources, NoSources

(* What the steps of a load do to it.                                        *)
LEMMA StatShape ==
    ASSUME GeoTyped, NEW t \in Threads2, StatSource(t)
    PROVE  /\ loadOf[t].at = "stat" /\ loadOf' \in [Threads2 -> GeoLoad]
           /\ loadOf'[t].at = "read" /\ loadOf'[t].file \in loadOf[t].todo
           /\ loadOf'[t].seen = geoFiles[loadOf'[t].file] /\ loadOf'[t].todo = loadOf[t].todo
           /\ loadOf'[t].sources = loadOf[t].sources /\ loadOf'[t].failed = loadOf[t].failed
           /\ loadOf'[t].began = loadOf[t].began /\ loadOf'[t].torn = loadOf[t].torn
           /\ \A u \in Threads2 : u # t => loadOf'[u] = loadOf[u]
<1>1. loadOf \in [Threads2 -> GeoLoad] /\ loadOf[t] \in GeoLoad /\ geoFiles \in [GeoSettings -> File]
  BY DEF GeoTyped
<1>2. PICK s \in loadOf[t].todo :
          loadOf' = [loadOf EXCEPT ![t] = [@ EXCEPT !.at = "read", !.file = s, !.seen = geoFiles[s]]]
  BY DEF StatSource
<1>3. s \in GeoSettings /\ s \in Nat /\ geoFiles[s] \in File
  BY <1>1, GeoAssumption DEF GeoLoad
<1> DEFINE next == [loadOf[t] EXCEPT !.at = "read", !.file = s, !.seen = geoFiles[s]]
<1>4. next \in GeoLoad
  BY <1>1, <1>3 DEF GeoLoad
<1>5. /\ next.at = "read" /\ next.file = s /\ next.seen = geoFiles[s] /\ next.todo = loadOf[t].todo
      /\ next.sources = loadOf[t].sources /\ next.failed = loadOf[t].failed
      /\ next.began = loadOf[t].began /\ next.torn = loadOf[t].torn
  BY <1>1 DEF GeoLoad
<1>6. loadOf' = [loadOf EXCEPT ![t] = next]
  BY <1>2
<1> HIDE DEF next
<1>7. loadOf'[t] = next /\ loadOf' \in [Threads2 -> GeoLoad] /\ \A u \in Threads2 : u # t => loadOf'[u] = loadOf[u]
  BY <1>1, <1>4, <1>6
<1>8. loadOf[t].at = "stat"
  BY DEF StatSource
<1> QED
  BY <1>5, <1>7, <1>8

Torn2(t) == loadOf[t].torn \/ loadOf[t].seen # geoFiles[loadOf[t].file]
ReadOf(t) == SourceFrom(loadOf[t].seen, geoFiles[loadOf[t].file])

LEMMA ReadShape ==
    ASSUME GeoTyped, PartsFit, NEW t \in Threads2, ReadSource(t)
    PROVE  /\ loadOf[t].at = "read" /\ loadOf' \in [Threads2 -> GeoLoad]
           /\ loadOf[t].file \in GeoSettings /\ loadOf[t].file \in loadOf[t].todo
           /\ loadOf'[t].at = "stat" /\ loadOf'[t].todo = loadOf[t].todo \ {loadOf[t].file}
           /\ loadOf'[t].began = loadOf[t].began /\ (loadOf'[t].torn <=> Torn2(t))
           /\ \/ /\ geoFiles[loadOf[t].file].content = 0
                 /\ loadOf'[t].sources = loadOf[t].sources
                 /\ loadOf'[t].failed = loadOf[t].failed \cup {loadOf[t].file}
              \/ /\ geoFiles[loadOf[t].file].content # 0
                 /\ DOMAIN loadOf'[t].sources = DOMAIN loadOf[t].sources \cup {loadOf[t].file}
                 /\ loadOf'[t].sources[loadOf[t].file] = ReadOf(t)
                 /\ \A s \in DOMAIN loadOf[t].sources :
                       s # loadOf[t].file => loadOf'[t].sources[s] = loadOf[t].sources[s]
                 /\ loadOf'[t].failed = loadOf[t].failed
           /\ ReadOf(t) \in File
           /\ \A u \in Threads2 : u # t => loadOf'[u] = loadOf[u]
<1>1. /\ loadOf \in [Threads2 -> GeoLoad] /\ loadOf[t] \in GeoLoad /\ geoFiles \in [GeoSettings -> File]
      /\ loadOf[t].at = "read"
  BY DEF GeoTyped, ReadSource
<1>2. loadOf[t].file \in loadOf[t].todo /\ loadOf[t].file \in GeoSettings
  BY <1>1 DEF PartsFit, LoadsAt, GeoLoad
<1>3. PICK load \in GeoLoad : load = loadOf[t]
  BY <1>1
<1>4. PICK found \in File : found = geoFiles[load.file]
  BY <1>1, <1>2, <1>3
<1>5. PICK source \in File : source = SourceFrom(load.seen, found)
  BY DEF SourceFrom, File, GeoLoad
<1>6. source.content = found.content
  BY <1>5 DEF SourceFrom
<1>7. PICK sources \in Sources :
          sources = IF source.content = 0 THEN load.sources ELSE Extended(load.sources, load.file, source)
  BY <1>2, <1>3, SourcesExtended DEF GeoLoad
<1>8. PICK failed \in SUBSET GeoSettings :
          failed = IF source.content = 0 THEN load.failed \cup {load.file} ELSE load.failed
  BY <1>2, <1>3 DEF GeoLoad
<1>9. PICK torn \in BOOLEAN : torn = (load.torn \/ load.seen # found)
  OBVIOUS
<1> DEFINE next == [load EXCEPT !.at = "stat", !.todo = @ \ {load.file},
                                !.sources = sources, !.failed = failed, !.torn = torn]
<1>10. loadOf' = [loadOf EXCEPT ![t] = next]
  BY <1>3, <1>4, <1>5, <1>7, <1>8, <1>9, Zenon DEF ReadSource
<1>11. next \in GeoLoad
  BY DEF GeoLoad
<1>12. /\ next.at = "stat" /\ next.todo = load.todo \ {load.file} /\ next.began = load.began
       /\ next.sources = sources /\ next.failed = failed /\ next.torn = torn
  BY DEF GeoLoad
<1> HIDE DEF next
<1>13. loadOf'[t] = next /\ loadOf' \in [Threads2 -> GeoLoad] /\ \A u \in Threads2 : u # t => loadOf'[u] = loadOf[u]
  BY <1>1, <1>10, <1>11
<1>14. next.torn <=> Torn2(t)
  BY <1>3, <1>4, <1>9, <1>12, Zenon DEF Torn2
<1>15. loadOf'[t].torn <=> Torn2(t)
  BY <1>13, <1>14, Zenon
<1>16. source = ReadOf(t)
  BY <1>3, <1>4, <1>5 DEF ReadOf
<1>17. \/ /\ found.content = 0 /\ next.sources = load.sources /\ next.failed = load.failed \cup {load.file}
       \/ /\ found.content # 0 /\ next.sources = Extended(load.sources, load.file, source)
          /\ next.failed = load.failed
  BY <1>6, <1>7, <1>8, <1>12
<1>18. \/ /\ found.content = 0 /\ next.sources = load.sources /\ next.failed = load.failed \cup {load.file}
       \/ /\ found.content # 0 /\ DOMAIN next.sources = DOMAIN load.sources \cup {load.file}
          /\ next.sources[load.file] = source
          /\ \A s \in DOMAIN load.sources : s # load.file => next.sources[s] = load.sources[s]
          /\ next.failed = load.failed
  <2>1. load.sources \in Sources /\ load.file \in GeoSettings
    BY <1>2, <1>3 DEF GeoLoad
  <2>2. PICK x \in Sources, f \in GeoSettings : x = load.sources /\ f = load.file
    BY <2>1
  <2>3. CASE found.content = 0 /\ next.sources = load.sources /\ next.failed = load.failed \cup {load.file}
    BY <2>3
  <2>4. CASE /\ found.content # 0 /\ next.sources = Extended(load.sources, load.file, source)
             /\ next.failed = load.failed
    <3>1. PICK e : e = Extended(x, f, source)
      OBVIOUS
    <3>2. DOMAIN e = DOMAIN x \cup {f} /\ e[f] = source /\ \A s \in DOMAIN x : s # f => e[s] = x[s]
      BY <3>1, SourcesExtended
    <3>3. next.sources = e
      BY <2>2, <2>4, <3>1
    <3> QED
      BY <2>2, <2>4, <3>2, <3>3
  <2> QED
    BY <1>17, <2>3, <2>4
<1> QED
  BY <1>1, <1>2, <1>3, <1>4, <1>5, <1>12, <1>13, <1>15, <1>16, <1>18

LEMMA PerhapsOne ==
    ASSUME NEW K, NEW x \in Perhaps(K), x # <<>>
    PROVE  x[1] \in K /\ x = <<x[1]>>
BY DEF Perhaps

LEMMA OneOf ==
    ASSUME NEW K, NEW y \in K
    PROVE  <<y>> \in Perhaps(K) /\ <<y>> # <<>> /\ <<y>>[1] = y
BY DEF Perhaps

LEMMA LoadingShape ==
    ASSUME GeoTyped
    PROVE  /\ Loading("stat") \in GeoLoad /\ Loading("stat").at = "stat" /\ Loading("stat").todo = geoConfigured
           /\ Loading("stat").sources = NoSources /\ Loading("stat").failed = {}
           /\ Loading("stat").began = loads + 1 /\ Loading("stat").torn = FALSE
           /\ NoLoad \in GeoLoad /\ NoLoad.at = "idle"
<1>1. loads \in Nat /\ geoConfigured \in SUBSET GeoSettings /\ [content |-> 0, stat |-> 0] \in File
  BY DEF GeoTyped, File
<1>2. NoLoad \in GeoLoad
  BY <1>1, NoSourcesType DEF NoLoad, GeoLoad
<1>3. NoLoad.at = "idle" /\ NoLoad.sources = NoSources /\ NoLoad.failed = {} /\ NoLoad.torn = FALSE
  BY DEF NoLoad
<1>4. PICK none \in GeoLoad : none = NoLoad
  BY <1>2
<1>8. PICK began \in Nat : began = loads + 1
  BY <1>1
<1> DEFINE next == [none EXCEPT !.at = "stat", !.began = began, !.todo = geoConfigured]
<1>5. next \in GeoLoad
  BY <1>1 DEF GeoLoad
<1>6. /\ next.at = "stat" /\ next.began = began /\ next.todo = geoConfigured
      /\ next.sources = none.sources /\ next.failed = none.failed /\ next.torn = none.torn
  BY DEF GeoLoad
<1>7. Loading("stat") = next
  BY <1>4, <1>8, Zenon DEF Loading
<1> HIDE DEF next
<1> QED
  BY <1>2, <1>3, <1>4, <1>5, <1>6, <1>7, <1>8

LEMMA IndexShape ==
    ASSUME GeoTyped, NEW t \in Threads2
    PROVE  /\ LoadedIndex(t) \in GeoIndex /\ LoadedIndex(t).sources = loadOf[t].sources
           /\ LoadedIndex(t).failed = loadOf[t].failed /\ LoadedIndex(t).began = loadOf[t].began
           /\ LoadedIndex(t).torn = loadOf[t].torn
           /\ EmptyIndex \in GeoIndex /\ EmptyIndex.sources = NoSources /\ EmptyIndex.began = 0
<1>1. loadOf[t] \in GeoLoad
  BY DEF GeoTyped
<1>2. LoadedIndex(t) \in GeoIndex
  BY <1>1 DEF LoadedIndex, GeoLoad, GeoIndex
<1>3. EmptyIndex \in GeoIndex
  BY NoSourcesType DEF EmptyIndex, GeoIndex
<1> QED
  BY <1>1, <1>2, <1>3 DEF LoadedIndex, EmptyIndex

LEMMA PrintShape ==
    ASSUME NEW x \in GeoIndex
    PROVE  /\ FingerprintOf(x) \in Prints /\ DOMAIN FingerprintOf(x) = DOMAIN x.sources
           /\ \A s \in DOMAIN x.sources : FingerprintOf(x)[s][1] = x.sources[s].stat
<1>1. DOMAIN x.sources \in SUBSET GeoSettings /\ \A s \in DOMAIN x.sources : x.sources[s] \in File
  BY SourcesShape DEF GeoIndex
<1>2. FingerprintOf(x) \in [DOMAIN x.sources -> Nat \X Nat]
  <2> SUFFICES ASSUME NEW s \in DOMAIN x.sources
               PROVE  <<x.sources[s].stat, IF s \in BinaryFiles THEN x.sources[s].content ELSE 0>> \in Nat \X Nat
    BY DEF FingerprintOf
  <2> QED
    BY <1>1 DEF File
<1>3. FingerprintOf(x) \in Prints
  BY <1>1, <1>2 DEF Prints
<1> QED
  BY <1>3 DEF FingerprintOf

LEMMA LookupTrue ==
    ASSUME NEW x, NEW ip \in Addresses, MemoOf(x)
    PROVE  LookupIn(x, ip) = AnswerOf(x, ip)
BY DEF LookupIn, MemoOf

LEMMA WaitShape ==
    ASSUME GeoTyped, loadOf["writer"].at = "idle",
           loadOf' = [loadOf EXCEPT !["writer"] = [@ EXCEPT !.at = "wait"]]
    PROVE  /\ loadOf' \in [Threads2 -> GeoLoad] /\ loadOf'["writer"].at = "wait"
           /\ loadOf'["reloader"] = loadOf["reloader"]
<1>1. loadOf \in [Threads2 -> GeoLoad] /\ "writer" \in Threads2 /\ "reloader" \in Threads2 /\ "writer" # "reloader"
  BY DEF GeoTyped, Threads2
<1>2. PICK load \in GeoLoad : load = loadOf["writer"]
  BY <1>1
<1> DEFINE next == [load EXCEPT !.at = "wait"]
<1>3. next \in GeoLoad
  BY DEF GeoLoad
<1>4. next.at = "wait"
  BY DEF GeoLoad
<1>5. loadOf' = [loadOf EXCEPT !["writer"] = next]
  BY <1>2
<1> HIDE DEF next
<1> QED
  BY <1>1, <1>3, <1>4, <1>5

(* Every write of the loads but those of a load in itself puts one of two    *)
(* records in.                                                               *)
LEMMA PutShape ==
    ASSUME GeoTyped, NEW t \in Threads2, NEW l \in GeoLoad, loadOf' = [loadOf EXCEPT ![t] = l]
    PROVE  /\ loadOf' \in [Threads2 -> GeoLoad] /\ loadOf'[t] = l
           /\ \A u \in Threads2 : u # t => loadOf'[u] = loadOf[u]
BY DEF GeoTyped

LEMMA GeoTypedInit == GeoInit => GeoTyped
<1> SUFFICES ASSUME GeoInit PROVE GeoTyped
  OBVIOUS
<1>1. geoFiles \in [GeoSettings -> File]
  BY DEF GeoInit, File
<1>2. NoLoad \in GeoLoad
  <2>1. [content |-> 0, stat |-> 0] \in File
    BY DEF File
  <2> QED
    BY <2>1, NoSourcesType DEF NoLoad, GeoLoad
<1>3. loadOf \in [Threads2 -> GeoLoad]
  BY <1>2 DEF GeoInit
<1>4. geoCache \in Perhaps(GeoIndex) /\ heldIndex \in Perhaps(GeoIndex) /\ geoStamp \in Perhaps(Prints)
  <2>1. geoCache = <<>> /\ heldIndex = <<>> /\ geoStamp = <<>>
    BY DEF GeoInit
  <2> QED
    BY <2>1, Zenon DEF Perhaps
<1>5. preserved \in BOOLEAN
  BY DEF GeoInit
<1>6. geoRows \in Seq(GeoRow) /\ sideLoads \in Nat /\ loads \in Nat /\ geoConfigured \in SUBSET GeoSettings
  BY DEF GeoInit
<1> QED
  BY <1>1, <1>3, <1>4, <1>5, <1>6 DEF GeoTyped

LEMMA LoadsTyped ==
    ASSUME GeoTyped, PartsFit, GeoNext
    PROVE  loadOf' \in [Threads2 -> GeoLoad]
<1>0. "writer" \in Threads2 /\ "reloader" \in Threads2 /\ loadOf \in [Threads2 -> GeoLoad]
  BY DEF Threads2, GeoTyped
<1>1. ASSUME NEW t \in Threads2, StatSource(t) PROVE loadOf' \in [Threads2 -> GeoLoad]
  BY <1>1, StatShape
<1>2. ASSUME NEW t \in Threads2, ReadSource(t) PROVE loadOf' \in [Threads2 -> GeoLoad]
  BY <1>2, ReadShape
<1>3. CASE AskIndex
  BY <1>0, <1>3, WaitShape DEF AskIndex
<1>4. CASE LockAndLoad
  BY <1>0, <1>4, PutShape, LoadingShape DEF LockAndLoad, StartLoad
<1>5. CASE InstallFirst \/ FirstLoadRaises
  BY <1>0, <1>5, PutShape, LoadingShape DEF InstallFirst, FirstLoadRaises
<1>6. CASE ReloadBegins \/ Reload2 \/ ReloadRaises
  BY <1>0, <1>6, PutShape, LoadingShape DEF ReloadBegins, Reload2, ReloadRaises, ReloadEnds
<1>7. CASE StartProcess
  BY <1>7, LoadingShape DEF StartProcess
<1>8. CASE (\E ip \in Addresses : StoreEvent(ip)) \/ Backfill2
  BY <1>0, <1>8 DEF StoreEvent, Backfill2
<1>9. CASE \E s \in GeoSettings, c \in Contents, asBefore \in BOOLEAN : SideLoad(s, c, asBefore)
  BY <1>0, <1>9 DEF SideLoad
<1> QED
  BY <1>1, <1>2, <1>3, <1>4, <1>5, <1>6, <1>7, <1>8, <1>9 DEF GeoNext

LEMMA RowsTyped ==
    ASSUME GeoTyped, MemosTrue, GeoNext
    PROVE  geoRows' \in Seq(GeoRow)
<1>0. geoRows \in Seq(GeoRow)
  BY DEF GeoTyped
<1>1. ASSUME NEW ip \in Addresses, StoreEvent(ip) PROVE geoRows' \in Seq(GeoRow)
  <2>1. heldIndex # <<>> /\ heldIndex[1] \in GeoIndex /\ MemoOf(heldIndex[1])
    BY <1>1, PerhapsOne DEF StoreEvent, GeoTyped, MemosTrue
  <2>2. LookupIn(heldIndex[1], ip) \in Nat
    BY <2>1, LookupTrue, AnswerType DEF GeoIndex
  <2>3. PICK late \in BOOLEAN : late = (geoCache # heldIndex)
    OBVIOUS
  <2>4. geoRows' = Append(geoRows, [ip |-> ip, answer |-> LookupIn(heldIndex[1], ip), late |-> late])
    BY <1>1, <2>3, Zenon DEF StoreEvent
  <2>5. [ip |-> ip, answer |-> LookupIn(heldIndex[1], ip), late |-> late] \in GeoRow
    BY <2>2 DEF GeoRow
  <2> QED
    BY <1>0, <2>4, <2>5
<1>2. CASE Backfill2
  <2>1. geoCache # <<>> /\ geoCache[1] \in GeoIndex /\ MemoOf(geoCache[1])
    BY <1>2, PerhapsOne DEF Backfill2, GeoTyped, MemosTrue
  <2>2. \A ip \in Addresses : LookupIn(geoCache[1], ip) \in Nat
    BY <2>1, LookupTrue, AnswerType DEF GeoIndex
  <2>3. geoRows' = [i \in DOMAIN geoRows |->
                     [geoRows[i] EXCEPT !.answer = LookupIn(geoCache[1], geoRows[i].ip), !.late = FALSE]]
    BY <1>2 DEF Backfill2
  <2>4. ASSUME NEW i \in DOMAIN geoRows
        PROVE  [geoRows[i] EXCEPT !.answer = LookupIn(geoCache[1], geoRows[i].ip), !.late = FALSE] \in GeoRow
    <3>1. geoRows[i] \in GeoRow
      BY <1>0
    <3>2. PICK answer \in Nat : answer = LookupIn(geoCache[1], geoRows[i].ip)
      BY <2>2, <3>1 DEF GeoRow
    <3>3. [geoRows[i] EXCEPT !.answer = answer, !.late = FALSE] \in GeoRow
      BY <3>1 DEF GeoRow
    <3> QED
      BY <3>2, <3>3
  <2>5. PICK n \in Nat : DOMAIN geoRows = 1 .. n
    BY <1>0
  <2>6. geoRows' \in [1 .. n -> GeoRow]
    BY <2>3, <2>4, <2>5
  <2> QED
    BY <2>6
<1>3. CASE \E t \in Threads2 : StatSource(t) \/ ReadSource(t)
  BY <1>0, <1>3 DEF StatSource, ReadSource, KeepsStore
<1>4. CASE AskIndex \/ LockAndLoad \/ InstallFirst \/ FirstLoadRaises \/ ReloadBegins \/ StartProcess
  BY <1>0, <1>4 DEF AskIndex, LockAndLoad, InstallFirst, FirstLoadRaises, ReloadBegins, StartProcess, KeepsStore
<1>5. CASE Reload2 \/ ReloadRaises
  BY <1>0, <1>5 DEF Reload2, ReloadRaises, ReloadEnds
<1>6. CASE \E s \in GeoSettings, c \in Contents, asBefore \in BOOLEAN : SideLoad(s, c, asBefore)
  BY <1>0, <1>6 DEF SideLoad, KeepsStore
<1> QED
  BY <1>1, <1>2, <1>3, <1>4, <1>5, <1>6 DEF GeoNext

LEMMA FilesTyped ==
    ASSUME GeoTyped, GeoNext
    PROVE  /\ geoFiles' \in [GeoSettings -> File] /\ geoConfigured' \in SUBSET GeoSettings
           /\ preserved' \in BOOLEAN /\ sideLoads' \in Nat /\ loads' \in Nat
<1>0. /\ geoFiles \in [GeoSettings -> File] /\ geoConfigured \in SUBSET GeoSettings
      /\ preserved \in BOOLEAN /\ sideLoads \in Nat /\ loads \in Nat
  BY DEF GeoTyped
<1>1. ASSUME NEW s \in GeoSettings, NEW c \in Contents, NEW asBefore \in BOOLEAN, SideLoad(s, c, asBefore)
      PROVE  /\ geoFiles' \in [GeoSettings -> File] /\ geoConfigured' = geoConfigured
             /\ preserved' \in BOOLEAN /\ sideLoads' \in Nat /\ loads' = loads
  <2>1. geoFiles[s] \in File /\ c \in Nat
    BY <1>0, GeoAssumption
  <2>2. PICK stat \in Nat : stat = IF asBefore THEN geoFiles[s].stat ELSE sideLoads + 1
    BY <1>0, <2>1 DEF File
  <2>3. [content |-> c, stat |-> stat] \in File
    BY <2>1 DEF File
  <2>4. geoFiles' = [geoFiles EXCEPT ![s] = [content |-> c, stat |-> stat]]
    BY <1>1, <2>2 DEF SideLoad
  <2>5. preserved' = (preserved \/ asBefore)
    BY <1>1, Zenon DEF SideLoad
  <2>6. preserved' \in BOOLEAN
    BY <2>5, Zenon
  <2> QED
    BY <1>0, <1>1, <2>3, <2>4, <2>6 DEF SideLoad
<1>2. CASE \E t \in Threads2 : StatSource(t) \/ ReadSource(t)
  BY <1>0, <1>2 DEF StatSource, ReadSource, KeepsFiles
<1>3. CASE AskIndex \/ LockAndLoad \/ InstallFirst \/ FirstLoadRaises \/ ReloadBegins
  BY <1>0, <1>3 DEF AskIndex, LockAndLoad, StartLoad, InstallFirst, FirstLoadRaises, ReloadBegins, KeepsFiles
<1>4. CASE Reload2 \/ ReloadRaises
  BY <1>0, <1>4 DEF Reload2, ReloadRaises, ReloadEnds, KeepsFiles
<1>5. CASE (\E ip \in Addresses : StoreEvent(ip)) \/ Backfill2
  BY <1>0, <1>5 DEF StoreEvent, Backfill2, KeepsFiles
<1>6. CASE StartProcess
  BY <1>0, <1>6 DEF StartProcess
<1> QED
  BY <1>0, <1>1, <1>2, <1>3, <1>4, <1>5, <1>6 DEF GeoNext

(* What a reload leaves as the live index: what it loaded, or what was.      *)
LEMMA ReloadShape ==
    ASSUME GeoTyped, Reload2
    PROVE  /\ HasLoaded("reloader") /\ geoCache' # <<>>
           /\ \/ geoCache' = geoCache /\ geoCache # <<>>
              \/ geoCache' = <<LoadedIndex("reloader")>>
           /\ geoCache # <<>> /\ HasSources(geoCache[1]) /\ geoCache' # geoCache =>
                 HasSources(LoadedIndex("reloader")) \/ loadOf["reloader"].failed = {}
<1>1. HasLoaded("reloader") /\ geoCache' = InstalledBy(LoadedIndex("reloader"))
  BY DEF Reload2
<1>2. LoadedIndex("reloader").failed = loadOf["reloader"].failed
  BY DEF LoadedIndex
<1> QED
  BY <1>1, <1>2 DEF InstalledBy

LEMMA IndexTyped ==
    ASSUME GeoTyped, GeoNext
    PROVE  /\ geoCache' \in Perhaps(GeoIndex) /\ heldIndex' \in Perhaps(GeoIndex)
           /\ geoStamp' \in Perhaps(Prints)
<1>0. /\ geoCache \in Perhaps(GeoIndex) /\ heldIndex \in Perhaps(GeoIndex) /\ geoStamp \in Perhaps(Prints)
      /\ \A K : <<>> \in Perhaps(K)
      /\ "writer" \in Threads2 /\ "reloader" \in Threads2
  BY DEF GeoTyped, Perhaps, Threads2
<1>1. <<EmptyIndex>> \in Perhaps(GeoIndex) /\ \A t \in Threads2 : <<LoadedIndex(t)>> \in Perhaps(GeoIndex)
  BY <1>0, IndexShape, OneOf
<1>2. ASSUME NEW x \in GeoIndex, Stamped2(x) PROVE geoStamp' \in Perhaps(Prints)
  BY <1>0, <1>2, PrintShape, OneOf DEF Stamped2
<1>3. CASE \E t \in Threads2 : StatSource(t) \/ ReadSource(t)
  BY <1>0, <1>3 DEF StatSource, ReadSource, KeepsStore
<1>4. CASE AskIndex \/ LockAndLoad \/ ReloadBegins
  BY <1>0, <1>4 DEF AskIndex, LockAndLoad, StartLoad, ReloadBegins, KeepsStore
<1>5. CASE InstallFirst \/ FirstLoadRaises
  BY <1>0, <1>1, <1>5 DEF InstallFirst, FirstLoadRaises, KeepsStore
<1>6. CASE Reload2
  <2>1. geoCache' \in Perhaps(GeoIndex) /\ geoCache' # <<>>
    BY <1>0, <1>1, <1>6, ReloadShape
  <2>2. geoCache'[1] \in GeoIndex
    BY <2>1, PerhapsOne
  <2>3. geoStamp' \in Perhaps(Prints)
    BY <1>2, <1>6, <2>2 DEF Reload2
  <2> QED
    BY <1>0, <1>6, <2>1, <2>3 DEF Reload2, ReloadEnds
<1>7. CASE ReloadRaises
  <2>1. (IF geoCache = <<>> THEN EmptyIndex ELSE geoCache[1]) \in GeoIndex
    BY <1>0, IndexShape, PerhapsOne
  <2>2. geoStamp' \in Perhaps(Prints)
    BY <1>2, <1>7, <2>1 DEF ReloadRaises
  <2> QED
    BY <1>0, <1>7, <2>2 DEF ReloadRaises, ReloadEnds
<1>8. CASE \E ip \in Addresses : StoreEvent(ip)
  BY <1>0, <1>8 DEF StoreEvent
<1>9. CASE Backfill2
  <2>1. geoCache[1] \in GeoIndex
    BY <1>0, <1>9, PerhapsOne DEF Backfill2
  <2>2. geoStamp' \in Perhaps(Prints)
    BY <1>0, <1>9, <2>1, PrintShape, OneOf DEF Backfill2
  <2> QED
    BY <1>0, <1>9, <2>2 DEF Backfill2
<1>10. CASE StartProcess
  BY <1>0, <1>10 DEF StartProcess
<1>11. CASE \E s \in GeoSettings, c \in Contents, asBefore \in BOOLEAN : SideLoad(s, c, asBefore)
  BY <1>0, <1>11 DEF SideLoad, KeepsStore
<1> QED
  BY <1>3, <1>4, <1>5, <1>6, <1>7, <1>8, <1>9, <1>10, <1>11 DEF GeoNext

LEMMA GeoTypedNext == ASSUME GeoTyped, PartsFit, MemosTrue, GeoNext PROVE GeoTyped'
BY LoadsTyped, RowsTyped, FilesTyped, IndexTyped DEF GeoTyped

LEMMA OneLoadsNext == ASSUME GeoTyped, PartsFit, OneLoads, GeoNext PROVE OneLoads'
<1>0. /\ loadOf \in [Threads2 -> GeoLoad] /\ "writer" \in Threads2 /\ "reloader" \in Threads2
      /\ \A t \in Threads2 : t = "writer" \/ t = "reloader"
  BY DEF GeoTyped, Threads2
<1>l. /\ Loading("stat") \in GeoLoad /\ Loading("stat").at = "stat" /\ NoLoad \in GeoLoad /\ NoLoad.at = "idle"
  BY LoadingShape
<1>1. ASSUME NEW t \in Threads2, StatSource(t) PROVE OneLoads'
  <2>1. geoLock' = geoLock /\ geoCache' = geoCache
    BY <1>1 DEF StatSource
  <2>2. LoadsAt(t) /\ \A u \in Threads2 : u # t => loadOf'[u] = loadOf[u]
    BY <1>1, StatShape DEF LoadsAt
  <2>3. \A u \in Threads2 : LoadsAt(u)' => LoadsAt(u)
    BY <2>2 DEF LoadsAt
  <2> QED
    BY <1>0, <2>1, <2>3 DEF OneLoads
<1>2. ASSUME NEW t \in Threads2, ReadSource(t) PROVE OneLoads'
  <2>1. geoLock' = geoLock /\ geoCache' = geoCache
    BY <1>2 DEF ReadSource
  <2>2. LoadsAt(t) /\ \A u \in Threads2 : u # t => loadOf'[u] = loadOf[u]
    BY <1>2, ReadShape DEF LoadsAt
  <2>3. \A u \in Threads2 : LoadsAt(u)' => LoadsAt(u)
    BY <2>2 DEF LoadsAt
  <2> QED
    BY <1>0, <2>1, <2>3 DEF OneLoads
<1>3. CASE AskIndex
  <2>1. /\ geoLock' = geoLock /\ geoCache' = geoCache
        /\ loadOf' = loadOf \/ (loadOf'["writer"].at = "wait" /\ loadOf'["reloader"] = loadOf["reloader"])
    BY <1>3, WaitShape DEF AskIndex
  <2> QED
    BY <1>0, <2>1 DEF OneLoads, LoadsAt
<1>4. CASE LockAndLoad
  <2>1. geoLock = "free" /\ geoCache' = geoCache
    BY <1>4 DEF LockAndLoad, StartLoad
  <2>2. ~LoadsAt("reloader") /\ loadOf'["reloader"] = loadOf["reloader"]
    BY <1>0, <1>4, <1>l, <2>1 DEF OneLoads, LockAndLoad, StartLoad
  <2>3. \/ loadOf'["writer"] = NoLoad /\ geoLock' = geoLock
        \/ geoCache = <<>> /\ geoLock' = "writer"
    BY <1>0, <1>4 DEF LockAndLoad, StartLoad
  <2> QED
    BY <1>0, <1>l, <2>1, <2>2, <2>3 DEF OneLoads, LoadsAt
<1>5. CASE InstallFirst \/ FirstLoadRaises
  <2>1. LoadsAt("writer") /\ loadOf'["writer"] = NoLoad /\ loadOf'["reloader"] = loadOf["reloader"]
    BY <1>0, <1>5, <1>l DEF InstallFirst, FirstLoadRaises, HasLoaded, LoadsAt
  <2>2. ~LoadsAt("reloader")
    BY <1>0, <2>1 DEF OneLoads
  <2> QED
    BY <1>0, <1>l, <2>1, <2>2 DEF OneLoads, LoadsAt
<1>6. CASE ReloadBegins
  <2>1. /\ geoLock = "free" /\ geoLock' = "reloader" /\ geoCache' = geoCache
        /\ loadOf'["writer"] = loadOf["writer"]
    BY <1>0, <1>6, <1>l DEF ReloadBegins
  <2>2. ~LoadsAt("writer")
    BY <1>0, <2>1 DEF OneLoads
  <2> QED
    BY <1>0, <2>1, <2>2 DEF OneLoads, LoadsAt
<1>7. CASE Reload2 \/ ReloadRaises
  <2>1. LoadsAt("reloader") /\ loadOf'["reloader"] = NoLoad /\ loadOf'["writer"] = loadOf["writer"]
    BY <1>0, <1>7, <1>l DEF Reload2, ReloadRaises, ReloadEnds, HasLoaded, LoadsAt
  <2>2. ~LoadsAt("writer")
    BY <1>0, <2>1 DEF OneLoads
  <2> QED
    BY <1>0, <1>l, <2>1, <2>2 DEF OneLoads, LoadsAt
<1>8. CASE StartProcess
  BY <1>0, <1>l, <1>8 DEF StartProcess, OneLoads, LoadsAt
<1>9. CASE (\E ip \in Addresses : StoreEvent(ip)) \/ Backfill2
  BY <1>0, <1>9 DEF StoreEvent, Backfill2, OneLoads, LoadsAt
<1>10. CASE \E s \in GeoSettings, c \in Contents, asBefore \in BOOLEAN : SideLoad(s, c, asBefore)
  BY <1>0, <1>10 DEF SideLoad, OneLoads, LoadsAt
<1> QED
  BY <1>1, <1>2, <1>3, <1>4, <1>5, <1>6, <1>7, <1>8, <1>9, <1>10 DEF GeoNext

(* A load that begins has every part before it, one that has ended none.     *)
LEMMA PartsOf ==
    ASSUME NEW x, NEW y, NEW todo, y.sources = x.sources, y.failed = x.failed, Parts(x, todo)
    PROVE  Parts(y, todo)
BY DEF Parts

LEMMA PartsFitNext == ASSUME GeoTyped, PartsFit, OneLoads, GeoNext PROVE PartsFit'
<1>0. /\ loadOf \in [Threads2 -> GeoLoad] /\ "writer" \in Threads2 /\ "reloader" \in Threads2
      /\ \A t \in Threads2 : t = "writer" \/ t = "reloader"
  BY DEF GeoTyped, Threads2
<1>l. /\ NoLoad \in GeoLoad /\ NoLoad.at = "idle" /\ Loading("stat") \in GeoLoad
      /\ Loading("stat").at = "stat" /\ Loading("stat").todo = geoConfigured
      /\ Parts(Loading("stat"), geoConfigured)
  BY LoadingShape, NoSourcesType DEF Parts
<1>1. ASSUME NEW t \in Threads2, StatSource(t) PROVE PartsFit'
  <2>1. geoConfigured' = geoConfigured /\ geoCache' = geoCache
    BY <1>1 DEF StatSource, KeepsFiles
  <2>2. ASSUME NEW u \in Threads2, LoadsAt(u)'
        PROVE  (Parts(loadOf[u], loadOf[u].todo) /\ (loadOf[u].at = "read" => loadOf[u].file \in loadOf[u].todo))'
    BY <1>1, <2>1, <2>2, StatShape DEF PartsFit, LoadsAt, Parts
  <2>3. (geoCache # <<>> => Parts(geoCache[1], {}))'
    BY <2>1 DEF PartsFit, Parts
  <2> QED
    BY <2>2, <2>3 DEF PartsFit
<1>2. ASSUME NEW t \in Threads2, ReadSource(t) PROVE PartsFit'
  <2>1. geoConfigured' = geoConfigured /\ geoCache' = geoCache
    BY <1>2 DEF ReadSource, KeepsFiles
  <2>2. Parts(loadOf[t], loadOf[t].todo)'
    <3>1. Parts(loadOf[t], loadOf[t].todo) /\ loadOf[t].sources \in Sources
      BY <1>0, <1>2, ReadShape DEF PartsFit, LoadsAt, GeoLoad
    <3>2. /\ loadOf[t].file \in GeoSettings /\ loadOf[t].file \in loadOf[t].todo
          /\ loadOf'[t].todo = loadOf[t].todo \ {loadOf[t].file} /\ ReadOf(t) \in File
      BY <1>2, ReadShape
    <3>3. CASE /\ loadOf'[t].sources = loadOf[t].sources
               /\ loadOf'[t].failed = loadOf[t].failed \cup {loadOf[t].file}
      BY <2>1, <3>1, <3>2, <3>3 DEF Parts
    <3>4. CASE /\ geoFiles[loadOf[t].file].content # 0
               /\ DOMAIN loadOf'[t].sources = DOMAIN loadOf[t].sources \cup {loadOf[t].file}
               /\ loadOf'[t].sources[loadOf[t].file] = ReadOf(t)
               /\ \A s \in DOMAIN loadOf[t].sources :
                     s # loadOf[t].file => loadOf'[t].sources[s] = loadOf[t].sources[s]
               /\ loadOf'[t].failed = loadOf[t].failed
      <4>1. ReadOf(t).content # 0
        BY <3>4 DEF ReadOf, SourceFrom
      <4>3. /\ DOMAIN loadOf[t].sources \cup loadOf[t].failed \cup loadOf[t].todo = geoConfigured
            /\ DOMAIN loadOf[t].sources \cap loadOf[t].failed = {}
            /\ loadOf[t].todo \cap (DOMAIN loadOf[t].sources \cup loadOf[t].failed) = {}
            /\ \A s \in DOMAIN loadOf[t].sources : loadOf[t].sources[s].content # 0
        BY <3>1 DEF Parts
      <4>4. \A s \in DOMAIN loadOf'[t].sources : loadOf'[t].sources[s].content # 0
        BY <3>4, <4>1, <4>3
      <4>5. /\ DOMAIN loadOf'[t].sources \cup loadOf'[t].failed \cup loadOf'[t].todo = geoConfigured
            /\ DOMAIN loadOf'[t].sources \cap loadOf'[t].failed = {}
            /\ loadOf'[t].todo \cap (DOMAIN loadOf'[t].sources \cup loadOf'[t].failed) = {}
        BY <3>2, <3>4, <4>3
      <4> QED
        BY <2>1, <4>4, <4>5 DEF Parts
    <3> QED
      BY <1>2, <3>3, <3>4, ReadShape
  <2>3. ASSUME NEW u \in Threads2, LoadsAt(u)'
        PROVE  (Parts(loadOf[u], loadOf[u].todo) /\ (loadOf[u].at = "read" => loadOf[u].file \in loadOf[u].todo))'
    <3>1. CASE u = t
      BY <1>2, <2>2, <3>1, ReadShape
    <3>2. CASE u # t
      BY <1>2, <2>1, <2>3, <3>2, ReadShape DEF PartsFit, LoadsAt, Parts
    <3> QED
      BY <3>1, <3>2
  <2>4. (geoCache # <<>> => Parts(geoCache[1], {}))'
    BY <2>1 DEF PartsFit, Parts
  <2> QED
    BY <2>3, <2>4 DEF PartsFit
<1>3. ASSUME geoConfigured' = geoConfigured, geoCache' = geoCache,
             \A u \in Threads2 : LoadsAt(u)' => loadOf'[u] = loadOf[u] \/ loadOf'[u] = Loading("stat")
      PROVE  PartsFit'
  <2>1. ASSUME NEW u \in Threads2, LoadsAt(u)'
        PROVE  (Parts(loadOf[u], loadOf[u].todo) /\ (loadOf[u].at = "read" => loadOf[u].file \in loadOf[u].todo))'
    <3>1. CASE loadOf'[u] = loadOf[u]
      BY <1>3, <2>1, <3>1 DEF PartsFit, Parts, LoadsAt
    <3>2. CASE loadOf'[u] = Loading("stat")
      BY <1>3, <1>l, <3>2 DEF Parts
    <3> QED
      BY <1>3, <2>1, <3>1, <3>2
  <2>2. (geoCache # <<>> => Parts(geoCache[1], {}))'
    BY <1>3 DEF PartsFit, Parts
  <2> QED
    BY <2>1, <2>2 DEF PartsFit
<1>4. CASE AskIndex
  <2>1. /\ geoConfigured' = geoConfigured /\ geoCache' = geoCache
        /\ loadOf' = loadOf \/ (loadOf'["writer"].at = "wait" /\ loadOf'["reloader"] = loadOf["reloader"])
    BY <1>4, WaitShape DEF AskIndex, KeepsFiles
  <2> QED
    BY <1>0, <1>3, <2>1 DEF LoadsAt
<1>5. CASE LockAndLoad \/ ReloadBegins
  <2>1. geoConfigured' = geoConfigured /\ geoCache' = geoCache
    BY <1>5 DEF LockAndLoad, ReloadBegins, KeepsFiles
  <2>2. \E t \in Threads2, l \in {NoLoad, Loading("stat")} : loadOf' = [loadOf EXCEPT ![t] = l]
    BY <1>0, <1>5 DEF LockAndLoad, StartLoad, ReloadBegins
  <2>3. \A u \in Threads2 : LoadsAt(u)' => loadOf'[u] = loadOf[u] \/ loadOf'[u] = Loading("stat")
    BY <1>0, <1>l, <2>2 DEF LoadsAt
  <2> QED
    BY <1>3, <2>1, <2>3
<1>6. ASSUME NEW t \in Threads2, HasLoaded(t), geoCache' = geoCache \/ geoCache' = <<LoadedIndex(t)>>,
             loadOf' = [loadOf EXCEPT ![t] = NoLoad], geoConfigured' = geoConfigured
      PROVE  PartsFit'
  <2>1. \A u \in Threads2 : LoadsAt(u)' => loadOf'[u] = loadOf[u]
    BY <1>0, <1>6, <1>l DEF LoadsAt
  <2>2. CASE geoCache' = geoCache
    BY <1>3, <1>6, <2>1, <2>2
  <2>3. CASE geoCache' = <<LoadedIndex(t)>>
    <3>1. Parts(loadOf[t], {})
      BY <1>6 DEF PartsFit, HasLoaded, LoadsAt
    <3>2. Parts(LoadedIndex(t), {})
      BY <3>1, IndexShape, PartsOf
    <3>3. (geoCache # <<>> => Parts(geoCache[1], {}))'
      <4>1. geoCache'[1] = LoadedIndex(t)
        BY <2>3
      <4> QED
        BY <1>6, <3>2, <4>1 DEF Parts
    <3>4. ASSUME NEW u \in Threads2, LoadsAt(u)'
          PROVE  (Parts(loadOf[u], loadOf[u].todo) /\ (loadOf[u].at = "read" => loadOf[u].file \in loadOf[u].todo))'
      BY <1>6, <2>1, <3>4 DEF PartsFit, Parts, LoadsAt
    <3> QED
      BY <3>3, <3>4 DEF PartsFit
  <2> QED
    BY <1>6, <2>2, <2>3
<1>7. CASE InstallFirst
  BY <1>0, <1>6, <1>7 DEF InstallFirst, KeepsFiles
<1>8. CASE Reload2
  <2>1. HasLoaded("reloader") /\ (geoCache' = geoCache \/ geoCache' = <<LoadedIndex("reloader")>>)
    BY <1>8, ReloadShape
  <2> QED
    BY <1>0, <1>6, <1>8, <2>1 DEF Reload2, ReloadEnds, KeepsFiles
<1>9. CASE FirstLoadRaises \/ ReloadRaises
  <2>1. geoConfigured' = geoConfigured /\ geoCache' = geoCache
    BY <1>9 DEF FirstLoadRaises, ReloadRaises, ReloadEnds, KeepsFiles
  <2>2. \E t \in Threads2 : loadOf' = [loadOf EXCEPT ![t] = NoLoad]
    BY <1>0, <1>9 DEF FirstLoadRaises, ReloadRaises, ReloadEnds
  <2>3. \A u \in Threads2 : LoadsAt(u)' => loadOf'[u] = loadOf[u]
    BY <1>0, <1>l, <2>2 DEF LoadsAt
  <2> QED
    BY <1>3, <2>1, <2>3
<1>10. CASE StartProcess
  <2>1. geoCache' = <<>> /\ \A t \in Threads2 : ~LoadsAt(t)'
    BY <1>10, <1>l DEF StartProcess, LoadsAt
  <2> QED
    BY <2>1 DEF PartsFit
<1>11. CASE (\E ip \in Addresses : StoreEvent(ip)) \/ Backfill2
  BY <1>3, <1>11 DEF StoreEvent, Backfill2, KeepsFiles
<1>12. CASE \E s \in GeoSettings, c \in Contents, asBefore \in BOOLEAN : SideLoad(s, c, asBefore)
  BY <1>3, <1>12 DEF SideLoad
<1> QED
  BY <1>1, <1>2, <1>4, <1>5, <1>7, <1>8, <1>9, <1>10, <1>11, <1>12 DEF GeoNext

LEMMA BeganType ==
    ASSUME GeoTyped
    PROVE  /\ geoCache # <<>> => geoCache[1] \in GeoIndex /\ geoCache[1].began \in Nat
           /\ heldIndex # <<>> => heldIndex[1] \in GeoIndex /\ heldIndex[1].began \in Nat
           /\ \A t \in Threads2 : loadOf[t] \in GeoLoad /\ loadOf[t].began \in Nat
           /\ loads \in Nat
<1>1. geoCache # <<>> => geoCache[1] \in GeoIndex
  BY PerhapsOne DEF GeoTyped
<1>2. heldIndex # <<>> => heldIndex[1] \in GeoIndex
  BY PerhapsOne DEF GeoTyped
<1>3. \A t \in Threads2 : loadOf[t] \in GeoLoad
  BY DEF GeoTyped
<1> QED
  BY <1>1, <1>2, <1>3 DEF GeoIndex, GeoLoad, GeoTyped

LEMMA NumberedNext == ASSUME GeoTyped, PartsFit, OneLoads, Numbered, GeoNext PROVE Numbered'
<1>0. /\ loadOf \in [Threads2 -> GeoLoad] /\ "writer" \in Threads2 /\ "reloader" \in Threads2
      /\ \A t \in Threads2 : t = "writer" \/ t = "reloader"
  BY DEF GeoTyped, Threads2
<1>l. /\ NoLoad \in GeoLoad /\ NoLoad.at = "idle" /\ Loading("stat") \in GeoLoad
      /\ Loading("stat").at = "stat" /\ Loading("stat").began = loads + 1
  BY LoadingShape
<1>t. /\ geoCache # <<>> => geoCache[1].began \in Nat
      /\ heldIndex # <<>> => heldIndex[1].began \in Nat
      /\ \A t \in Threads2 : loadOf[t].began \in Nat
      /\ loads \in Nat
  BY BeganType
<1>a. ASSUME UNCHANGED <<geoCache, memos, loads>>, heldIndex' = heldIndex \/ heldIndex' = geoCache,
             \A u \in Threads2 : LoadsAt(u)' => LoadsAt(u) /\ loadOf'[u].began = loadOf[u].began
      PROVE  Numbered'
  BY <1>a, <1>t DEF Numbered
<1>b. ASSUME UNCHANGED <<geoCache, heldIndex, memos>>, NEW t \in Threads2, loads' = loads + 1,
             loadOf' = [loadOf EXCEPT ![t] = Loading("stat")]
      PROVE  Numbered'
  <2>1. loadOf'[t].began = loads + 1 /\ \A u \in Threads2 : u # t => loadOf'[u] = loadOf[u]
    BY <1>0, <1>l, <1>b
  <2>2. ASSUME NEW u \in Threads2, LoadsAt(u)'
        PROVE  (/\ 0 < loadOf[u].began /\ loadOf[u].began <= loads
                /\ geoCache # <<>> => geoCache[1].began < loadOf[u].began
                /\ heldIndex # <<>> => heldIndex[1].began < loadOf[u].began
                /\ \A k \in DOMAIN memos : k[1] < loadOf[u].began)'
    <3>1. CASE u = t
      BY <1>b, <1>t, <2>1, <3>1 DEF Numbered
    <3>2. CASE u # t
      BY <1>b, <1>t, <2>1, <2>2, <3>2 DEF Numbered, LoadsAt
    <3> QED
      BY <3>1, <3>2
  <2> QED
    BY <1>b, <1>t, <2>2 DEF Numbered
<1>1. ASSUME NEW t \in Threads2, StatSource(t) PROVE Numbered'
  <2>1. UNCHANGED <<geoCache, memos, loads>> /\ heldIndex' = heldIndex
    BY <1>1 DEF StatSource, KeepsStore
  <2>2. LoadsAt(t) /\ loadOf'[t].began = loadOf[t].began /\ \A u \in Threads2 : u # t => loadOf'[u] = loadOf[u]
    BY <1>1, StatShape DEF LoadsAt
  <2>3. \A u \in Threads2 : LoadsAt(u)' => LoadsAt(u) /\ loadOf'[u].began = loadOf[u].began
    BY <2>2 DEF LoadsAt
  <2> QED
    BY <1>a, <2>1, <2>3
<1>2. ASSUME NEW t \in Threads2, ReadSource(t) PROVE Numbered'
  <2>1. UNCHANGED <<geoCache, memos, loads>> /\ heldIndex' = heldIndex
    BY <1>2 DEF ReadSource, KeepsStore
  <2>2. LoadsAt(t) /\ loadOf'[t].began = loadOf[t].began /\ \A u \in Threads2 : u # t => loadOf'[u] = loadOf[u]
    BY <1>2, ReadShape DEF LoadsAt
  <2>3. \A u \in Threads2 : LoadsAt(u)' => LoadsAt(u) /\ loadOf'[u].began = loadOf[u].began
    BY <2>2 DEF LoadsAt
  <2> QED
    BY <1>a, <2>1, <2>3
<1>3. CASE AskIndex
  <2>1. UNCHANGED <<geoCache, memos, loads>> /\ (heldIndex' = heldIndex \/ heldIndex' = geoCache)
    BY <1>3 DEF AskIndex, KeepsStore
  <2>2. loadOf' = loadOf \/ (loadOf'["writer"].at = "wait" /\ loadOf'["reloader"] = loadOf["reloader"])
    BY <1>3, WaitShape DEF AskIndex
  <2>3. \A u \in Threads2 : LoadsAt(u)' => LoadsAt(u) /\ loadOf'[u].began = loadOf[u].began
    BY <1>0, <2>2 DEF LoadsAt
  <2> QED
    BY <1>a, <2>1, <2>3
<1>4. CASE LockAndLoad
  <2>1. CASE geoCache # <<>>
    <3>1. UNCHANGED <<geoCache, memos, loads>> /\ heldIndex' = geoCache /\ loadOf' = [loadOf EXCEPT !["writer"] = NoLoad]
      BY <1>4, <2>1 DEF LockAndLoad, StartLoad, KeepsStore
    <3>2. \A u \in Threads2 : LoadsAt(u)' => LoadsAt(u) /\ loadOf'[u].began = loadOf[u].began
      BY <1>0, <1>l, <3>1 DEF LoadsAt
    <3> QED
      BY <1>a, <3>1, <3>2
  <2>2. CASE geoCache = <<>>
    BY <1>0, <1>4, <1>b, <2>2 DEF LockAndLoad, StartLoad, KeepsStore
  <2> QED
    BY <2>1, <2>2
<1>5. CASE InstallFirst
  <2>1. /\ HasLoaded("writer") /\ geoCache' = <<LoadedIndex("writer")>> /\ heldIndex' = geoCache'
        /\ loadOf' = [loadOf EXCEPT !["writer"] = NoLoad] /\ UNCHANGED <<memos, loads>>
    BY <1>5 DEF InstallFirst, KeepsStore
  <2>2. LoadsAt("writer")
    BY <2>1 DEF HasLoaded, LoadsAt
  <2>3. \A u \in Threads2 : ~LoadsAt(u)'
    BY <1>0, <1>l, <2>1, <2>2 DEF LoadsAt, OneLoads
  <2>4. geoCache'[1].began = loadOf["writer"].began
    BY <1>0, <2>1, IndexShape
  <2>5. 0 < loadOf["writer"].began /\ loadOf["writer"].began <= loads
    BY <1>0, <2>2 DEF Numbered
  <2>6. \A k \in DOMAIN memos : k[1] \in Nat /\ k[1] <= loads
    BY DEF Numbered
  <2> QED
    BY <2>1, <2>3, <2>4, <2>5, <2>6 DEF Numbered
<1>6. CASE FirstLoadRaises
  <2>1. /\ LoadsAt("writer") /\ geoCache' = geoCache /\ heldIndex' = <<EmptyIndex>>
        /\ loadOf' = [loadOf EXCEPT !["writer"] = NoLoad] /\ UNCHANGED <<memos, loads>>
    BY <1>6 DEF FirstLoadRaises, KeepsStore, LoadsAt
  <2>2. \A u \in Threads2 : ~LoadsAt(u)'
    BY <1>0, <1>l, <2>1 DEF LoadsAt, OneLoads
  <2>3. geoCache = <<>> /\ heldIndex'[1].began = 0
    BY <1>0, <2>1, IndexShape DEF OneLoads
  <2>4. \A k \in DOMAIN memos : k[1] \in Nat /\ k[1] <= loads
    BY DEF Numbered
  <2> QED
    BY <1>t, <2>1, <2>2, <2>3, <2>4 DEF Numbered
<1>7. CASE ReloadBegins
  BY <1>0, <1>7, <1>b DEF ReloadBegins, KeepsStore
<1>8. CASE Reload2
  <2>1. /\ HasLoaded("reloader") /\ (geoCache' = geoCache \/ geoCache' = <<LoadedIndex("reloader")>>)
        /\ heldIndex' = heldIndex /\ loadOf' = [loadOf EXCEPT !["reloader"] = NoLoad] /\ UNCHANGED <<memos, loads>>
    BY <1>8, ReloadShape DEF Reload2, ReloadEnds
  <2>2. LoadsAt("reloader")
    BY <2>1 DEF HasLoaded, LoadsAt
  <2>3. \A u \in Threads2 : ~LoadsAt(u)'
    BY <1>0, <1>l, <2>1, <2>2 DEF LoadsAt, OneLoads
  <2>4. CASE geoCache' = geoCache
    BY <1>a, <2>1, <2>3, <2>4
  <2>5. CASE geoCache' = <<LoadedIndex("reloader")>>
    <3>1. geoCache'[1].began = loadOf["reloader"].began
      BY <1>0, <2>5, IndexShape
    <3>2. /\ 0 < loadOf["reloader"].began /\ loadOf["reloader"].began <= loads
          /\ heldIndex # <<>> => heldIndex[1].began < loadOf["reloader"].began
      BY <1>0, <2>2 DEF Numbered
    <3>3. \A k \in DOMAIN memos : k[1] \in Nat /\ k[1] <= loads
      BY DEF Numbered
    <3>4. heldIndex # <<>> => heldIndex[1].began <= loads
      BY DEF Numbered
    <3>5. heldIndex # <<>> => heldIndex[1].began # loadOf["reloader"].began
      BY <1>0, <1>t, <3>2
    <3> QED
      BY <2>1, <2>3, <3>1, <3>2, <3>3, <3>4, <3>5 DEF Numbered
  <2> QED
    BY <2>1, <2>4, <2>5
<1>9. CASE ReloadRaises
  <2>1. UNCHANGED <<geoCache, memos, loads>> /\ heldIndex' = heldIndex /\ loadOf' = [loadOf EXCEPT !["reloader"] = NoLoad]
    BY <1>9 DEF ReloadRaises, ReloadEnds
  <2>2. \A u \in Threads2 : LoadsAt(u)' => LoadsAt(u) /\ loadOf'[u].began = loadOf[u].began
    BY <1>0, <1>l, <2>1 DEF LoadsAt
  <2> QED
    BY <1>a, <2>1, <2>2
<1>10. ASSUME NEW ip \in Addresses, StoreEvent(ip) PROVE Numbered'
  <2>1. heldIndex # <<>> /\ heldIndex' = <<>> /\ UNCHANGED <<geoCache, loadOf, loads>>
    BY <1>10 DEF StoreEvent
  <2>2. \A k \in DOMAIN memos' : k \in DOMAIN memos \/ k = <<heldIndex[1].began, ip>>
    BY <1>10 DEF StoreEvent, Memoized, MemoKey
  <2>3. ASSUME NEW k \in DOMAIN memos'
        PROVE  /\ k[1] \in Nat /\ k[1] <= loads
               /\ \A u \in Threads2 : LoadsAt(u) => k[1] < loadOf[u].began
    <3>1. CASE k \in DOMAIN memos
      BY <3>1 DEF Numbered
    <3>2. CASE k = <<heldIndex[1].began, ip>>
      BY <1>t, <2>1, <3>2 DEF Numbered
    <3> QED
      BY <2>2, <3>1, <3>2
  <2>4. \A u \in Threads2 : LoadsAt(u)' => LoadsAt(u) /\ loadOf'[u].began = loadOf[u].began
    BY <2>1 DEF LoadsAt
  <2> QED
    BY <2>1, <2>3, <2>4 DEF Numbered
<1>11. CASE StartProcess
  <2>1. geoCache' = <<>> /\ heldIndex' = <<>> /\ DOMAIN memos' = {} /\ \A t \in Threads2 : ~LoadsAt(t)'
    BY <1>11, <1>l DEF StartProcess, LoadsAt
  <2> QED
    BY <2>1 DEF Numbered
<1>12. CASE Backfill2
  BY <1>a, <1>12 DEF Backfill2, LoadsAt
<1>13. CASE \E s \in GeoSettings, c \in Contents, asBefore \in BOOLEAN : SideLoad(s, c, asBefore)
  BY <1>a, <1>13 DEF SideLoad, KeepsStore, LoadsAt
<1> QED
  BY <1>1, <1>2, <1>3, <1>4, <1>5, <1>6, <1>7, <1>8, <1>9, <1>10, <1>11, <1>12, <1>13 DEF GeoNext

LEMMA MemosTrueNext == ASSUME GeoTyped, PartsFit, OneLoads, Numbered, MemosTrue, GeoNext PROVE MemosTrue'
<1>0. "writer" \in Threads2 /\ "reloader" \in Threads2
  BY DEF Threads2
<1>a. ASSUME memos' = memos, misresolved' = misresolved,
             \/ geoCache' \in {<<>>, geoCache}
             \/ \E t \in Threads2 : LoadsAt(t) /\ geoCache' = <<LoadedIndex(t)>>,
             heldIndex' \in {<<>>, heldIndex, geoCache, geoCache', <<EmptyIndex>>}
      PROVE  MemosTrue'
  <2>1. \A x : MemoOf(x)' <=> MemoOf(x)
    BY <1>a DEF MemoOf
  <2>2. \A t \in Threads2 : LoadsAt(t) => MemoOf(LoadedIndex(t))
    <3> SUFFICES ASSUME NEW t \in Threads2, LoadsAt(t), NEW ip \in Addresses,
                        MemoKey(LoadedIndex(t), ip) \in DOMAIN memos
                 PROVE  FALSE
      BY DEF MemoOf
    <3>1. \A k \in DOMAIN memos : k[1] \in Nat /\ k[1] < loadOf[t].began
      BY DEF Numbered
    <3>2. MemoKey(LoadedIndex(t), ip)[1] = loadOf[t].began
      BY IndexShape DEF MemoKey
    <3> QED
      BY <3>1, <3>2
  <2>3. MemoOf(EmptyIndex)
    BY <1>0, IndexShape, NoSourcesType DEF MemoOf, HasSources
  <2>4. geoCache' # <<>> => MemoOf(geoCache'[1])
    BY <1>a, <2>2 DEF MemosTrue
  <2>5. heldIndex' # <<>> => MemoOf(heldIndex'[1])
    BY <1>a, <2>3, <2>4 DEF MemosTrue
  <2>6. ~misresolved'
    BY <1>a DEF MemosTrue
  <2> QED
    BY <1>a, <2>4, <2>5, <2>6 DEF MemosTrue, MemoOf
<1>1. CASE \E t \in Threads2 : StatSource(t) \/ ReadSource(t)
  BY <1>a, <1>1 DEF StatSource, ReadSource, KeepsStore
<1>2. CASE AskIndex \/ LockAndLoad \/ ReloadBegins
  BY <1>a, <1>2 DEF AskIndex, LockAndLoad, StartLoad, ReloadBegins, KeepsStore
<1>3. CASE InstallFirst
  BY <1>0, <1>a, <1>3 DEF InstallFirst, KeepsStore, HasLoaded, LoadsAt
<1>4. CASE FirstLoadRaises
  BY <1>a, <1>4 DEF FirstLoadRaises, KeepsStore
<1>5. CASE Reload2
  <2>1. LoadsAt("reloader") /\ (geoCache' = geoCache \/ geoCache' = <<LoadedIndex("reloader")>>)
    BY <1>5, ReloadShape DEF HasLoaded, LoadsAt
  <2> QED
    BY <1>0, <1>a, <1>5, <2>1 DEF Reload2, ReloadEnds
<1>6. CASE ReloadRaises
  BY <1>a, <1>6 DEF ReloadRaises, ReloadEnds
<1>7. ASSUME NEW ip \in Addresses, StoreEvent(ip) PROVE MemosTrue'
  <2>1. heldIndex # <<>> /\ heldIndex' = <<>> /\ geoCache' = geoCache
    BY <1>7 DEF StoreEvent
  <2>2. MemoOf(heldIndex[1]) /\ (geoCache # <<>> => MemoOf(geoCache[1])) /\ ~misresolved
    BY <2>1 DEF MemosTrue
  <2>3. ~misresolved'
    <3>1. LookupIn(heldIndex[1], ip) = AnswerOf(heldIndex[1], ip)
      BY <2>2, LookupTrue
    <3>2. misresolved' = (misresolved \/ LookupIn(heldIndex[1], ip) # AnswerOf(heldIndex[1], ip))
      BY <1>7, Zenon DEF StoreEvent
    <3> QED
      BY <2>2, <3>1, <3>2, Zenon
  <2>4. ASSUME geoCache # <<>>, NEW to \in Addresses, HasSources(geoCache[1]),
               MemoKey(geoCache[1], to) \in DOMAIN memos'
        PROVE  memos'[MemoKey(geoCache[1], to)] = AnswerOf(geoCache[1], to)
    <3>1. CASE memos' = memos
      BY <2>2, <2>4, <3>1 DEF MemoOf
    <3>2. CASE memos' # memos
      <4> DEFINE key == MemoKey(heldIndex[1], ip)
      <4>1. PICK kept \in SUBSET DOMAIN memos :
                memos' = [k \in kept \cup {key} |-> IF k = key THEN AnswerOf(heldIndex[1], ip) ELSE memos[k]]
        BY <1>7, <3>2 DEF StoreEvent, Memoized
      <4>2. CASE MemoKey(geoCache[1], to) = key
        <5>1. geoCache[1].began = heldIndex[1].began /\ to = ip
          BY <4>2 DEF MemoKey
        <5>2. geoCache = heldIndex
          BY <2>1, <2>4, <5>1 DEF Numbered
        <5>3. memos'[key] = AnswerOf(heldIndex[1], ip)
          BY <4>1
        <5> QED
          BY <4>2, <5>1, <5>2, <5>3
      <4>3. CASE MemoKey(geoCache[1], to) # key
        <5> HIDE DEF key
        <5>1. MemoKey(geoCache[1], to) \in kept
          BY <2>4, <4>1, <4>3
        <5>2. memos'[MemoKey(geoCache[1], to)] = memos[MemoKey(geoCache[1], to)]
          BY <4>1, <4>3, <5>1
        <5> QED
          BY <2>2, <2>4, <5>1, <5>2 DEF MemoOf
      <4> QED
        BY <4>2, <4>3
    <3> QED
      BY <3>1, <3>2
  <2>5. (geoCache # <<>> => MemoOf(geoCache[1]))'
    BY <2>1, <2>4 DEF MemoOf, MemoKey
  <2> QED
    BY <2>1, <2>3, <2>5 DEF MemosTrue
<1>8. CASE Backfill2
  BY <1>a, <1>8 DEF Backfill2
<1>9. CASE StartProcess
  <2>1. geoCache' = <<>> /\ heldIndex' = <<>> /\ misresolved' = misresolved
    BY <1>9 DEF StartProcess
  <2> QED
    BY <2>1 DEF MemosTrue
<1>10. CASE \E s \in GeoSettings, c \in Contents, asBefore \in BOOLEAN : SideLoad(s, c, asBefore)
  BY <1>a, <1>10 DEF SideLoad, KeepsStore
<1> QED
  BY <1>1, <1>2, <1>3, <1>4, <1>5, <1>6, <1>7, <1>8, <1>9, <1>10 DEF GeoNext

(* A working index gives way to none: whatever replaces it has read all that *)
(* is configured, or has something to answer with.                           *)
LEMMA WorkingStep == ASSUME GeoTyped, OneLoads, PartsFit, GeoNext PROVE StaysWorking
<1>0. "writer" \in Threads2 /\ "reloader" \in Threads2
  BY DEF Threads2
<1>1. CASE geoCache' = geoCache \/ geoCache' = <<>> \/ geoCache = <<>>
  BY <1>1 DEF StaysWorking
<1>2. CASE InstallFirst
  <2>1. geoCache = <<>>
    BY <1>0, <1>2 DEF InstallFirst, HasLoaded, OneLoads, LoadsAt
  <2> QED
    BY <1>1, <2>1
<1>3. CASE Reload2
  <2> SUFFICES ASSUME geoCache # <<>>, HasSources(geoCache[1]), geoCache' # geoCache PROVE HasSources(geoCache'[1])
    BY <1>1 DEF StaysWorking
  <2>1. HasLoaded("reloader") /\ geoCache' = <<LoadedIndex("reloader")>>
    BY <1>3, ReloadShape
  <2>2. HasSources(LoadedIndex("reloader")) \/ loadOf["reloader"].failed = {}
    BY <1>3, ReloadShape
  <2>3. Parts(loadOf["reloader"], {}) /\ Parts(geoCache[1], {})
    BY <1>0, <2>1 DEF PartsFit, HasLoaded, LoadsAt
  <2>4. loadOf["reloader"].failed = {} => DOMAIN loadOf["reloader"].sources # {}
    BY <2>3 DEF Parts, HasSources
  <2>5. HasSources(LoadedIndex("reloader"))
    BY <1>0, <2>2, <2>4, IndexShape DEF HasSources
  <2> QED
    BY <2>1, <2>5
<1>4. CASE \E t \in Threads2 : StatSource(t) \/ ReadSource(t)
  BY <1>1, <1>4 DEF StatSource, ReadSource
<1>5. CASE AskIndex \/ LockAndLoad \/ FirstLoadRaises \/ ReloadBegins \/ ReloadRaises \/ StartProcess
  BY <1>1, <1>5 DEF AskIndex, LockAndLoad, FirstLoadRaises, ReloadBegins, ReloadRaises, StartProcess
<1>6. CASE (\E ip \in Addresses : StoreEvent(ip)) \/ Backfill2
  BY <1>1, <1>6 DEF StoreEvent, Backfill2
<1>7. CASE \E s \in GeoSettings, c \in Contents, asBefore \in BOOLEAN : SideLoad(s, c, asBefore)
  BY <1>1, <1>7 DEF SideLoad
<1> QED
  BY <1>2, <1>3, <1>4, <1>5, <1>6, <1>7 DEF GeoNext

LEMMA LaterStep == ASSUME GeoTyped, OneLoads, PartsFit, Numbered, GeoNext PROVE ReplacedByLater
<1>0. "writer" \in Threads2 /\ "reloader" \in Threads2
  BY DEF Threads2
<1>1. CASE geoCache' = geoCache \/ geoCache' = <<>> \/ geoCache = <<>>
  BY <1>1 DEF ReplacedByLater
<1>2. CASE InstallFirst
  <2>1. geoCache = <<>>
    BY <1>0, <1>2 DEF InstallFirst, HasLoaded, OneLoads, LoadsAt
  <2> QED
    BY <1>1, <2>1
<1>3. CASE Reload2
  <2>1. LoadsAt("reloader") /\ (geoCache' = geoCache \/ geoCache' = <<LoadedIndex("reloader")>>)
    BY <1>3, ReloadShape DEF HasLoaded, LoadsAt
  <2>2. geoCache # <<>> => geoCache[1].began < loadOf["reloader"].began
    BY <1>0, <2>1 DEF Numbered
  <2>3. LoadedIndex("reloader").began = loadOf["reloader"].began
    BY <1>0, IndexShape
  <2>4. (geoCache # <<>> => geoCache[1].began \in Nat) /\ loadOf["reloader"].began \in Nat
    BY <1>0, BeganType
  <2> QED
    BY <2>1, <2>2, <2>3, <2>4 DEF ReplacedByLater
<1>4. CASE \E t \in Threads2 : StatSource(t) \/ ReadSource(t)
  BY <1>1, <1>4 DEF StatSource, ReadSource
<1>5. CASE AskIndex \/ LockAndLoad \/ FirstLoadRaises \/ ReloadBegins \/ ReloadRaises \/ StartProcess
  BY <1>1, <1>5 DEF AskIndex, LockAndLoad, FirstLoadRaises, ReloadBegins, ReloadRaises, StartProcess
<1>6. CASE (\E ip \in Addresses : StoreEvent(ip)) \/ Backfill2
  BY <1>1, <1>6 DEF StoreEvent, Backfill2
<1>7. CASE \E s \in GeoSettings, c \in Contents, asBefore \in BOOLEAN : SideLoad(s, c, asBefore)
  BY <1>1, <1>7 DEF SideLoad
<1> QED
  BY <1>2, <1>3, <1>4, <1>5, <1>6, <1>7 DEF GeoNext

(* What a step does to the files and to history's stamp.                     *)
LEMMA NotPreservedBefore == ASSUME GeoNext, ~preserved' PROVE ~preserved
<1>1. ASSUME NEW s \in GeoSettings, NEW c \in Contents, NEW asBefore \in BOOLEAN, SideLoad(s, c, asBefore)
      PROVE  preserved' = (preserved \/ asBefore)
  BY <1>1, Zenon DEF SideLoad
<1>2. CASE \E s \in GeoSettings, c \in Contents, asBefore \in BOOLEAN : SideLoad(s, c, asBefore)
  BY <1>1, <1>2, Zenon
<1>3. CASE \E t \in Threads2 : StatSource(t) \/ ReadSource(t)
  BY <1>3 DEF StatSource, ReadSource, KeepsFiles
<1>4. CASE AskIndex \/ LockAndLoad \/ InstallFirst \/ FirstLoadRaises \/ ReloadBegins
  BY <1>4 DEF AskIndex, LockAndLoad, InstallFirst, FirstLoadRaises, ReloadBegins, KeepsFiles
<1>5. CASE Reload2 \/ ReloadRaises
  BY <1>5 DEF Reload2, ReloadRaises, ReloadEnds, KeepsFiles
<1>6. CASE (\E ip \in Addresses : StoreEvent(ip)) \/ Backfill2
  BY <1>6 DEF StoreEvent, Backfill2, KeepsFiles
<1>7. CASE StartProcess
  BY <1>7 DEF StartProcess
<1> QED
  BY <1>2, <1>3, <1>4, <1>5, <1>6, <1>7 DEF GeoNext

LEMMA StampShape ==
    ASSUME GeoTyped, GeoNext
    PROVE  \/ geoStamp' = geoStamp
           \/ /\ geoCache' # <<>> /\ geoCache'[1] \in GeoIndex /\ geoStamp' = <<FingerprintOf(geoCache'[1])>>
              /\ geoRows' = <<>> \/ (Backfill2 /\ geoCache' = geoCache)
           \/ /\ geoStamp' = <<FingerprintOf(EmptyIndex)>> /\ geoCache' = <<>> /\ geoRows' = <<>>
<1>0. (geoCache # <<>> => geoCache[1] \in GeoIndex) /\ "reloader" \in Threads2
  BY BeganType DEF Threads2
<1>1. CASE \E t \in Threads2 : StatSource(t) \/ ReadSource(t)
  BY <1>1 DEF StatSource, ReadSource, KeepsStore
<1>2. CASE AskIndex \/ LockAndLoad \/ InstallFirst \/ FirstLoadRaises \/ ReloadBegins
  BY <1>2 DEF AskIndex, LockAndLoad, InstallFirst, FirstLoadRaises, ReloadBegins, KeepsStore
<1>3. CASE Reload2
  <2>1. geoCache' # <<>> /\ geoCache'[1] \in GeoIndex
    BY <1>0, <1>3, ReloadShape, IndexShape
  <2>2. geoStamp' = geoStamp \/ (geoStamp' = <<FingerprintOf(geoCache'[1])>> /\ geoRows = <<>>)
    BY <1>3 DEF Reload2, Stamped2
  <2> QED
    BY <1>3, <2>1, <2>2 DEF Reload2, ReloadEnds
<1>4. CASE ReloadRaises
  <2>1. PICK x : x = IF geoCache = <<>> THEN EmptyIndex ELSE geoCache[1]
    OBVIOUS
  <2>2. geoStamp' = geoStamp \/ (geoStamp' = <<FingerprintOf(x)>> /\ geoRows = <<>>)
    BY <1>4, <2>1 DEF ReloadRaises, Stamped2
  <2> QED
    BY <1>0, <1>4, <2>1, <2>2 DEF ReloadRaises, ReloadEnds
<1>5. CASE \E ip \in Addresses : StoreEvent(ip)
  BY <1>5 DEF StoreEvent
<1>6. CASE Backfill2
  BY <1>0, <1>6 DEF Backfill2
<1>7. CASE StartProcess
  BY <1>7 DEF StartProcess
<1>8. CASE \E s \in GeoSettings, c \in Contents, asBefore \in BOOLEAN : SideLoad(s, c, asBefore)
  BY <1>8 DEF SideLoad, KeepsStore
<1> QED
  BY <1>1, <1>2, <1>3, <1>4, <1>5, <1>6, <1>7, <1>8 DEF GeoNext

LEMMA SideLoadShape ==
    ASSUME GeoTyped, NEW s \in GeoSettings, NEW c \in Contents, NEW asBefore \in BOOLEAN,
           SideLoad(s, c, asBefore), ~preserved'
    PROVE  /\ geoFiles'[s].stat = sideLoads + 1 /\ sideLoads' = sideLoads + 1
           /\ \A u \in GeoSettings : u # s => geoFiles'[u] = geoFiles[u]
           /\ UNCHANGED <<geoConfigured, geoPhase, geoCache, geoLock, loadOf, heldIndex, geoRows, geoStamp>>
<1>1. preserved' = (preserved \/ asBefore)
  BY Zenon DEF SideLoad
<1>2. asBefore = FALSE
  BY <1>1, Zenon
<1>3. geoFiles' = [geoFiles EXCEPT ![s] = [content |-> c, stat |-> sideLoads + 1]] /\ geoFiles \in [GeoSettings -> File]
  BY <1>2 DEF SideLoad, GeoTyped
<1>4. geoFiles'[s] = [content |-> c, stat |-> sideLoads + 1]
  BY <1>3
<1> QED
  BY <1>3, <1>4 DEF SideLoad, KeepsStore

LEMMA FilesShape ==
    ASSUME GeoTyped, GeoNext
    PROVE  \/ UNCHANGED <<geoFiles, geoConfigured, sideLoads>>
           \/ StartProcess
           \/ \E s \in GeoSettings, c \in Contents, asBefore \in BOOLEAN : SideLoad(s, c, asBefore)
<1>1. CASE \E t \in Threads2 : StatSource(t) \/ ReadSource(t)
  BY <1>1 DEF StatSource, ReadSource, KeepsFiles
<1>2. CASE AskIndex \/ LockAndLoad \/ InstallFirst \/ FirstLoadRaises \/ ReloadBegins
  BY <1>2 DEF AskIndex, LockAndLoad, InstallFirst, FirstLoadRaises, ReloadBegins, KeepsFiles
<1>3. CASE Reload2 \/ ReloadRaises
  BY <1>3 DEF Reload2, ReloadRaises, ReloadEnds, KeepsFiles
<1>4. CASE (\E ip \in Addresses : StoreEvent(ip)) \/ Backfill2
  BY <1>4 DEF StoreEvent, Backfill2, KeepsFiles
<1> QED
  BY <1>1, <1>2, <1>3, <1>4 DEF GeoNext

LEMMA FilesAreNewerNext ==
    ASSUME GeoTyped, OneLoads, PartsFit, StatsFit, FilesAreNewer, GeoNext, ~preserved'
    PROVE  FilesAreNewer'
<1>0. /\ loadOf \in [Threads2 -> GeoLoad] /\ "writer" \in Threads2 /\ "reloader" \in Threads2
      /\ geoFiles \in [GeoSettings -> File] /\ sideLoads \in Nat
  BY DEF GeoTyped, Threads2
<1>l. /\ NoLoad \in GeoLoad /\ NoLoad.at = "idle" /\ Loading("stat") \in GeoLoad
      /\ Loading("stat").at = "stat" /\ DOMAIN Loading("stat").sources = {}
  BY LoadingShape, NoSourcesType
<1>a. ASSUME geoFiles' = geoFiles,
             \/ geoCache' \in {<<>>, geoCache}
             \/ \E t \in Threads2 : LoadsAt(t) /\ geoCache' = <<LoadedIndex(t)>>,
             \A u \in Threads2 : LoadsAt(u)' => loadOf'[u] = loadOf[u] \/ loadOf'[u] = Loading("stat")
      PROVE  FilesAreNewer'
  <2>1. ASSUME geoCache' # <<>>
        PROVE  \A s \in DOMAIN geoCache'[1].sources : NoNewer(geoCache'[1].sources[s], geoFiles[s])
    <3>1. CASE geoCache' = geoCache
      BY <2>1, <3>1 DEF FilesAreNewer
    <3>2. CASE \E t \in Threads2 : LoadsAt(t) /\ geoCache' = <<LoadedIndex(t)>>
      <4>1. PICK t \in Threads2 : LoadsAt(t) /\ geoCache' = <<LoadedIndex(t)>>
        BY <3>2
      <4>2. geoCache'[1].sources = loadOf[t].sources
        BY <4>1, IndexShape
      <4> QED
        BY <4>1, <4>2 DEF FilesAreNewer
    <3> QED
      BY <1>a, <2>1, <3>1, <3>2
  <2>2. ASSUME NEW u \in Threads2, LoadsAt(u)'
        PROVE  /\ \A s \in DOMAIN loadOf'[u].sources : NoNewer(loadOf'[u].sources[s], geoFiles[s])
               /\ loadOf'[u].at = "read" => NoNewer(loadOf'[u].seen, geoFiles[loadOf'[u].file])
    <3>1. CASE loadOf'[u] = loadOf[u]
      BY <2>2, <3>1 DEF FilesAreNewer, LoadsAt
    <3>2. CASE loadOf'[u] = Loading("stat")
      BY <1>l, <3>2
    <3> QED
      BY <1>a, <2>2, <3>1, <3>2
  <2> QED
    BY <1>a, <2>1, <2>2 DEF FilesAreNewer
<1>1. ASSUME NEW t \in Threads2, StatSource(t) PROVE FilesAreNewer'
  <2>1. geoFiles' = geoFiles /\ geoCache' = geoCache
    BY <1>1 DEF StatSource, KeepsFiles
  <2>2. ASSUME NEW u \in Threads2, LoadsAt(u)'
        PROVE  /\ \A s \in DOMAIN loadOf'[u].sources : NoNewer(loadOf'[u].sources[s], geoFiles[s])
               /\ loadOf'[u].at = "read" => NoNewer(loadOf'[u].seen, geoFiles[loadOf'[u].file])
    <3>1. CASE u = t
      <4>1. loadOf[t].at = "stat" /\ loadOf'[t].sources = loadOf[t].sources /\ loadOf'[t].seen = geoFiles[loadOf'[t].file]
        BY <1>1, StatShape
      <4>2. loadOf'[t].file \in GeoSettings
        BY <1>0, <1>1, StatShape DEF GeoLoad
      <4>3. geoFiles[loadOf'[t].file] \in File
        BY <1>0, <4>2
      <4> QED
        BY <3>1, <4>1, <4>3 DEF FilesAreNewer, LoadsAt, NoNewer, File
    <3>2. CASE u # t
      BY <1>1, <2>2, <3>2, StatShape DEF FilesAreNewer, LoadsAt
    <3> QED
      BY <3>1, <3>2
  <2> QED
    BY <2>1, <2>2 DEF FilesAreNewer
<1>2. ASSUME NEW t \in Threads2, ReadSource(t) PROVE FilesAreNewer'
  <2>1. geoFiles' = geoFiles /\ geoCache' = geoCache
    BY <1>2 DEF ReadSource, KeepsFiles
  <2>2. PICK f \in GeoSettings : f = loadOf[t].file
    BY <1>2, ReadShape
  <2>3. NoNewer(ReadOf(t), geoFiles[f])
    <3>1. NoNewer(loadOf[t].seen, geoFiles[f])
      BY <1>2, <2>2, ReadShape DEF FilesAreNewer, LoadsAt
    <3>2. ReadOf(t).stat = loadOf[t].seen.stat /\ ReadOf(t).content = geoFiles[f].content
      BY <2>2 DEF ReadOf, SourceFrom
    <3> QED
      BY <3>1, <3>2 DEF NoNewer
  <2>4. \A s \in DOMAIN loadOf[t].sources : NoNewer(loadOf[t].sources[s], geoFiles[s])
    BY <1>2, ReadShape DEF FilesAreNewer, LoadsAt
  <2>5. \A s \in DOMAIN loadOf'[t].sources : NoNewer(loadOf'[t].sources[s], geoFiles[s])
    <3>1. CASE loadOf'[t].sources = loadOf[t].sources
      BY <2>4, <3>1
    <3>2. CASE /\ DOMAIN loadOf'[t].sources = DOMAIN loadOf[t].sources \cup {f}
               /\ loadOf'[t].sources[f] = ReadOf(t)
               /\ \A s \in DOMAIN loadOf[t].sources : s # f => loadOf'[t].sources[s] = loadOf[t].sources[s]
      <4> SUFFICES ASSUME NEW s \in DOMAIN loadOf'[t].sources PROVE NoNewer(loadOf'[t].sources[s], geoFiles[s])
        OBVIOUS
      <4>1. CASE s = f
        BY <2>3, <3>2, <4>1
      <4>2. CASE s # f
        BY <2>4, <3>2, <4>2
      <4> QED
        BY <4>1, <4>2
    <3> QED
      BY <1>2, <2>2, <3>1, <3>2, ReadShape
  <2>6. ASSUME NEW u \in Threads2, LoadsAt(u)'
        PROVE  /\ \A s \in DOMAIN loadOf'[u].sources : NoNewer(loadOf'[u].sources[s], geoFiles[s])
               /\ loadOf'[u].at = "read" => NoNewer(loadOf'[u].seen, geoFiles[loadOf'[u].file])
    <3>1. CASE u = t
      <4>1. loadOf'[t].at = "stat"
        BY <1>2, ReadShape
      <4> QED
        BY <2>5, <3>1, <4>1
    <3>2. CASE u # t
      BY <1>2, <2>6, <3>2, ReadShape DEF FilesAreNewer, LoadsAt
    <3> QED
      BY <3>1, <3>2
  <2> QED
    BY <2>1, <2>6 DEF FilesAreNewer
<1>3. CASE AskIndex
  <2>1. geoFiles' = geoFiles /\ geoCache' = geoCache
    BY <1>3 DEF AskIndex, KeepsFiles
  <2>2. loadOf' = loadOf \/ (loadOf'["writer"].at = "wait" /\ loadOf'["reloader"] = loadOf["reloader"])
    BY <1>3, WaitShape DEF AskIndex
  <2>3. \A u \in Threads2 : LoadsAt(u)' => loadOf'[u] = loadOf[u]
    BY <1>0, <2>2 DEF LoadsAt, Threads2
  <2> QED
    BY <1>a, <2>1, <2>3
<1>4. CASE LockAndLoad \/ ReloadBegins \/ InstallFirst \/ FirstLoadRaises \/ Reload2 \/ ReloadRaises
  <2>1. /\ geoFiles' = geoFiles
        /\ \E t \in Threads2, l \in {NoLoad, Loading("stat")} : loadOf' = [loadOf EXCEPT ![t] = l]
    BY <1>0, <1>4 DEF LockAndLoad, StartLoad, ReloadBegins, InstallFirst, FirstLoadRaises, Reload2, ReloadRaises,
       ReloadEnds, KeepsFiles
  <2>2. \A u \in Threads2 : LoadsAt(u)' => loadOf'[u] = loadOf[u] \/ loadOf'[u] = Loading("stat")
    BY <1>0, <1>l, <2>1 DEF LoadsAt
  <2>3. \/ geoCache' = geoCache
        \/ \E t \in Threads2 : LoadsAt(t) /\ geoCache' = <<LoadedIndex(t)>>
    <3>1. CASE LockAndLoad \/ ReloadBegins \/ FirstLoadRaises \/ ReloadRaises
      BY <3>1 DEF LockAndLoad, ReloadBegins, FirstLoadRaises, ReloadRaises
    <3>2. CASE InstallFirst
      BY <1>0, <3>2 DEF InstallFirst, HasLoaded, LoadsAt
    <3>3. CASE Reload2
      BY <1>0, <3>3, ReloadShape DEF HasLoaded, LoadsAt
    <3> QED
      BY <1>4, <3>1, <3>2, <3>3
  <2> QED
    BY <1>a, <2>1, <2>2, <2>3
<1>5. CASE (\E ip \in Addresses : StoreEvent(ip)) \/ Backfill2
  BY <1>a, <1>5 DEF StoreEvent, Backfill2, KeepsFiles
<1>6. CASE StartProcess
  <2>1. geoFiles' = geoFiles /\ geoCache' = <<>> /\ \A t \in Threads2 : ~LoadsAt(t)'
    BY <1>6, <1>l DEF StartProcess, LoadsAt
  <2> QED
    BY <1>a, <2>1
<1>7. ASSUME NEW s \in GeoSettings, NEW c \in Contents, NEW asBefore \in BOOLEAN, SideLoad(s, c, asBefore)
      PROVE  FilesAreNewer'
  <2>1. /\ geoFiles'[s].stat = sideLoads + 1 /\ \A u \in GeoSettings : u # s => geoFiles'[u] = geoFiles[u]
        /\ UNCHANGED <<geoCache, loadOf>>
    BY <1>7, SideLoadShape
  <2>2. geoFiles[s].stat <= sideLoads /\ geoFiles[s].stat \in Nat
    BY <1>0 DEF StatsFit, File
  <2>3. ASSUME NEW x \in File, NEW u \in GeoSettings, NoNewer(x, geoFiles[u]) PROVE NoNewer(x, geoFiles'[u])
    <3>1. x.stat \in Nat
      BY DEF File
    <3> QED
      BY <1>0, <2>1, <2>2, <2>3, <3>1 DEF NoNewer
  <2>4. (geoCache # <<>> => \A u \in DOMAIN geoCache[1].sources : u \in GeoSettings /\ geoCache[1].sources[u] \in File)
    BY BeganType, SourcesShape DEF GeoIndex
  <2>5. \A t \in Threads2 : \A u \in DOMAIN loadOf[t].sources : u \in GeoSettings /\ loadOf[t].sources[u] \in File
    BY <1>0, SourcesShape DEF GeoLoad
  <2>6. \A t \in Threads2 : LoadsAt(t) /\ loadOf[t].at = "read" => loadOf[t].file \in GeoSettings /\ loadOf[t].seen \in File
    BY <1>0 DEF PartsFit, GeoLoad
  <2>7. geoCache # <<>> => \A u \in DOMAIN geoCache[1].sources : NoNewer(geoCache[1].sources[u], geoFiles'[u])
    BY <2>3, <2>4 DEF FilesAreNewer
  <2>8. ASSUME NEW t \in Threads2, LoadsAt(t)
        PROVE  /\ \A u \in DOMAIN loadOf[t].sources : NoNewer(loadOf[t].sources[u], geoFiles'[u])
               /\ loadOf[t].at = "read" => NoNewer(loadOf[t].seen, geoFiles'[loadOf[t].file])
    BY <2>3, <2>5, <2>6, <2>8 DEF FilesAreNewer
  <2> QED
    BY <2>1, <2>7, <2>8 DEF FilesAreNewer, LoadsAt
<1> QED
  BY <1>1, <1>2, <1>3, <1>4, <1>5, <1>6, <1>7 DEF GeoNext

LEMMA StatsFitNext ==
    ASSUME GeoTyped, OneLoads, PartsFit, StatsFit, FilesAreNewer, GeoNext, ~preserved'
    PROVE  StatsFit'
<1>0. geoFiles \in [GeoSettings -> File] /\ sideLoads \in Nat /\ geoConfigured \in SUBSET GeoSettings
  BY DEF GeoTyped
<1>1. FilesAreNewer' /\ PartsFit' /\ geoConfigured' \in SUBSET GeoSettings
  BY FilesAreNewerNext, PartsFitNext, FilesTyped
<1>2. /\ \A s \in GeoSettings : geoFiles'[s].stat <= sideLoads'
      /\ sideLoads <= sideLoads' /\ geoConfigured \subseteq geoConfigured' /\ sideLoads' \in Nat
  <2>1. CASE UNCHANGED <<geoFiles, geoConfigured, sideLoads>>
    BY <1>0, <2>1 DEF StatsFit
  <2>2. CASE StartProcess
    BY <1>0, <2>2 DEF StatsFit, StartProcess
  <2>3. ASSUME NEW s \in GeoSettings, NEW c \in Contents, NEW asBefore \in BOOLEAN, SideLoad(s, c, asBefore)
        PROVE  /\ \A u \in GeoSettings : geoFiles'[u].stat <= sideLoads'
               /\ sideLoads <= sideLoads' /\ geoConfigured \subseteq geoConfigured' /\ sideLoads' \in Nat
    <3>1. /\ geoFiles'[s].stat = sideLoads + 1 /\ sideLoads' = sideLoads + 1
          /\ \A u \in GeoSettings : u # s => geoFiles'[u] = geoFiles[u]
          /\ geoConfigured' = geoConfigured
      BY <2>3, SideLoadShape
    <3>2. \A u \in GeoSettings : geoFiles[u].stat <= sideLoads /\ geoFiles[u].stat \in Nat
      BY <1>0 DEF StatsFit, File
    <3> QED
      BY <1>0, <3>1, <3>2
  <2> QED
    BY <2>1, <2>2, <2>3, FilesShape
<1>3. (geoStamp # <<>> => /\ DOMAIN geoStamp[1] \subseteq geoConfigured
                          /\ \A s \in DOMAIN geoStamp[1] : geoStamp[1][s][1] <= sideLoads)'
  <2>1. CASE geoStamp' = geoStamp
    <3> SUFFICES ASSUME geoStamp # <<>>, NEW s \in DOMAIN geoStamp[1]
                 PROVE  s \in geoConfigured' /\ geoStamp[1][s][1] <= sideLoads'
      BY <2>1
    <3>1. geoStamp[1] \in Prints
      BY PerhapsOne DEF GeoTyped
    <3>2. geoStamp[1][s] \in Nat \X Nat
      BY <3>1 DEF Prints
    <3>3. geoStamp[1][s][1] \in Nat
      BY <3>2
    <3> QED
      BY <1>0, <1>2, <3>3 DEF StatsFit
  <2>2. CASE geoCache' # <<>> /\ geoCache'[1] \in GeoIndex /\ geoStamp' = <<FingerprintOf(geoCache'[1])>>
    <3>1. PICK x \in GeoIndex : x = geoCache'[1]
      BY <2>2
    <3>2. geoStamp'[1] = FingerprintOf(x)
      BY <2>2, <3>1
    <3>3. /\ DOMAIN FingerprintOf(x) = DOMAIN x.sources
          /\ \A s \in DOMAIN x.sources : FingerprintOf(x)[s][1] = x.sources[s].stat
      BY PrintShape
    <3>4. DOMAIN x.sources \subseteq geoConfigured'
      BY <1>1, <2>2, <3>1 DEF PartsFit, Parts
    <3>5. \A s \in DOMAIN x.sources : x.sources[s].stat <= geoFiles'[s].stat
      BY <1>1, <2>2, <3>1 DEF FilesAreNewer, NoNewer
    <3>6. ASSUME NEW s \in DOMAIN x.sources PROVE x.sources[s].stat <= sideLoads'
      <4>1. s \in GeoSettings /\ x.sources[s].stat \in Nat
        BY SourcesShape DEF GeoIndex, File
      <4>2. geoFiles'[s].stat \in Nat
        BY <4>1, FilesTyped DEF File
      <4> QED
        BY <1>2, <3>5, <4>1, <4>2
    <3> QED
      BY <3>2, <3>3, <3>4, <3>6
  <2>3. CASE geoStamp' = <<FingerprintOf(EmptyIndex)>>
    <3>1. geoStamp'[1] = FingerprintOf(EmptyIndex)
      BY <2>3
    <3>2. DOMAIN FingerprintOf(EmptyIndex) = {}
      <4>1. "writer" \in Threads2
        BY DEF Threads2
      <4>2. EmptyIndex \in GeoIndex /\ DOMAIN EmptyIndex.sources = {}
        BY <4>1, IndexShape, NoSourcesType
      <4> QED
        BY <4>2, PrintShape
    <3> QED
      BY <3>1, <3>2
  <2> QED
    BY <2>1, <2>2, <2>3, StampShape
<1> QED
  BY <1>2, <1>3 DEF StatsFit

LEMMA LoadsAreNewerNext ==
    ASSUME GeoTyped, OneLoads, PartsFit, StatsFit, FilesAreNewer, LoadsAreNewer, GeoNext, ~preserved'
    PROVE  LoadsAreNewer'
<1>0. /\ loadOf \in [Threads2 -> GeoLoad] /\ "writer" \in Threads2 /\ "reloader" \in Threads2
      /\ geoFiles \in [GeoSettings -> File] /\ sideLoads \in Nat
  BY DEF GeoTyped, Threads2
<1>l. /\ NoLoad \in GeoLoad /\ NoLoad.at = "idle" /\ Loading("stat") \in GeoLoad
      /\ Loading("stat").at = "stat" /\ DOMAIN Loading("stat").sources = {} /\ Loading("stat").failed = {}
  BY LoadingShape, NoSourcesType
<1>c. geoCache # <<>> =>
        /\ \A s \in DOMAIN geoCache[1].sources :
              s \in GeoSettings /\ geoCache[1].sources[s] \in File /\ NoNewer(geoCache[1].sources[s], geoFiles[s])
        /\ \A s \in DOMAIN geoCache[1].sources : geoCache[1].sources[s].content # 0
  BY BeganType, SourcesShape DEF GeoIndex, FilesAreNewer, PartsFit, Parts
<1>a. ASSUME geoFiles' = geoFiles, geoCache' = geoCache \/ geoCache' = <<>>,
             \A u \in Threads2 : LoadsAt(u)' => loadOf'[u] = loadOf[u] \/ loadOf'[u] = Loading("stat")
      PROVE  LoadsAreNewer'
  <2> SUFFICES ASSUME NEW u \in Threads2, LoadsAt(u)', geoCache' # <<>> PROVE LoadIsNewer(u)'
    BY DEF LoadsAreNewer
  <2>1. CASE loadOf'[u] = loadOf[u]
    BY <1>a, <2>1 DEF LoadsAreNewer, LoadIsNewer, LoadsAt
  <2>2. CASE loadOf'[u] = Loading("stat")
    BY <1>a, <1>l, <2>2 DEF LoadIsNewer
  <2> QED
    BY <1>a, <2>1, <2>2
<1>b. ASSUME \A u \in Threads2 : ~LoadsAt(u)' PROVE LoadsAreNewer'
  BY <1>b DEF LoadsAreNewer
<1>1. ASSUME NEW t \in Threads2, StatSource(t) PROVE LoadsAreNewer'
  <2>1. geoFiles' = geoFiles /\ geoCache' = geoCache
    BY <1>1 DEF StatSource, KeepsFiles
  <2> SUFFICES ASSUME NEW u \in Threads2, LoadsAt(u)', geoCache # <<>> PROVE LoadIsNewer(u)'
    BY <2>1 DEF LoadsAreNewer
  <2>2. CASE u = t
    <3>1. LoadIsNewer(t)
      BY <1>1, StatShape DEF LoadsAreNewer, LoadsAt
    <3>2. /\ loadOf'[t].sources = loadOf[t].sources /\ loadOf'[t].failed = loadOf[t].failed
          /\ loadOf'[t].torn = loadOf[t].torn /\ loadOf'[t].seen = geoFiles[loadOf'[t].file]
      BY <1>1, StatShape
    <3>3. \A s \in DOMAIN geoCache[1].sources :
            s = loadOf'[t].file => geoCache[1].sources[s].stat <= loadOf'[t].seen.stat
      BY <1>c, <3>2 DEF NoNewer
    <3> QED
      BY <2>1, <2>2, <3>1, <3>2, <3>3 DEF LoadIsNewer
  <2>3. CASE u # t
    BY <1>1, <2>1, <2>3, StatShape DEF LoadsAreNewer, LoadIsNewer, LoadsAt
  <2> QED
    BY <2>2, <2>3
<1>2. ASSUME NEW t \in Threads2, ReadSource(t) PROVE LoadsAreNewer'
  <2>1. geoFiles' = geoFiles /\ geoCache' = geoCache
    BY <1>2 DEF ReadSource, KeepsFiles
  <2> SUFFICES ASSUME NEW u \in Threads2, LoadsAt(u)', geoCache # <<>> PROVE LoadIsNewer(u)'
    BY <2>1 DEF LoadsAreNewer
  <2>2. CASE u = t
    <3>0. PICK f \in GeoSettings : f = loadOf[t].file
      BY <1>2, ReadShape
    <3>1. /\ loadOf[t].at = "read" /\ loadOf'[t].at = "stat" /\ (loadOf'[t].torn <=> Torn2(t)) /\ ReadOf(t) \in File
      BY <1>2, ReadShape
    <3>2. LoadIsNewer(t)
      BY <3>1 DEF LoadsAreNewer, LoadsAt
    <3>3. ReadOf(t).stat = loadOf[t].seen.stat /\ ReadOf(t).content = geoFiles[f].content
      BY <3>0 DEF ReadOf, SourceFrom
    <3>4. SUFFICES ASSUME NEW s \in DOMAIN geoCache[1].sources, NEW cached, cached = geoCache[1].sources[s]
                   PROVE  /\ s \in DOMAIN loadOf'[t].sources =>
                               /\ cached.stat <= loadOf'[t].sources[s].stat
                               /\ ~loadOf'[t].torn => NoNewer(cached, loadOf'[t].sources[s])
                          /\ s \in loadOf'[t].failed => cached.stat < geoFiles[s].stat
      BY <2>1, <2>2, <3>1 DEF LoadIsNewer
    <3>5. /\ s \in GeoSettings /\ cached \in File /\ NoNewer(cached, geoFiles[s]) /\ cached.content # 0
          /\ geoFiles[s] \in File
      BY <1>0, <1>c, <3>4
    <3>6. /\ s \in DOMAIN loadOf[t].sources =>
               /\ cached.stat <= loadOf[t].sources[s].stat
               /\ ~loadOf[t].torn => NoNewer(cached, loadOf[t].sources[s])
          /\ s \in loadOf[t].failed => cached.stat < geoFiles[s].stat
          /\ s = f => cached.stat <= loadOf[t].seen.stat
      BY <3>0, <3>1, <3>2, <3>4 DEF LoadIsNewer
    <3>7. ~loadOf'[t].torn => ~loadOf[t].torn /\ loadOf[t].seen = geoFiles[f]
      BY <3>0, <3>1 DEF Torn2
    <3>8. CASE /\ geoFiles[f].content = 0 /\ loadOf'[t].sources = loadOf[t].sources
               /\ loadOf'[t].failed = loadOf[t].failed \cup {f}
      <4>1. s = f => cached.stat < geoFiles[s].stat
        BY <3>5, <3>8 DEF NoNewer, File
      <4>2. s \in loadOf'[t].failed => cached.stat < geoFiles[s].stat
        BY <3>6, <3>8, <4>1
      <4> QED
        BY <3>6, <3>7, <3>8, <4>2
    <3>9. CASE /\ DOMAIN loadOf'[t].sources = DOMAIN loadOf[t].sources \cup {f}
               /\ loadOf'[t].sources[f] = ReadOf(t)
               /\ \A v \in DOMAIN loadOf[t].sources : v # f => loadOf'[t].sources[v] = loadOf[t].sources[v]
               /\ loadOf'[t].failed = loadOf[t].failed
      <4>1. CASE s = f
        <5>1. cached.stat <= ReadOf(t).stat
          BY <3>3, <3>6, <4>1
        <5>2. ~loadOf'[t].torn => NoNewer(cached, ReadOf(t))
          BY <3>3, <3>5, <3>7, <4>1 DEF NoNewer
        <5> QED
          BY <3>6, <3>9, <4>1, <5>1, <5>2
      <4>2. CASE s # f
        BY <3>6, <3>7, <3>9, <4>2
      <4> QED
        BY <4>1, <4>2
    <3> QED
      BY <1>2, <3>0, <3>8, <3>9, ReadShape
  <2>3. CASE u # t
    BY <1>2, <2>1, <2>3, ReadShape DEF LoadsAreNewer, LoadIsNewer, LoadsAt
  <2> QED
    BY <2>2, <2>3
<1>3. CASE AskIndex
  <2>1. geoFiles' = geoFiles /\ geoCache' = geoCache
    BY <1>3 DEF AskIndex, KeepsFiles
  <2>2. loadOf' = loadOf \/ (loadOf'["writer"].at = "wait" /\ loadOf'["reloader"] = loadOf["reloader"])
    BY <1>3, WaitShape DEF AskIndex
  <2>3. \A u \in Threads2 : LoadsAt(u)' => loadOf'[u] = loadOf[u]
    BY <1>0, <2>2 DEF LoadsAt, Threads2
  <2> QED
    BY <1>a, <2>1, <2>3
<1>4. CASE LockAndLoad \/ ReloadBegins \/ FirstLoadRaises \/ ReloadRaises
  <2>1. /\ geoFiles' = geoFiles /\ geoCache' = geoCache
        /\ \E t \in Threads2, l \in {NoLoad, Loading("stat")} : loadOf' = [loadOf EXCEPT ![t] = l]
    BY <1>0, <1>4 DEF LockAndLoad, StartLoad, ReloadBegins, FirstLoadRaises, ReloadRaises, ReloadEnds, KeepsFiles
  <2>2. \A u \in Threads2 : LoadsAt(u)' => loadOf'[u] = loadOf[u] \/ loadOf'[u] = Loading("stat")
    BY <1>0, <1>l, <2>1 DEF LoadsAt
  <2> QED
    BY <1>a, <2>1, <2>2
<1>5. CASE InstallFirst \/ Reload2
  <2>1. PICK t \in Threads2 : LoadsAt(t) /\ loadOf' = [loadOf EXCEPT ![t] = NoLoad]
    BY <1>0, <1>5 DEF InstallFirst, Reload2, ReloadEnds, HasLoaded, LoadsAt
  <2>2. \A u \in Threads2 : ~LoadsAt(u)'
    BY <1>0, <1>l, <2>1 DEF LoadsAt, OneLoads
  <2> QED
    BY <1>b, <2>2
<1>6. CASE (\E ip \in Addresses : StoreEvent(ip)) \/ Backfill2
  BY <1>a, <1>6 DEF StoreEvent, Backfill2, KeepsFiles
<1>7. CASE StartProcess
  <2>1. \A t \in Threads2 : ~LoadsAt(t)'
    BY <1>7, <1>l DEF StartProcess, LoadsAt
  <2> QED
    BY <1>b, <2>1
<1>8. ASSUME NEW s \in GeoSettings, NEW c \in Contents, NEW asBefore \in BOOLEAN, SideLoad(s, c, asBefore)
      PROVE  LoadsAreNewer'
  <2>1. /\ geoFiles'[s].stat = sideLoads + 1 /\ \A u \in GeoSettings : u # s => geoFiles'[u] = geoFiles[u]
        /\ geoCache' = geoCache /\ loadOf' = loadOf
    BY <1>8, SideLoadShape
  <2> SUFFICES ASSUME NEW t \in Threads2, LoadsAt(t), geoCache # <<>> PROVE LoadIsNewer(t)'
    BY <2>1 DEF LoadsAreNewer, LoadsAt
  <2>2. LoadIsNewer(t)
    BY DEF LoadsAreNewer
  <2>3. ASSUME NEW u \in DOMAIN geoCache[1].sources, geoCache[1].sources[u].stat < geoFiles[u].stat
        PROVE  geoCache[1].sources[u].stat < geoFiles'[u].stat
    <3>1. /\ u \in GeoSettings /\ geoCache[1].sources[u].stat \in Nat /\ geoFiles[u].stat \in Nat
          /\ geoFiles[u].stat <= sideLoads
      BY <1>0, <1>c DEF File, StatsFit
    <3> QED
      BY <1>0, <2>1, <2>3, <3>1
  <2> QED
    BY <2>1, <2>2, <2>3 DEF LoadIsNewer
<1> QED
  BY <1>1, <1>2, <1>3, <1>4, <1>5, <1>6, <1>7, <1>8 DEF GeoNext

(* What a prospect is made of.                                               *)
LEMMA ViewShape ==
    ASSUME GeoTyped, NEW v \in Prospects
    PROVE  /\ DOMAIN v = geoConfigured /\ geoConfigured \in SUBSET GeoSettings
           /\ \A s \in geoConfigured : v[s] \in File
           /\ \/ \A s \in geoConfigured : v[s] = geoFiles[s]
              \/ \E t \in Threads2 :
                    /\ Undisturbed(t)
                    /\ \A s \in geoConfigured :
                          v[s] = IF s \in DOMAIN loadOf[t].sources THEN loadOf[t].sources[s] ELSE geoFiles[s]
<1>1. geoConfigured \in SUBSET GeoSettings /\ \A s \in GeoSettings : geoFiles[s] \in File
  BY DEF GeoTyped
<1>2. \A t \in Threads2 : \A s \in DOMAIN loadOf[t].sources : loadOf[t].sources[s] \in File
  <2>1. \A t \in Threads2 : loadOf[t].sources \in Sources
    BY BeganType DEF GeoLoad
  <2> QED
    BY <2>1, SourcesShape
<1>3. CASE v = FilesView
  BY <1>1, <1>3 DEF FilesView
<1>4. ASSUME NEW t \in Threads2, Undisturbed(t), v = ViewOf(t)
      PROVE  /\ DOMAIN v = geoConfigured
             /\ \A s \in geoConfigured :
                  v[s] = IF s \in DOMAIN loadOf[t].sources THEN loadOf[t].sources[s] ELSE geoFiles[s]
  BY <1>4 DEF ViewOf
<1>5. v = FilesView \/ \E t \in Threads2 : Undisturbed(t) /\ v = ViewOf(t)
  BY DEF Prospects
<1> QED
  BY <1>1, <1>2, <1>3, <1>4, <1>5

(* A prospect still holds when fewer loads and rows are there to say          *)
(* otherwise.                                                                *)
LEMMA ProspectKept ==
    ASSUME NEW v, ProspectHolds(v), geoStamp' = geoStamp,
           geoCache' = geoCache \/ geoCache' = <<>>,
           RowsAsOf(v) => RowsAsOf(v)',
           \A t \in Threads2 : LoadsAt(t)' =>
              \/ LoadsAt(t) /\ loadOf'[t].sources = loadOf[t].sources /\ loadOf'[t].failed = loadOf[t].failed
              \/ DOMAIN loadOf'[t].sources = {} /\ loadOf'[t].failed = {}
    PROVE  ProspectHolds(v)'
<1> SUFFICES ASSUME (\A s \in DOMAIN v : v[s].content # 0) /\ Stamped(v)'
             PROVE  (/\ RowsAsOf(v)
                     /\ geoCache # <<>> => Within(geoCache[1], v)
                     /\ \A t \in Threads2 : LoadsAt(t) => Within(loadOf[t], v))'
  BY DEF ProspectHolds
<1>1. Stamped(v)
  BY DEF Stamped
<1>2. /\ RowsAsOf(v) /\ (geoCache # <<>> => Within(geoCache[1], v))
      /\ \A t \in Threads2 : LoadsAt(t) => Within(loadOf[t], v)
  BY <1>1 DEF ProspectHolds
<1>3. RowsAsOf(v)' /\ (geoCache # <<>> => Within(geoCache[1], v))'
  BY <1>2 DEF Within
<1>4. (\A t \in Threads2 : LoadsAt(t) => Within(loadOf[t], v))'
  BY <1>2 DEF Within
<1> QED
  BY <1>3, <1>4

LEMMA RowsSame == ASSUME NEW v, geoRows' = geoRows PROVE RowsAsOf(v) => RowsAsOf(v)'
BY DEF RowsAsOf

(* A row that is stored in time has the answer of the live index.            *)
LEMMA RowStored ==
    ASSUME GeoTyped, MemosTrue, NEW ip \in Addresses, StoreEvent(ip), NEW v, RowsAsOf(v),
           geoCache # <<>> => AnswerOf(geoCache[1], ip) = AnswerOf([sources |-> v], ip)
    PROVE  RowsAsOf(v)'
<1>1. heldIndex # <<>> /\ MemoOf(heldIndex[1])
  BY DEF StoreEvent, MemosTrue
<1>2. LookupIn(heldIndex[1], ip) = AnswerOf(heldIndex[1], ip)
  BY <1>1, LookupTrue
<1>3. PICK late \in BOOLEAN : late = (geoCache # heldIndex)
  OBVIOUS
<1> DEFINE row == [ip |-> ip, answer |-> AnswerOf(heldIndex[1], ip), late |-> late]
<1>4. geoRows' = Append(geoRows, row)
  BY <1>2, <1>3, Zenon DEF StoreEvent
<1>5. row.ip = ip /\ row.answer = AnswerOf(heldIndex[1], ip) /\ row.late = late
  OBVIOUS
<1>6. ~late => geoCache = heldIndex
  BY <1>3, Zenon
<1>7. ~row.late => row.answer = AnswerOf([sources |-> v], row.ip)
  BY <1>1, <1>5, <1>6
<1> HIDE DEF row
<1>8. geoRows \in Seq(GeoRow)
  BY DEF GeoTyped
<1>9. \A i \in DOMAIN geoRows' : geoRows'[i] = row \/ (i \in DOMAIN geoRows /\ geoRows'[i] = geoRows[i])
  BY <1>4, <1>8
<1> QED
  BY <1>7, <1>9 DEF RowsAsOf

(* A backfill leaves every row with the answer of the live index.            *)
LEMMA RowsFilled ==
    ASSUME GeoTyped, MemosTrue, Backfill2, NEW v,
           \A ip \in Addresses : AnswerOf(geoCache[1], ip) = AnswerOf([sources |-> v], ip)
    PROVE  RowsAsOf(v)'
<1>1. geoCache # <<>> /\ MemoOf(geoCache[1])
  BY DEF Backfill2, MemosTrue
<1>2. geoRows' = [i \in DOMAIN geoRows |->
                     [geoRows[i] EXCEPT !.answer = LookupIn(geoCache[1], geoRows[i].ip), !.late = FALSE]]
  BY DEF Backfill2
<1>3. geoRows \in Seq(GeoRow)
  BY DEF GeoTyped
<1> SUFFICES ASSUME NEW i \in DOMAIN geoRows
             PROVE  geoRows'[i].answer = AnswerOf([sources |-> v], geoRows'[i].ip)
  BY <1>2 DEF RowsAsOf
<1>4. geoRows[i] \in GeoRow
  BY <1>3
<1>5. PICK row \in GeoRow : row = geoRows[i]
  BY <1>4
<1>6. PICK answer : answer = LookupIn(geoCache[1], row.ip)
  OBVIOUS
<1>7. answer = AnswerOf([sources |-> v], row.ip)
  BY <1>1, <1>5, <1>6, LookupTrue DEF GeoRow
<1>8. geoRows'[i] = [row EXCEPT !.answer = answer, !.late = FALSE]
  BY <1>2, <1>5, <1>6
<1>9. geoRows'[i].answer = answer /\ geoRows'[i].ip = row.ip
  BY <1>8 DEF GeoRow
<1> QED
  BY <1>7, <1>9

(* An index that lacks nothing and reads as a prospect answers as it does.   *)
LEMMA WithinAnswers ==
    ASSUME GeoTyped, PartsFit, geoCache # <<>>, NEW v, DOMAIN v = geoConfigured, Within(geoCache[1], v), NEW ip
    PROVE  AnswerOf(geoCache[1], ip) = AnswerOf([sources |-> v], ip)
<1>1. geoConfigured \in SUBSET GeoSettings
  BY DEF GeoTyped
<1>2. PICK x : x = geoCache[1]
  OBVIOUS
<1>3. DOMAIN x.sources = geoConfigured
  BY <1>2 DEF PartsFit, Parts, Within
<1>4. PICK y : y = [sources |-> v]
  OBVIOUS
<1>5. y.sources = v
  BY <1>4
<1>6. \A s \in DOMAIN x.sources : x.sources[s].content = y.sources[s].content
  BY <1>2, <1>5 DEF Within
<1> QED
  BY <1>1, <1>2, <1>3, <1>4, <1>5, <1>6, AnswerSame

(* When the index is as new as a prospect, it reads as the prospect, and so  *)
(* does a load in between: what lies between two equals is their equal.       *)
LEMMA FreshIsWithin ==
    ASSUME GeoTyped, OneLoads, PartsFit, FilesAreNewer, LoadsAreNewer, geoCache # <<>>,
           NEW v \in Prospects, DOMAIN v = DOMAIN geoCache[1].sources,
           \A s \in DOMAIN v : geoCache[1].sources[s].stat = v[s].stat
    PROVE  /\ Within(geoCache[1], v)
           /\ \A t \in Threads2 : LoadsAt(t) => Within(loadOf[t], v)
<1>0. /\ DOMAIN v = geoConfigured /\ geoConfigured \in SUBSET GeoSettings
      /\ \/ \A s \in geoConfigured : v[s] = geoFiles[s]
         \/ \E t \in Threads2 :
               /\ Undisturbed(t)
               /\ \A s \in geoConfigured :
                     v[s] = IF s \in DOMAIN loadOf[t].sources THEN loadOf[t].sources[s] ELSE geoFiles[s]
  BY ViewShape
<1>1. /\ geoCache[1] \in GeoIndex /\ Parts(geoCache[1], {})
      /\ \A s \in DOMAIN geoCache[1].sources : NoNewer(geoCache[1].sources[s], geoFiles[s])
  BY BeganType DEF PartsFit, FilesAreNewer
<1>2. geoCache[1].failed = {}
  BY <1>0, <1>1 DEF Parts
<1>3. \A s \in geoConfigured : geoCache[1].sources[s] \in File /\ geoFiles[s] \in File
  BY <1>0, <1>1, SourcesShape DEF GeoIndex, GeoTyped
<1>4. ASSUME NEW t \in Threads2, LoadsAt(t)
      PROVE  /\ DOMAIN loadOf[t].sources \subseteq geoConfigured /\ loadOf[t].failed \subseteq geoConfigured
             /\ \A s \in DOMAIN loadOf[t].sources :
                   loadOf[t].sources[s] \in File /\ NoNewer(loadOf[t].sources[s], geoFiles[s])
             /\ LoadIsNewer(t)
  <2>1. loadOf[t].sources \in Sources
    BY BeganType DEF GeoLoad
  <2> QED
    BY <1>4, <2>1, SourcesShape DEF PartsFit, Parts, FilesAreNewer, LoadsAreNewer
<1>5. CASE \A s \in geoConfigured : v[s] = geoFiles[s]
  <2>1. \A s \in geoConfigured : geoCache[1].sources[s].content = v[s].content
    BY <1>0, <1>1, <1>5 DEF NoNewer
  <2>2. ASSUME NEW t \in Threads2, LoadsAt(t) PROVE Within(loadOf[t], v)
    <3>1. ASSUME NEW s \in loadOf[t].failed PROVE FALSE
      <4>1. geoCache[1].sources[s].stat < geoFiles[s].stat /\ s \in geoConfigured
        BY <1>0, <1>4, <2>2 DEF LoadIsNewer
      <4> QED
        BY <1>0, <1>3, <1>5, <4>1 DEF File
    <3>2. ASSUME NEW s \in DOMAIN loadOf[t].sources PROVE loadOf[t].sources[s].content = v[s].content
      <4>1. s \in geoConfigured /\ loadOf[t].sources[s] \in File /\ NoNewer(loadOf[t].sources[s], geoFiles[s])
        BY <1>4, <2>2
      <4>2. geoCache[1].sources[s].stat <= loadOf[t].sources[s].stat
        BY <1>0, <1>4, <2>2, <4>1 DEF LoadIsNewer
      <4>3. geoCache[1].sources[s].stat = geoFiles[s].stat
        BY <1>0, <1>5, <4>1
      <4>4. loadOf[t].sources[s].stat = geoFiles[s].stat
        BY <1>3, <4>1, <4>2, <4>3 DEF NoNewer, File
      <4> QED
        BY <1>5, <4>1, <4>4 DEF NoNewer
    <3> QED
      BY <3>1, <3>2 DEF Within
  <2> QED
    BY <1>0, <1>2, <2>1, <2>2 DEF Within
<1>6. ASSUME NEW t \in Threads2, Undisturbed(t),
             \A s \in geoConfigured :
                v[s] = IF s \in DOMAIN loadOf[t].sources THEN loadOf[t].sources[s] ELSE geoFiles[s]
      PROVE  /\ Within(geoCache[1], v)
             /\ \A u \in Threads2 : LoadsAt(u) => Within(loadOf[u], v)
  <2>0. LoadsAt(t) /\ ~loadOf[t].torn /\ loadOf[t].failed = {}
    BY <1>6 DEF Undisturbed
  <2>1. ASSUME NEW s \in geoConfigured PROVE geoCache[1].sources[s].content = v[s].content
    <3>1. CASE s \in DOMAIN loadOf[t].sources
      <4>1. NoNewer(geoCache[1].sources[s], loadOf[t].sources[s]) /\ v[s] = loadOf[t].sources[s]
        BY <1>0, <1>4, <1>6, <2>0, <3>1 DEF LoadIsNewer
      <4> QED
        BY <1>0, <4>1 DEF NoNewer
    <3>2. CASE s \notin DOMAIN loadOf[t].sources
      BY <1>0, <1>1, <1>6, <3>2 DEF NoNewer
    <3> QED
      BY <3>1, <3>2
  <2>2. ASSUME NEW u \in Threads2, LoadsAt(u) PROVE Within(loadOf[u], v)
    <3>1. u = t
      BY <2>0, <2>2 DEF OneLoads
    <3>2. \A s \in DOMAIN loadOf[t].sources : v[s] = loadOf[t].sources[s]
      BY <1>4, <1>6, <2>0
    <3> QED
      BY <2>0, <3>1, <3>2 DEF Within
  <2> QED
    BY <1>0, <1>2, <2>1, <2>2 DEF Within
<1> QED
  BY <1>0, <1>5, <1>6

(* The end of a load leaves no load, and the files as the only prospect.     *)
LEMMA LoadEnds ==
    ASSUME GeoTyped, OneLoads, InstallFirst \/ FirstLoadRaises \/ Reload2 \/ ReloadRaises
    PROVE  /\ \A u \in Threads2 : ~LoadsAt(u)'
           /\ geoFiles' = geoFiles /\ geoConfigured' = geoConfigured
           /\ \A v \in Prospects' : v = FilesView
           /\ FilesView \in Prospects
<1>0. /\ loadOf \in [Threads2 -> GeoLoad] /\ "writer" \in Threads2 /\ "reloader" \in Threads2
      /\ NoLoad \in GeoLoad /\ NoLoad.at = "idle"
  BY LoadingShape DEF GeoTyped, Threads2
<1>1. PICK t \in Threads2 : LoadsAt(t) /\ loadOf' = [loadOf EXCEPT ![t] = NoLoad]
  BY <1>0 DEF InstallFirst, FirstLoadRaises, Reload2, ReloadRaises, ReloadEnds, HasLoaded, LoadsAt
<1>2. \A u \in Threads2 : ~LoadsAt(u)'
  BY <1>0, <1>1 DEF LoadsAt, OneLoads
<1>3. geoFiles' = geoFiles /\ geoConfigured' = geoConfigured
  BY DEF InstallFirst, FirstLoadRaises, Reload2, ReloadRaises, ReloadEnds, KeepsFiles
<1>4. FilesView' = FilesView
  BY <1>3 DEF FilesView
<1>5. \A v \in Prospects' : v = FilesView'
  BY <1>2 DEF Prospects, Undisturbed
<1> QED
  BY <1>2, <1>3, <1>4, <1>5 DEF Prospects

(* A step of a load that changes no file leaves its prospect what it was.    *)
LEMMA ViewsStay ==
    ASSUME geoFiles' = geoFiles, geoConfigured' = geoConfigured, GeoTyped,
           \A t \in Threads2 : Undisturbed(t)' =>
              \/ Undisturbed(t) /\ \A s \in geoConfigured :
                    (IF s \in DOMAIN loadOf[t].sources THEN loadOf[t].sources[s] ELSE geoFiles[s])
                      = (IF s \in DOMAIN loadOf'[t].sources THEN loadOf'[t].sources[s] ELSE geoFiles[s])
              \/ DOMAIN loadOf'[t].sources = {}
    PROVE  Prospects' \subseteq Prospects
<1>1. FilesView' = FilesView
  BY DEF FilesView
<1>2. ASSUME NEW t \in Threads2, Undisturbed(t)' PROVE ViewOf(t)' \in Prospects
  <2>1. CASE Undisturbed(t) /\ \A s \in geoConfigured :
                    (IF s \in DOMAIN loadOf[t].sources THEN loadOf[t].sources[s] ELSE geoFiles[s])
                      = (IF s \in DOMAIN loadOf'[t].sources THEN loadOf'[t].sources[s] ELSE geoFiles[s])
    <3>1. ViewOf(t)' = ViewOf(t)
      BY <2>1 DEF ViewOf
    <3> QED
      BY <2>1, <3>1 DEF Prospects
  <2>2. CASE DOMAIN loadOf'[t].sources = {}
    <3>1. ViewOf(t)' = FilesView
      BY <2>2 DEF ViewOf, FilesView
    <3> QED
      BY <3>1 DEF Prospects
  <2> QED
    BY <1>2, <2>1, <2>2
<1>3. \A v \in Prospects' : v = FilesView' \/ \E t \in Threads2 : Undisturbed(t)' /\ v = ViewOf(t)'
  BY DEF Prospects
<1> QED
  BY <1>1, <1>2, <1>3 DEF Prospects

(* The same stamp, or the stamp of the live index.                           *)
LEMMA StampedAsIndex ==
    ASSUME NEW x \in GeoIndex, geoStamp' = <<FingerprintOf(x)>>, NEW v, Stamped(v)'
    PROVE  DOMAIN v = DOMAIN x.sources /\ \A s \in DOMAIN v : x.sources[s].stat = v[s].stat
<1>1. PICK print : print = FingerprintOf(x)
  OBVIOUS
<1>2. DOMAIN print = DOMAIN x.sources /\ \A s \in DOMAIN x.sources : print[s][1] = x.sources[s].stat
  BY <1>1, PrintShape
<1>3. geoStamp'[1] = print
  BY <1>1
<1> QED
  BY <1>2, <1>3 DEF Stamped

LEMMA ProspectsRead ==
    ASSUME GeoTyped, OneLoads, PartsFit, \A v \in Prospects : ProspectHolds(v), NEW t \in Threads2, ReadSource(t)
    PROVE  \A v \in Prospects' : ProspectHolds(v)'
<1>1. /\ geoFiles' = geoFiles /\ geoConfigured' = geoConfigured /\ geoCache' = geoCache
      /\ geoRows' = geoRows /\ geoStamp' = geoStamp
  BY DEF ReadSource, KeepsFiles, KeepsStore
<1>2. PICK f \in GeoSettings : f = loadOf[t].file
  BY ReadShape
<1>3. /\ LoadsAt(t) /\ f \in loadOf[t].todo /\ loadOf[t].at = "read"
      /\ (loadOf'[t].torn <=> Torn2(t))
      /\ \/ /\ geoFiles[f].content = 0
            /\ loadOf'[t].sources = loadOf[t].sources
            /\ loadOf'[t].failed = loadOf[t].failed \cup {f}
         \/ /\ geoFiles[f].content # 0
            /\ DOMAIN loadOf'[t].sources = DOMAIN loadOf[t].sources \cup {f}
            /\ loadOf'[t].sources[f] = ReadOf(t)
            /\ \A s \in DOMAIN loadOf[t].sources : s # f => loadOf'[t].sources[s] = loadOf[t].sources[s]
            /\ loadOf'[t].failed = loadOf[t].failed
      /\ \A u \in Threads2 : u # t => loadOf'[u] = loadOf[u]
  BY <1>2, ReadShape DEF LoadsAt
<1>4. Parts(loadOf[t], loadOf[t].todo) /\ f \notin DOMAIN loadOf[t].sources /\ f \in geoConfigured
  BY <1>3 DEF PartsFit, Parts
<1>5. geoFiles[f] \in File /\ ReadOf(t).content = geoFiles[f].content /\ ReadOf(t).stat = loadOf[t].seen.stat
  BY <1>2 DEF GeoTyped, ReadOf, SourceFrom
<1>6. ASSUME Undisturbed(t)'
      PROVE  Undisturbed(t) /\ \A s \in geoConfigured :
                    (IF s \in DOMAIN loadOf[t].sources THEN loadOf[t].sources[s] ELSE geoFiles[s])
                      = (IF s \in DOMAIN loadOf'[t].sources THEN loadOf'[t].sources[s] ELSE geoFiles[s])
  <2>1. ~loadOf[t].torn /\ loadOf[t].seen = geoFiles[f]
    BY <1>2, <1>3, <1>6 DEF Undisturbed, Torn2
  <2>2. loadOf[t].failed = {} /\ geoFiles[f].content # 0
    BY <1>3, <1>6 DEF Undisturbed
  <2>3. ReadOf(t) = geoFiles[f]
    BY <1>2, <1>5, <2>1 DEF ReadOf, SourceFrom, File
  <2>4. \A s \in geoConfigured :
                    (IF s \in DOMAIN loadOf[t].sources THEN loadOf[t].sources[s] ELSE geoFiles[s])
                      = (IF s \in DOMAIN loadOf'[t].sources THEN loadOf'[t].sources[s] ELSE geoFiles[s])
    BY <1>3, <1>4, <2>2, <2>3
  <2> QED
    BY <1>2, <1>3, <2>1, <2>2, <2>4 DEF Undisturbed
<1>7. Prospects' \subseteq Prospects
  <2>1. ASSUME NEW u \in Threads2, u # t, Undisturbed(u)' PROVE Undisturbed(u) /\ loadOf'[u] = loadOf[u]
    BY <1>1, <1>3, <2>1 DEF Undisturbed, LoadsAt
  <2> QED
    BY <1>1, <1>6, <2>1, ViewsStay
<1> SUFFICES ASSUME NEW v \in Prospects, \A s \in DOMAIN v : v[s].content # 0, Stamped(v)'
             PROVE  (/\ RowsAsOf(v)
                     /\ geoCache # <<>> => Within(geoCache[1], v)
                     /\ \A u \in Threads2 : LoadsAt(u) => Within(loadOf[u], v))'
  BY <1>7 DEF ProspectHolds
<1>8. Stamped(v)
  BY <1>1 DEF Stamped
<1>9. /\ RowsAsOf(v) /\ (geoCache # <<>> => Within(geoCache[1], v))
      /\ \A u \in Threads2 : LoadsAt(u) => Within(loadOf[u], v)
  BY <1>8 DEF ProspectHolds
<1>10. v[f] = geoFiles[f] /\ f \in DOMAIN v
  <2>1. DOMAIN v = geoConfigured
    BY ViewShape
  <2>2. ASSUME NEW u \in Threads2, Undisturbed(u),
               \A s \in geoConfigured :
                  v[s] = IF s \in DOMAIN loadOf[u].sources THEN loadOf[u].sources[s] ELSE geoFiles[s]
        PROVE  v[f] = geoFiles[f]
    <3>1. u = t
      BY <1>3, <2>2 DEF Undisturbed, OneLoads
    <3> QED
      BY <1>4, <2>2, <3>1
  <2> QED
    BY <1>4, <2>1, <2>2, ViewShape
<1>11. geoFiles[f].content # 0
  BY <1>10
<1>12. Within(loadOf'[t], v)
  BY <1>3, <1>5, <1>9, <1>10, <1>11 DEF Within
<1>13. ASSUME NEW u \in Threads2, LoadsAt(u)' PROVE Within(loadOf'[u], v)
  BY <1>3, <1>9, <1>12, <1>13 DEF LoadsAt
<1>14. RowsAsOf(v)' /\ (geoCache # <<>> => Within(geoCache[1], v))'
  BY <1>1, <1>9, RowsSame DEF Within
<1> QED
  BY <1>13, <1>14 DEF Within

LEMMA ProspectsEnd ==
    ASSUME GeoTyped, OneLoads, PartsFit, FilesAreNewer, LoadsAreNewer, StatsFit,
           \A v \in Prospects : ProspectHolds(v),
           InstallFirst \/ FirstLoadRaises \/ Reload2 \/ ReloadRaises, GeoNext
    PROVE  \A v \in Prospects' : ProspectHolds(v)'
<1>0. /\ \A u \in Threads2 : ~LoadsAt(u)'
      /\ geoFiles' = geoFiles /\ geoConfigured' = geoConfigured
      /\ \A v \in Prospects' : v = FilesView
      /\ FilesView \in Prospects
      /\ "writer" \in Threads2 /\ "reloader" \in Threads2
  BY LoadEnds DEF Threads2
<1>1. geoRows' = geoRows
  BY DEF InstallFirst, FirstLoadRaises, Reload2, ReloadRaises, ReloadEnds, KeepsStore
<1>2. PICK v \in Prospects : v = FilesView
  BY <1>0
<1> SUFFICES ASSUME \A s \in DOMAIN v : v[s].content # 0, Stamped(v)'
             PROVE  (RowsAsOf(v) /\ (geoCache # <<>> => Within(geoCache[1], v)))'
  BY <1>0, <1>2 DEF ProspectHolds
<1>3. /\ DOMAIN v = geoConfigured /\ \A s \in DOMAIN v : v[s] = geoFiles[s]
  BY <1>2 DEF FilesView
<1>4. /\ \E t \in Threads2 : LoadsAt(t)
      /\ \/ geoCache' = geoCache
         \/ \E t \in Threads2 : LoadsAt(t) /\ geoCache' = <<LoadedIndex(t)>>
  <2>1. CASE Reload2
    <3>1. LoadsAt("reloader") /\ (geoCache' = geoCache \/ geoCache' = <<LoadedIndex("reloader")>>)
      BY <2>1, ReloadShape DEF HasLoaded, LoadsAt
    <3> QED
      BY <1>0, <3>1
  <2> QED
    BY <1>0, <2>1 DEF InstallFirst, FirstLoadRaises, ReloadRaises, HasLoaded, LoadsAt
<1>5. CASE geoStamp' = geoStamp
  <2>1. Stamped(v)
    BY <1>5 DEF Stamped
  <2>2. /\ RowsAsOf(v) /\ (geoCache # <<>> => Within(geoCache[1], v))
        /\ \A u \in Threads2 : LoadsAt(u) => Within(loadOf[u], v)
    BY <2>1 DEF ProspectHolds
  <2>3. ASSUME NEW t \in Threads2, LoadsAt(t), geoCache' = <<LoadedIndex(t)>> PROVE Within(geoCache'[1], v)
    <3>1. geoCache'[1].sources = loadOf[t].sources /\ geoCache'[1].failed = loadOf[t].failed
      BY <2>3, IndexShape
    <3> QED
      BY <2>2, <2>3, <3>1 DEF Within
  <2>4. (geoCache # <<>> => Within(geoCache[1], v))'
    BY <1>4, <2>2, <2>3 DEF Within
  <2> QED
    BY <1>1, <2>2, <2>4, RowsSame
<1>6. ASSUME geoCache' # <<>>, geoStamp' = <<FingerprintOf(geoCache'[1])>>, geoRows' = <<>>
      PROVE  (RowsAsOf(v) /\ (geoCache # <<>> => Within(geoCache[1], v)))'
  <2>1. RowsAsOf(v)'
    BY <1>6 DEF RowsAsOf
  <2>2. CASE geoCache' = geoCache
    <3>1. geoCache[1] \in GeoIndex /\ geoStamp' = <<FingerprintOf(geoCache[1])>> /\ geoCache # <<>>
      BY <1>6, <2>2, BeganType
    <3>2. DOMAIN v = DOMAIN geoCache[1].sources /\ \A s \in DOMAIN v : geoCache[1].sources[s].stat = v[s].stat
      BY <3>1, StampedAsIndex
    <3>3. Within(geoCache[1], v)
      BY <3>1, <3>2, FreshIsWithin
    <3> QED
      BY <2>1, <2>2, <3>3 DEF Within
  <2>3. ASSUME NEW t \in Threads2, LoadsAt(t), geoCache' = <<LoadedIndex(t)>> PROVE Within(geoCache'[1], v)
    <3>1. PICK x \in GeoIndex : x = LoadedIndex(t)
      BY IndexShape
    <3>2. geoCache'[1] = x /\ x.sources = loadOf[t].sources /\ x.failed = loadOf[t].failed
      BY <2>3, <3>1, IndexShape
    <3>3. DOMAIN v = DOMAIN x.sources /\ \A s \in DOMAIN v : x.sources[s].stat = v[s].stat
      BY <1>6, <3>2, StampedAsIndex
    <3>4. Parts(loadOf[t], loadOf[t].todo) /\ \A s \in DOMAIN loadOf[t].sources : NoNewer(loadOf[t].sources[s], geoFiles[s])
      BY <2>3 DEF PartsFit, FilesAreNewer
    <3>5. x.failed = {}
      BY <1>3, <3>2, <3>3, <3>4 DEF Parts
    <3>6. \A s \in DOMAIN x.sources : x.sources[s].content = v[s].content
      BY <1>3, <3>2, <3>3, <3>4 DEF NoNewer
    <3> QED
      BY <3>2, <3>5, <3>6 DEF Within
  <2>4. (geoCache # <<>> => Within(geoCache[1], v))'
    BY <1>4, <1>6, <2>2, <2>3 DEF Within
  <2> QED
    BY <2>1, <2>4
<1>7. ASSUME geoCache' = <<>>, geoRows' = <<>> PROVE (RowsAsOf(v) /\ (geoCache # <<>> => Within(geoCache[1], v)))'
  BY <1>7 DEF RowsAsOf
<1>8. ~Backfill2
  BY <1>0, <1>4 DEF Backfill2, LoadsAt
<1> QED
  BY <1>5, <1>6, <1>7, <1>8, StampShape

LEMMA ProspectsBackfill ==
    ASSUME GeoTyped, OneLoads, PartsFit, MemosTrue, FilesAreNewer, LoadsAreNewer,
           \A v \in Prospects : ProspectHolds(v), Backfill2
    PROVE  \A v \in Prospects' : ProspectHolds(v)'
<1>1. /\ UNCHANGED <<geoFiles, geoConfigured, geoCache, loadOf>> /\ geoCache # <<>>
      /\ geoStamp' = geoStamp \/ geoStamp' = <<FingerprintOf(geoCache[1])>>
  BY DEF Backfill2, KeepsFiles
<1>2. Prospects' = Prospects
  BY <1>1 DEF Prospects, FilesView, ViewOf, Undisturbed, LoadsAt
<1> SUFFICES ASSUME NEW v \in Prospects, \A s \in DOMAIN v : v[s].content # 0, Stamped(v)'
             PROVE  (/\ RowsAsOf(v)
                     /\ geoCache # <<>> => Within(geoCache[1], v)
                     /\ \A u \in Threads2 : LoadsAt(u) => Within(loadOf[u], v))'
  BY <1>2 DEF ProspectHolds
<1>3. Within(geoCache[1], v) /\ \A u \in Threads2 : LoadsAt(u) => Within(loadOf[u], v)
  <2>1. CASE geoStamp' = geoStamp
    <3>1. Stamped(v)
      BY <2>1 DEF Stamped
    <3> QED
      BY <1>1, <3>1 DEF ProspectHolds
  <2>2. CASE geoStamp' = <<FingerprintOf(geoCache[1])>>
    <3>1. geoCache[1] \in GeoIndex
      BY <1>1, BeganType
    <3>2. DOMAIN v = DOMAIN geoCache[1].sources /\ \A s \in DOMAIN v : geoCache[1].sources[s].stat = v[s].stat
      BY <2>2, <3>1, StampedAsIndex
    <3> QED
      BY <1>1, <3>2, FreshIsWithin
  <2> QED
    BY <1>1, <2>1, <2>2
<1>4. DOMAIN v = geoConfigured
  BY ViewShape
<1>5. \A ip \in Addresses : AnswerOf(geoCache[1], ip) = AnswerOf([sources |-> v], ip)
  BY <1>1, <1>3, <1>4, WithinAnswers
<1>6. RowsAsOf(v)'
  BY <1>5, RowsFilled
<1> QED
  BY <1>1, <1>3, <1>6 DEF Within, LoadsAt

LEMMA ProspectsSideLoad ==
    ASSUME GeoTyped, StatsFit, FilesAreNewer, \A v \in Prospects : ProspectHolds(v), PartsFit,
           NEW s \in GeoSettings, NEW c \in Contents, NEW asBefore \in BOOLEAN, SideLoad(s, c, asBefore), ~preserved'
    PROVE  \A v \in Prospects' : ProspectHolds(v)'
<1>1. /\ geoFiles'[s].stat = sideLoads + 1 /\ \A u \in GeoSettings : u # s => geoFiles'[u] = geoFiles[u]
      /\ UNCHANGED <<geoConfigured, geoCache, loadOf, geoRows, geoStamp>>
      /\ sideLoads \in Nat /\ geoConfigured \in SUBSET GeoSettings /\ geoFiles[s].stat <= sideLoads
      /\ geoFiles[s] \in File
  BY SideLoadShape DEF GeoTyped, StatsFit
<1>2. ASSUME NEW v \in Prospects, v \in Prospects' PROVE ProspectHolds(v)'
  BY <1>1, <1>2, RowsSame, ProspectKept DEF LoadsAt
<1>3. ASSUME NEW v, s \in DOMAIN v, v[s].stat = sideLoads + 1 PROVE ProspectHolds(v)'
  <2> SUFFICES ASSUME Stamped(v)' PROVE FALSE
    BY DEF ProspectHolds
  <2>1. s \in DOMAIN geoStamp[1] /\ geoStamp[1][s][1] = sideLoads + 1 /\ geoStamp # <<>>
    BY <1>1, <1>3 DEF Stamped
  <2>2. geoStamp[1][s][1] <= sideLoads
    BY <2>1 DEF StatsFit
  <2> QED
    BY <1>1, <2>1, <2>2
<1>4. ASSUME NEW v, v = FilesView' PROVE ProspectHolds(v)'
  <2>2. CASE s \in geoConfigured
    BY <1>1, <1>3, <1>4, <2>2 DEF FilesView
  <2>3. CASE s \notin geoConfigured
    <3>1. FilesView' = FilesView
      BY <1>1, <2>3 DEF FilesView
    <3>2. v \in Prospects /\ v \in Prospects'
      BY <1>4, <3>1 DEF Prospects
    <3> QED
      BY <1>2, <3>2
  <2> QED
    BY <2>2, <2>3
<1>5. ASSUME NEW t \in Threads2, Undisturbed(t)', NEW v, v = ViewOf(t)' PROVE ProspectHolds(v)'
  <2>1. CASE s \in geoConfigured /\ s \notin DOMAIN loadOf[t].sources
    BY <1>1, <1>3, <1>5, <2>1 DEF ViewOf
  <2>2. CASE s \notin geoConfigured \/ s \in DOMAIN loadOf[t].sources
    <3>1. v = ViewOf(t)
      BY <1>1, <1>5, <2>2 DEF ViewOf
    <3>2. ASSUME loadOf[t].at = "read" PROVE loadOf[t].seen = geoFiles[loadOf[t].file]
      <4>1. LoadsAt(t) /\ loadOf[t].seen = geoFiles'[loadOf[t].file]
        BY <1>1, <1>5, <3>2 DEF Undisturbed, LoadsAt
      <4>2. loadOf[t].file \in geoConfigured /\ NoNewer(loadOf[t].seen, geoFiles[loadOf[t].file])
        BY <3>2, <4>1 DEF PartsFit, Parts, FilesAreNewer
      <4>3. loadOf[t].file # s
        BY <1>1, <4>1, <4>2 DEF NoNewer, File
      <4> QED
        BY <1>1, <4>1, <4>2, <4>3
    <3>3. Undisturbed(t)
      BY <1>1, <1>5, <3>2 DEF Undisturbed, LoadsAt
    <3>4. v \in Prospects /\ v \in Prospects'
      BY <1>5, <3>1, <3>3 DEF Prospects
    <3> QED
      BY <1>2, <3>4
  <2> QED
    BY <2>1, <2>2
<1>6. \A v \in Prospects' : v = FilesView' \/ \E t \in Threads2 : Undisturbed(t)' /\ v = ViewOf(t)'
  BY DEF Prospects
<1> QED
  BY <1>4, <1>5, <1>6

LEMMA ProspectsStart ==
    ASSUME GeoTyped, StatsFit, \A v \in Prospects : ProspectHolds(v), StartProcess
    PROVE  \A v \in Prospects' : ProspectHolds(v)'
<1>0. "writer" \in Threads2 /\ NoLoad.at = "idle"
  BY LoadingShape DEF Threads2
<1>1. /\ UNCHANGED <<geoFiles, geoRows, geoStamp>> /\ geoCache' = <<>> /\ geoConfigured \subseteq geoConfigured'
      /\ \A t \in Threads2 : ~LoadsAt(t)'
  BY <1>0 DEF StartProcess, LoadsAt, GeoTyped
<1>2. \A v \in Prospects' : v = FilesView'
  BY <1>1 DEF Prospects, Undisturbed
<1> SUFFICES ASSUME NEW v, v = FilesView', \A s \in DOMAIN v : v[s].content # 0, Stamped(v)'
             PROVE  RowsAsOf(v)'
  BY <1>1, <1>2 DEF ProspectHolds
<1>3. DOMAIN v = geoConfigured' /\ geoStamp # <<>> /\ DOMAIN geoStamp[1] = geoConfigured'
  BY <1>1 DEF Stamped, FilesView
<1>4. geoConfigured' = geoConfigured
  BY <1>1, <1>3 DEF StatsFit
<1>5. FilesView' = FilesView
  BY <1>1, <1>4 DEF FilesView
<1>6. v \in Prospects /\ Stamped(v)
  BY <1>1, <1>5 DEF Prospects, Stamped
<1> QED
  BY <1>1, <1>6, RowsSame DEF ProspectHolds

LEMMA ProspectsNext ==
    ASSUME GeoTyped, OneLoads, PartsFit, MemosTrue, StatsFit, FilesAreNewer, LoadsAreNewer,
           \A v \in Prospects : ProspectHolds(v), GeoNext, ~preserved'
    PROVE  \A v \in Prospects' : ProspectHolds(v)'
<1>0. /\ loadOf \in [Threads2 -> GeoLoad] /\ "writer" \in Threads2 /\ "reloader" \in Threads2
      /\ NoLoad \in GeoLoad /\ NoLoad.at = "idle" /\ Loading("stat") \in GeoLoad
      /\ DOMAIN Loading("stat").sources = {} /\ Loading("stat").failed = {}
  BY LoadingShape, NoSourcesType DEF GeoTyped, Threads2
<1>a. ASSUME UNCHANGED <<geoFiles, geoConfigured, geoCache, geoRows, geoStamp>>,
             \A t \in Threads2 : LoadsAt(t)' =>
                \/ loadOf'[t] = loadOf[t]
                \/ DOMAIN loadOf'[t].sources = {} /\ loadOf'[t].failed = {}
      PROVE  \A v \in Prospects' : ProspectHolds(v)'
  <2>1. \A t \in Threads2 : LoadsAt(t)' =>
          \/ LoadsAt(t) /\ loadOf'[t].sources = loadOf[t].sources /\ loadOf'[t].failed = loadOf[t].failed
          \/ DOMAIN loadOf'[t].sources = {} /\ loadOf'[t].failed = {}
    BY <1>a DEF LoadsAt
  <2>2. \A t \in Threads2 : Undisturbed(t)' =>
              (Undisturbed(t) /\ loadOf'[t] = loadOf[t]) \/ DOMAIN loadOf'[t].sources = {}
    BY <1>a DEF Undisturbed, LoadsAt
  <2>3. Prospects' \subseteq Prospects
    BY <1>a, <2>2, ViewsStay
  <2> QED
    BY <1>a, <2>1, <2>3, RowsSame, ProspectKept
<1>1. ASSUME NEW t \in Threads2, StatSource(t) PROVE \A v \in Prospects' : ProspectHolds(v)'
  <2>1. UNCHANGED <<geoFiles, geoConfigured, geoCache, geoRows, geoStamp>>
    BY <1>1 DEF StatSource, KeepsFiles, KeepsStore
  <2>2. \A u \in Threads2 : LoadsAt(u)' =>
          LoadsAt(u) /\ loadOf'[u].sources = loadOf[u].sources /\ loadOf'[u].failed = loadOf[u].failed
    BY <1>1, StatShape DEF LoadsAt
  <2>3. \A u \in Threads2 : Undisturbed(u)' => Undisturbed(u) /\ loadOf'[u].sources = loadOf[u].sources
    BY <1>1, <2>1, StatShape DEF Undisturbed, LoadsAt
  <2>4. Prospects' \subseteq Prospects
    BY <2>1, <2>3, ViewsStay
  <2> QED
    BY <2>1, <2>2, <2>4, RowsSame, ProspectKept
<1>2. ASSUME NEW t \in Threads2, ReadSource(t) PROVE \A v \in Prospects' : ProspectHolds(v)'
  BY <1>2, ProspectsRead
<1>3. CASE AskIndex
  <2>1. loadOf' = loadOf \/ (loadOf'["writer"].at = "wait" /\ loadOf'["reloader"] = loadOf["reloader"])
    BY <1>3, WaitShape DEF AskIndex
  <2>2. \A u \in Threads2 : LoadsAt(u)' => loadOf'[u] = loadOf[u]
    BY <1>0, <2>1 DEF LoadsAt, Threads2
  <2> QED
    BY <1>a, <1>3, <2>2 DEF AskIndex, KeepsFiles, KeepsStore
<1>4. CASE LockAndLoad \/ ReloadBegins
  <2>1. \E t \in Threads2, l \in {NoLoad, Loading("stat")} : loadOf' = [loadOf EXCEPT ![t] = l]
    BY <1>0, <1>4 DEF LockAndLoad, StartLoad, ReloadBegins
  <2>2. \A u \in Threads2 : LoadsAt(u)' => loadOf'[u] = loadOf[u] \/ loadOf'[u] = Loading("stat")
    BY <1>0, <2>1 DEF LoadsAt
  <2> QED
    BY <1>0, <1>a, <1>4, <2>2 DEF LockAndLoad, StartLoad, ReloadBegins, KeepsFiles, KeepsStore
<1>5. CASE InstallFirst \/ FirstLoadRaises \/ Reload2 \/ ReloadRaises
  BY <1>5, ProspectsEnd
<1>6. ASSUME NEW ip \in Addresses, StoreEvent(ip) PROVE \A v \in Prospects' : ProspectHolds(v)'
  <2>1. UNCHANGED <<geoFiles, geoConfigured, geoCache, loadOf, geoStamp>>
    BY <1>6 DEF StoreEvent, KeepsFiles
  <2>2. Prospects' = Prospects
    BY <2>1 DEF Prospects, FilesView, ViewOf, Undisturbed, LoadsAt
  <2> SUFFICES ASSUME NEW v \in Prospects, \A s \in DOMAIN v : v[s].content # 0, Stamped(v)'
               PROVE  (/\ RowsAsOf(v)
                       /\ geoCache # <<>> => Within(geoCache[1], v)
                       /\ \A u \in Threads2 : LoadsAt(u) => Within(loadOf[u], v))'
    BY <2>2 DEF ProspectHolds
  <2>3. Stamped(v)
    BY <2>1 DEF Stamped
  <2>4. /\ RowsAsOf(v) /\ (geoCache # <<>> => Within(geoCache[1], v))
        /\ \A u \in Threads2 : LoadsAt(u) => Within(loadOf[u], v)
    BY <2>3 DEF ProspectHolds
  <2>5. geoCache # <<>> => AnswerOf(geoCache[1], ip) = AnswerOf([sources |-> v], ip)
    BY <2>4, ViewShape, WithinAnswers
  <2>6. RowsAsOf(v)'
    BY <1>6, <2>4, <2>5, RowStored
  <2> QED
    BY <2>1, <2>4, <2>6 DEF Within, LoadsAt
<1>7. CASE Backfill2
  BY <1>7, ProspectsBackfill
<1>8. CASE StartProcess
  BY <1>8, ProspectsStart
<1>9. CASE \E s \in GeoSettings, c \in Contents, asBefore \in BOOLEAN : SideLoad(s, c, asBefore)
  BY <1>9, ProspectsSideLoad
<1> QED
  BY <1>1, <1>2, <1>3, <1>4, <1>5, <1>6, <1>7, <1>8, <1>9 DEF GeoNext

LEMMA CacheHoldsNext ==
    ASSUME GeoTyped, OneLoads, PartsFit, MemosTrue, \A v \in Prospects : ProspectHolds(v), CacheHolds, GeoNext,
           ~preserved'
    PROVE  CacheHolds'
<1>0. "writer" \in Threads2 /\ "reloader" \in Threads2
  BY DEF Threads2
<1>a. ASSUME UNCHANGED <<geoRows, geoStamp>>, geoCache' \in {<<>>, geoCache} PROVE CacheHolds'
  BY <1>a DEF CacheHolds, Stamped, RowsAsOf
<1>b. ASSUME UNCHANGED <<geoRows, geoStamp>>, NEW t \in Threads2, HasLoaded(t), geoCache' = <<LoadedIndex(t)>>
      PROVE  CacheHolds'
  <2> SUFFICES ASSUME ~loadOf[t].torn, loadOf[t].failed = {}, Stamped(loadOf[t].sources) PROVE RowsAsOf(loadOf[t].sources)
    <3>1. /\ geoCache'[1].sources = loadOf[t].sources /\ geoCache'[1].failed = loadOf[t].failed
          /\ geoCache'[1].torn = loadOf[t].torn
      BY <1>b, IndexShape
    <3> QED
      BY <1>b, <3>1 DEF CacheHolds, Stamped, RowsAsOf
  <2>1. LoadsAt(t) /\ loadOf[t].at = "stat" /\ loadOf[t].todo = {}
    BY <1>b DEF HasLoaded, LoadsAt
  <2>2. /\ DOMAIN loadOf[t].sources = geoConfigured
        /\ \A s \in geoConfigured : loadOf[t].sources[s].content # 0
    BY <2>1 DEF PartsFit, Parts
  <2>3. loadOf[t].sources \in Sources
    BY BeganType DEF GeoLoad
  <2>4. PICK x \in Sources : x = loadOf[t].sources
    BY <2>3
  <2>5. x = [s \in DOMAIN x |-> x[s]]
    BY SourcesShape
  <2>6. ViewOf(t) = x
    BY <2>2, <2>4, <2>5 DEF ViewOf
  <2>7. x \in Prospects
    BY <2>1, <2>6 DEF Prospects, Undisturbed
  <2> QED
    BY <2>2, <2>4, <2>7 DEF ProspectHolds
<1>c. ASSUME geoCache' = geoCache, geoCache # <<>>
      PROVE  \A ip \in Addresses : AnswerOf(geoCache[1], ip) = AnswerOf([sources |-> geoCache[1].sources], ip)
  <2>1. PICK x \in GeoIndex : x = geoCache[1]
    BY <1>c, BeganType
  <2>2. PICK y : y = [sources |-> x.sources]
    OBVIOUS
  <2>3. y.sources = x.sources /\ DOMAIN x.sources \in SUBSET GeoSettings
    BY <2>2, SourcesShape DEF GeoIndex
  <2>4. \A ip \in Addresses : AnswerOf(x, ip) = AnswerOf(y, ip)
    BY <2>3, AnswerSame
  <2> QED
    BY <2>1, <2>2, <2>4
<1>d. ASSUME geoRows' = <<>> PROVE CacheHolds'
  BY <1>d DEF CacheHolds, RowsAsOf
<1>1. CASE \E t \in Threads2 : StatSource(t) \/ ReadSource(t)
  BY <1>a, <1>1 DEF StatSource, ReadSource, KeepsStore
<1>2. CASE AskIndex \/ LockAndLoad \/ FirstLoadRaises \/ ReloadBegins
  BY <1>a, <1>2 DEF AskIndex, LockAndLoad, FirstLoadRaises, ReloadBegins, KeepsStore
<1>3. CASE InstallFirst
  BY <1>0, <1>3, <1>b DEF InstallFirst, KeepsStore
<1>4. CASE Reload2
  <2>1. CASE geoStamp' = geoStamp
    BY <1>0, <1>4, <1>a, <1>b, <2>1, ReloadShape DEF Reload2, ReloadEnds
  <2>2. CASE geoStamp' # geoStamp
    BY <1>4, <1>d, <2>2 DEF Reload2, ReloadEnds, Stamped2
  <2> QED
    BY <2>1, <2>2
<1>5. CASE ReloadRaises
  BY <1>5, <1>a, <1>d DEF ReloadRaises, ReloadEnds, Stamped2
<1>6. ASSUME NEW ip \in Addresses, StoreEvent(ip) PROVE CacheHolds'
  <2>1. geoCache' = geoCache /\ geoStamp' = geoStamp
    BY <1>6 DEF StoreEvent
  <2> SUFFICES ASSUME geoCache # <<>>, ~geoCache[1].torn, geoCache[1].failed = {}, Stamped(geoCache[1].sources),
                      NEW v, v = geoCache[1].sources
               PROVE  RowsAsOf(v)'
    BY <2>1 DEF CacheHolds, Stamped, RowsAsOf
  <2>2. RowsAsOf(v)
    BY DEF CacheHolds
  <2> QED
    BY <1>6, <1>c, <2>1, <2>2, RowStored
<1>7. CASE Backfill2
  <2>1. geoCache' = geoCache /\ geoCache # <<>>
    BY <1>7 DEF Backfill2
  <2>2. PICK v : v = geoCache[1].sources
    OBVIOUS
  <2>3. RowsAsOf(v)'
    BY <1>7, <1>c, <2>1, <2>2, RowsFilled
  <2> QED
    BY <2>1, <2>2, <2>3 DEF CacheHolds, RowsAsOf
<1>8. CASE StartProcess
  BY <1>8, <1>a DEF StartProcess
<1>9. CASE \E s \in GeoSettings, c \in Contents, asBefore \in BOOLEAN : SideLoad(s, c, asBefore)
  BY <1>9, <1>a DEF SideLoad, KeepsStore
<1> QED
  BY <1>1, <1>2, <1>3, <1>4, <1>5, <1>6, <1>7, <1>8, <1>9 DEF GeoNext

(* All of it holds of the start, and of every step.                          *)
LEMMA GeoInvInit == GeoInit => GeoInv
<1> SUFFICES ASSUME GeoInit PROVE GeoInv
  OBVIOUS
<1>1. NoLoad.at = "idle" /\ DOMAIN memos = {}
  BY DEF NoLoad, GeoInit
<1>2. /\ geoCache = <<>> /\ heldIndex = <<>> /\ geoStamp = <<>> /\ ~misresolved /\ sideLoads = 0
      /\ \A t \in Threads2 : ~LoadsAt(t)
  BY <1>1 DEF GeoInit, LoadsAt
<1>3. \A s \in GeoSettings : geoFiles[s].stat = 0
  BY DEF GeoInit
<1>4. "writer" \in Threads2
  BY DEF Threads2
<1>5. OneLoads /\ PartsFit /\ Numbered /\ MemosTrue
  BY <1>1, <1>2, <1>4 DEF OneLoads, PartsFit, Numbered, MemosTrue
<1>6. StatsFit /\ FilesAreNewer /\ LoadsAreNewer /\ CacheHolds /\ \A v \in Prospects : ProspectHolds(v)
  BY <1>2, <1>3 DEF StatsFit, FilesAreNewer, LoadsAreNewer, CacheHolds, ProspectHolds, Stamped
<1> QED
  BY <1>5, <1>6, GeoTypedInit DEF GeoInv, HistoryFollows

LEMMA GeoInvStep == GeoInv /\ GeoNext => GeoInv'
<1> SUFFICES ASSUME GeoInv, GeoNext PROVE GeoInv'
  OBVIOUS
<1>1. GeoTyped /\ OneLoads /\ PartsFit /\ Numbered /\ MemosTrue
  BY DEF GeoInv
<1>2. GeoTyped' /\ OneLoads' /\ PartsFit' /\ Numbered' /\ MemosTrue'
  BY <1>1, GeoTypedNext, OneLoadsNext, PartsFitNext, NumberedNext, MemosTrueNext
<1>3. ASSUME ~preserved'
      PROVE  /\ StatsFit' /\ FilesAreNewer' /\ LoadsAreNewer' /\ CacheHolds'
             /\ \A v \in Prospects' : ProspectHolds(v)'
  <2>1. ~preserved
    BY <1>3, NotPreservedBefore
  <2>2. StatsFit /\ FilesAreNewer /\ LoadsAreNewer /\ (\A v \in Prospects : ProspectHolds(v)) /\ CacheHolds
    BY <2>1 DEF GeoInv, HistoryFollows
  <2> QED
    BY <1>1, <1>3, <2>2, StatsFitNext, FilesAreNewerNext, LoadsAreNewerNext, CacheHoldsNext, ProspectsNext
<1>4. (\A v \in Prospects' : ProspectHolds(v)') => (\A v \in Prospects : ProspectHolds(v))'
  OBVIOUS
<1> QED
  BY <1>2, <1>3, <1>4 DEF GeoInv, HistoryFollows

LEMMA GeoInvStays == GeoInv /\ UNCHANGED geoVars => GeoInv'
<1> SUFFICES ASSUME GeoInv, UNCHANGED geoVars PROVE GeoInv'
  OBVIOUS
<1> USE DEF geoVars
<1>1. GeoTyped' /\ OneLoads' /\ PartsFit' /\ MemosTrue'
  BY DEF GeoInv, GeoTyped, OneLoads, PartsFit, MemosTrue, MemoOf, LoadsAt, Parts
<1>2. Numbered'
  BY DEF GeoInv, Numbered, LoadsAt
<1>3. ASSUME ~preserved
      PROVE  StatsFit' /\ FilesAreNewer' /\ LoadsAreNewer' /\ CacheHolds'
  BY <1>3 DEF GeoInv, HistoryFollows, StatsFit, FilesAreNewer, LoadsAreNewer, LoadIsNewer, CacheHolds,
              Stamped, RowsAsOf, LoadsAt
<1>4. ASSUME ~preserved PROVE (\A v \in Prospects : ProspectHolds(v))'
  <2>1. Prospects' = Prospects
    BY DEF Prospects, FilesView, ViewOf, Undisturbed, LoadsAt
  <2>2. \A v \in Prospects : ProspectHolds(v)
    BY <1>4 DEF GeoInv, HistoryFollows
  <2> QED
    BY <2>1, <2>2 DEF ProspectHolds, Stamped, RowsAsOf, Within, LoadsAt
<1> QED
  BY <1>1, <1>2, <1>3, <1>4 DEF GeoInv, HistoryFollows

LEMMA GeoInvIsTrue == GeoInv => GeoIsTrue
<1> SUFFICES ASSUME GeoInv PROVE GeoIsTrue
  OBVIOUS
<1>1. MemoIsTransparent
  BY DEF GeoInv, MemosTrue, MemoIsTransparent
<1> SUFFICES ASSUME GeoHealthy, ~geoCache[1].torn, ~preserved
             PROVE  /\ DOMAIN geoCache[1].sources = geoConfigured
                    /\ \A i \in DOMAIN geoRows : ~geoRows[i].late =>
                          geoRows[i].answer = AnswerOf(geoCache[1], geoRows[i].ip)
  BY <1>1 DEF GeoIsTrue, HealthyIsCurrent
<1>2. /\ geoCache # <<>> /\ geoCache[1].failed = {} /\ geoStamp = <<FingerprintOf(geoCache[1])>>
      /\ GeoTyped /\ CacheHolds /\ PartsFit
  BY DEF GeoHealthy, GeoInv, HistoryFollows
<1>3. DOMAIN geoCache[1].sources = geoConfigured
  BY <1>2 DEF PartsFit, Parts
<1>4. PICK x \in GeoIndex : x = geoCache[1]
  BY <1>2, BeganType
<1>5. Stamped(x.sources)
  <2>1. PICK print : print = FingerprintOf(x)
    OBVIOUS
  <2>2. DOMAIN print = DOMAIN x.sources /\ \A s \in DOMAIN x.sources : print[s][1] = x.sources[s].stat
    BY <2>1, PrintShape
  <2>3. geoStamp # <<>> /\ geoStamp[1] = print
    BY <1>2, <1>4, <2>1
  <2> QED
    BY <2>2, <2>3 DEF Stamped
<1>6. RowsAsOf(x.sources)
  BY <1>2, <1>4, <1>5 DEF CacheHolds
<1>7. PICK y : y = [sources |-> x.sources]
  OBVIOUS
<1>8. y.sources = x.sources /\ DOMAIN x.sources \in SUBSET GeoSettings
  BY <1>7, SourcesShape DEF GeoIndex
<1>9. \A ip : AnswerOf(x, ip) = AnswerOf(y, ip)
  BY <1>8, AnswerSame
<1> QED
  BY <1>3, <1>4, <1>6, <1>7, <1>9 DEF RowsAsOf

(* When /health has nothing to say of geo, history has the answers of the    *)
(* live index, whatever was side-loaded, restarted or reloaded meanwhile.    *)
THEOREM GeoStaysTrue == GeoSpec => []GeoIsTrue
<1>1. GeoInit => GeoInv
  BY GeoInvInit
<1>2. GeoInv /\ [GeoNext]_geoVars => GeoInv'
  BY GeoInvStep, GeoInvStays
<1>3. GeoInv => GeoIsTrue
  BY GeoInvIsTrue
<1> QED
  BY <1>1, <1>2, <1>3, PTL DEF GeoSpec

(* An index that answers is not replaced, within a process, by one that      *)
(* answers nothing because its files are broken (InstalledBy).               *)
THEOREM GeoIndexStaysWorking == GeoSpec => WorkingIndexStays
<1>1. GeoInit => GeoInv
  BY GeoInvInit
<1>2. GeoInv /\ [GeoNext]_geoVars => GeoInv'
  BY GeoInvStep, GeoInvStays
<1>3. GeoInv /\ [GeoNext]_geoVars => [StaysWorking]_geoVars
  BY WorkingStep DEF GeoInv
<1> QED
  BY <1>1, <1>2, <1>3, PTL DEF GeoSpec, WorkingIndexStays

(* The index that is asked is the one whose load began last: no first load   *)
(* that was under way undoes a reload (StartLoad).                           *)
THEOREM GeoNewestLoadStays == GeoSpec => NewestLoadStays
<1>1. GeoInit => GeoInv
  BY GeoInvInit
<1>2. GeoInv /\ [GeoNext]_geoVars => GeoInv'
  BY GeoInvStep, GeoInvStays
<1>3. GeoInv /\ [GeoNext]_geoVars => [ReplacedByLater]_geoVars
  BY LaterStep DEF GeoInv
<1> QED
  BY <1>1, <1>2, <1>3, PTL DEF GeoSpec, NewestLoadStays

-----------------------------------------------------------------------------
(***************************************************************************)
(* The path of an event (EventPath).  First, the rules are the documents    *)
(* that are kept, each once: their order is total, so that the number of    *)
(* those before one tells them apart.                                      *)
(***************************************************************************)
KeptRules == KeptPlaces(ActionFiles)

LEMMA KeptAreFinite ==
  /\ IsFiniteSet(KeptRules) /\ Cardinality(KeptRules) \in Nat /\ KeptRules \subseteq Nat \X Nat
  /\ \A p \in KeptRules : ActionAccepted(ActionFiles[p[1]][p[2]]) /\ DocumentFits(ActionFiles[p[1]][p[2]])
<1>1. KeptRules \in SUBSET Places(ActionFiles)
  BY DEF KeptRules, KeptPlaces
<1>2. \A p \in KeptRules : ActionAccepted(ActionFiles[p[1]][p[2]])
  BY DEF KeptRules, KeptPlaces
<1>3. IsFiniteSet(KeptRules)
  BY <1>1, PathAssumption, FS_Subset
<1> QED
  BY <1>1, <1>2, <1>3, PathAssumption, FS_CardinalityType DEF KeptRules

LEMMA PrecedesIsTotal ==
  ASSUME NEW p \in KeptRules, NEW q \in KeptRules, NEW r \in KeptRules
  PROVE  /\ p = q \/ Precedes(ActionFiles, p, q) \/ Precedes(ActionFiles, q, p)
         /\ ~Precedes(ActionFiles, p, p)
         /\ Precedes(ActionFiles, p, q) /\ Precedes(ActionFiles, q, r) => Precedes(ActionFiles, p, r)
<1> DEFINE Doc(x) == ActionFiles[x[1]][x[2]]
<1>1. \A x \in KeptRules : /\ x[1] \in Int /\ x[2] \in Int /\ x = <<x[1], x[2]>>
                           /\ Doc(x).order \in Int /\ Doc(x).source \in Int /\ Doc(x).rank \in Int
  BY KeptAreFinite DEF DocumentFits
<1>2. \A x, y \in KeptRules : Precedes(ActionFiles, x, y) <=>
        \/ RunsBefore(Doc(x), Doc(y))
        \/ ~RunsBefore(Doc(y), Doc(x)) /\ (x[1] < y[1] \/ (x[1] = y[1] /\ x[2] < y[2]))
  BY DEF Precedes
<1>3. p = q <=> p[1] = q[1] /\ p[2] = q[2]
  BY <1>1
<1> HIDE DEF Doc
<1> QED
  BY <1>1, <1>2, <1>3, SMTT(60) DEF RunsBefore

LEMMA PlacesAreCounted ==
  ASSUME NEW n \in 1..Cardinality(KeptRules)
  PROVE  \E p \in KeptRules : Cardinality(PlacesBefore(ActionFiles, p)) = n - 1
<1> DEFINE B(p) == PlacesBefore(ActionFiles, p)
           f == [p \in KeptRules |-> Cardinality(B(p))]
           N == Cardinality(KeptRules)
           T == (0 .. (N - 1)) \ {n - 1}
<1>1. \A p \in KeptRules : B(p) \in SUBSET KeptRules /\ p \notin B(p)
  BY PrecedesIsTotal DEF PlacesBefore, KeptRules
<1>2. \A p \in KeptRules : IsFiniteSet(B(p)) /\ Cardinality(B(p)) \in Nat /\ Cardinality(B(p)) < N
  <2> SUFFICES ASSUME NEW p \in KeptRules PROVE IsFiniteSet(B(p)) /\ Cardinality(B(p)) \in Nat /\ Cardinality(B(p)) < N
    OBVIOUS
  <2>1. B(p) \in SUBSET KeptRules /\ B(p) # KeptRules
    BY <1>1
  <2> HIDE DEF B
  <2>2. IsFiniteSet(B(p)) /\ Cardinality(B(p)) <= N /\ Cardinality(B(p)) # N
    BY <2>1, KeptAreFinite, FS_Subset
  <2> QED
    BY <2>2, KeptAreFinite, FS_CardinalityType
<1>3. \A p, q \in KeptRules : Precedes(ActionFiles, p, q) => Cardinality(B(p)) < Cardinality(B(q))
  <2> SUFFICES ASSUME NEW p \in KeptRules, NEW q \in KeptRules, Precedes(ActionFiles, p, q)
               PROVE  Cardinality(B(p)) < Cardinality(B(q))
    OBVIOUS
  <2>1. B(p) \in SUBSET B(q) /\ p \in B(q)
    BY PrecedesIsTotal DEF PlacesBefore, KeptRules
  <2>2. B(p) # B(q)
    BY <2>1, <1>1
  <2>3. IsFiniteSet(B(q)) /\ Cardinality(B(p)) \in Nat /\ Cardinality(B(q)) \in Nat
    BY <1>2
  <2> HIDE DEF B
  <2>4. Cardinality(B(p)) <= Cardinality(B(q)) /\ Cardinality(B(p)) # Cardinality(B(q))
    BY <2>1, <2>2, <2>3, FS_Subset
  <2> QED
    BY <2>3, <2>4
<1>4. SUFFICES ASSUME \A p \in KeptRules : Cardinality(B(p)) # n - 1 PROVE FALSE
  OBVIOUS
<1>5. IsFiniteSet(T) /\ Cardinality(T) = N - 1
  <2>1. IsFiniteSet(0 .. (N - 1)) /\ Cardinality(0 .. (N - 1)) = N
    <3>1. N \in Nat /\ N - 1 \in Int /\ 0 \in Int /\ 0 <= N /\ (0 > N - 1 => N = 0)
      BY KeptAreFinite
    <3> HIDE DEF N
    <3>2. IsFiniteSet(0 .. (N - 1)) /\ Cardinality(0 .. (N - 1)) = IF 0 > N - 1 THEN 0 ELSE (N - 1) - 0 + 1
      BY <3>1, FS_Interval
    <3> QED
      BY <3>1, <3>2
  <2>2. n - 1 \in 0 .. (N - 1)
    BY KeptAreFinite
  <2> QED
    BY <2>1, <2>2, FS_RemoveElement
<1> HIDE DEF B
<1>6. f \in [KeptRules -> T]
  <2>1. \A p \in KeptRules : Cardinality(B(p)) \in T
    BY <1>2, <1>4, KeptAreFinite
  <2> QED
    BY <2>1
<1>7. Cardinality(T) < Cardinality(KeptRules)
  BY <1>5, KeptAreFinite
<1> HIDE DEF T
<1>8. \E x, y \in KeptRules : x # y /\ f[x] = f[y]
  <2> HIDE DEF f
  <2> QED
    BY <1>5, <1>6, <1>7, KeptAreFinite, FS_PigeonHole
<1>9. PICK x \in KeptRules, y \in KeptRules : x # y /\ Cardinality(B(x)) = Cardinality(B(y))
  BY <1>8
<1>10. Cardinality(B(x)) < Cardinality(B(y)) \/ Cardinality(B(y)) < Cardinality(B(x))
  BY <1>3, <1>9, PrecedesIsTotal
<1> QED
  BY <1>2, <1>9, <1>10

LEMMA RulesAreKept ==
  /\ Len(Actions) \in Nat /\ DOMAIN Actions = 1..Len(Actions)
  /\ \A n \in 1..Len(Actions) : ActionAccepted(Actions[n]) /\ DocumentFits(Actions[n])
<1> DEFINE N == Cardinality(KeptRules)
<1>1. Actions = [n \in 1..N |-> ActionFiles[PlaceOf(ActionFiles, n)[1]][PlaceOf(ActionFiles, n)[2]]]
  BY DEF Actions, LoadActions, KeptRules
<1>2. \A n \in 1..N : PlaceOf(ActionFiles, n) \in KeptRules
  BY PlacesAreCounted DEF PlaceOf, KeptRules
<1>3. N \in Nat
  BY KeptAreFinite
<1>4. DOMAIN Actions = 1..N /\ \A n \in 1..N : ActionAccepted(Actions[n]) /\ DocumentFits(Actions[n])
  BY <1>1, <1>2, KeptAreFinite
<1> DEFINE D == {Actions[n] : n \in 1..N}
<1>5. Actions \in [1..N -> D]
  BY <1>1
<1> HIDE DEF N, D
<1>6. Len(Actions) = N
  BY <1>3, <1>5
<1> QED
  BY <1>3, <1>4, <1>6

-----------------------------------------------------------------------------
(***************************************************************************)
(* What a rule makes of an event: a word of it, or a replacement.          *)
(***************************************************************************)
Struck(w, original) == w = original \/ (original \in LongWords /\ original \in Embeds[w])

LEMMA SeqFacts ==
  ASSUME NEW S, NEW x \in Seq(S)
  PROVE  /\ Len(x) \in Nat /\ DOMAIN x = 1..Len(x) /\ \A i \in DOMAIN x : x[i] \in S
         /\ x # Nothing => 1 \in DOMAIN x /\ x[1] \in S
<1>1. Len(x) \in Nat /\ DOMAIN x = 1..Len(x) /\ \A i \in DOMAIN x : x[i] \in S
  OBVIOUS
<1>2. x # <<>> => Len(x) # 0
  OBVIOUS
<1> QED
  BY <1>1, <1>2 DEF Nothing

LEMMA SameLength ==
  ASSUME NEW S, NEW x, NEW y \in Seq(S), DOMAIN x = DOMAIN y, x = [i \in DOMAIN x |-> x[i]],
         \A i \in DOMAIN x : x[i] \in S
  PROVE  x \in Seq(S)
<1>1. Len(y) \in Nat /\ DOMAIN y = 1..Len(y)
  OBVIOUS
<1>2. x \in [1..Len(y) -> S]
  BY <1>1
<1> QED
  BY <1>1, <1>2

LEMMA RuleFacts ==
  ASSUME NEW a \in ToSet(Actions)
  PROVE  /\ ActionAccepted(a) /\ DocumentFits(a)
         /\ a.action = "mask" => MaskWords(a) \subseteq Replacements
         /\ a.action = "route" => RouteWords(a) \subseteq Replacements
<1>1. PICK n \in 1..Len(Actions) : a = Actions[n]
  BY RulesAreKept DEF ToSet
<1>2. ActionAccepted(a) /\ DocumentFits(a)
  BY <1>1, RulesAreKept
<1>3. ASSUME a.action = "mask" PROVE MaskWords(a) \subseteq Word
  <2>1. a.spec.address \in Seq(Word) /\ a.spec.number \in Seq(Word)
    BY <1>2, <1>3 DEF DocumentFits
  <2>2. (\A i \in DOMAIN a.spec.address : a.spec.address[i] \in Word) /\ \A i \in DOMAIN a.spec.number : a.spec.number[i] \in Word
    BY <2>1, SeqFacts
  <2> QED
    BY <2>2 DEF ToSet, MaskWords
<1>4. ASSUME a.action = "route" PROVE RouteWords(a) \subseteq Word
  <2>1. a.spec.index \in Seq(Word) /\ \A c \in DOMAIN a.spec.set : a.spec.set[c] \in Seq(Word)
    BY <1>2, <1>4 DEF DocumentFits
  <2>2. ToSet(a.spec.index) \subseteq Word
    BY <2>1, SeqFacts DEF ToSet
  <2>3. ASSUME NEW c \in DOMAIN a.spec.set PROVE ToSet(a.spec.set[c]) \subseteq Word
    <3>1. a.spec.set[c] \in Seq(Word)
      BY <2>1
    <3> QED
      BY <3>1, SeqFacts DEF ToSet
  <2> QED
    BY <2>2, <2>3 DEF RouteWords
<1> QED
  BY <1>2, <1>3, <1>4 DEF Replacements

LEMMA ReplacementsAreWords ==
  /\ Replacements \subseteq Word /\ Redacted \in Replacements
  /\ \A w \in Word : HashOf[w] \in Replacements /\ PseudoOf[w] \in Replacements
BY PathAssumption DEF Replacements

-----------------------------------------------------------------------------
(* The recursive function of ScrubbedWord has a value at every number.     *)
LeftTo(f, w, pairs, m) ==
    f = [n \in 0..m |-> IF n = 0 THEN w ELSE IF pairs[n] = Nothing THEN f[n - 1] ELSE ScrubWord(f[n - 1], pairs[n])]

LEMMA LeftOneMore ==
  ASSUME NEW w, NEW pairs, NEW m \in Nat, NEW f, LeftTo(f, w, pairs, m)
  PROVE  \E g : LeftTo(g, w, pairs, m + 1)
<1> DEFINE last == IF pairs[m + 1] = Nothing THEN f[m] ELSE ScrubWord(f[m], pairs[m + 1])
           g == [n \in 0..(m + 1) |-> IF n = m + 1 THEN last ELSE f[n]]
<1>1. \A n \in 0..m : f[n] = IF n = 0 THEN w ELSE IF pairs[n] = Nothing THEN f[n - 1] ELSE ScrubWord(f[n - 1], pairs[n])
  BY DEF LeftTo
<1>2. g[m + 1] = last /\ \A n \in 0..m : g[n] = f[n]
  OBVIOUS
<1> DEFINE G(n) == IF n = 0 THEN w ELSE IF pairs[n] = Nothing THEN g[n - 1] ELSE ScrubWord(g[n - 1], pairs[n])
<1>3. \A n \in 0..m : g[n] = G(n)
  <2> SUFFICES ASSUME NEW n \in 0..m PROVE g[n] = G(n)
    OBVIOUS
  <2> CASE n = 0
    BY <1>1, <1>2
  <2> CASE n # 0
    <3>1. n - 1 \in 0..m /\ g[n - 1] = f[n - 1] /\ g[n] = f[n]
      BY <1>2
    <3> HIDE DEF g
    <3> QED
      BY <3>1, <1>1
  <2> QED
    OBVIOUS
<1>4. g[m + 1] = G(m + 1)
  <2>1. g[m] = f[m] /\ m + 1 # 0 /\ (m + 1) - 1 = m
    BY <1>2
  <2>2. g[(m + 1) - 1] = f[m]
    BY <2>1
  <2> HIDE DEF g
  <2> QED
    BY <2>1, <2>2, <1>2
<1>5. \A n \in 0..(m + 1) : g[n] = G(n)
  <2>1. \A n \in 0..(m + 1) : n = m + 1 \/ n \in 0..m
    OBVIOUS
  <2> HIDE DEF G, g
  <2> QED
    BY <2>1, <1>3, <1>4
<1>6. g = [n \in 0..(m + 1) |-> g[n]]
  OBVIOUS
<1>7. g = [n \in 0..(m + 1) |-> G(n)]
  <2> HIDE DEF G, g
  <2> QED
    BY <1>5, <1>6
<1> HIDE DEF g
<1>8. LeftTo(g, w, pairs, m + 1)
  BY <1>7 DEF LeftTo
<1> QED
  BY <1>8

LEMMA LeftExists ==
  ASSUME NEW w, NEW pairs, NEW m \in Nat
  PROVE  \E f : LeftTo(f, w, pairs, m)
<1> DEFINE T == {n \in Nat : ~\E f : LeftTo(f, w, pairs, n)}
<1>1. SUFFICES T = {}
  OBVIOUS
<1>2. SUFFICES ASSUME T # {} PROVE FALSE
  OBVIOUS
<1>3. PICK x \in T : \A y \in T : x <= y
  <2>1. T \in SUBSET Nat
    OBVIOUS
  <2> HIDE DEF T
  <2> QED
    BY <1>2, <2>1, LeastOf
<1>4. x # 0
  <2> DEFINE f == [n \in 0..0 |-> w]
  <2>1. f = [n \in 0..0 |-> IF n = 0 THEN w ELSE IF pairs[n] = Nothing THEN f[n - 1] ELSE ScrubWord(f[n - 1], pairs[n])]
    OBVIOUS
  <2> HIDE DEF f
  <2>2. LeftTo(f, w, pairs, 0)
    BY <2>1 DEF LeftTo
  <2> QED
    BY <2>2
<1>5. x - 1 \in Nat /\ x - 1 \notin T /\ (x - 1) + 1 = x
  BY <1>3, <1>4
<1>6. PICK f : LeftTo(f, w, pairs, x - 1)
  BY <1>5
<1>7. \E g : LeftTo(g, w, pairs, (x - 1) + 1)
  BY <1>5, <1>6, LeftOneMore
<1> QED
  BY <1>3, <1>5, <1>7

(* A pair strikes a word once: what is put in its place is a replacement,   *)
(* whatever the later pairs do to it.                                      *)
LEMMA ScrubbedIs ==
  ASSUME NEW w, NEW pairs, Len(pairs) \in Nat,
         \A k \in 1..Len(pairs) : pairs[k] = Nothing \/ pairs[k][2] \in Replacements
  PROVE  \/ ScrubbedWord(w, pairs) \in Replacements
         \/ /\ ScrubbedWord(w, pairs) = w
            /\ \A k \in 1..Len(pairs) : pairs[k] # Nothing => ~Struck(w, pairs[k][1])
<1> DEFINE L == Len(pairs)
           left == CHOOSE f : LeftTo(f, w, pairs, L)
           Good(n) == \/ left[n] \in Replacements
                      \/ /\ left[n] = w
                         /\ \A k \in 1..n : pairs[k] # Nothing => ~Struck(w, pairs[k][1])
<1>1. LeftTo(left, w, pairs, L)
  BY LeftExists
<1>2. ScrubbedWord(w, pairs) = left[L]
  BY DEF ScrubbedWord, LeftTo
<1>3. \A n \in 0..L : left[n] = IF n = 0 THEN w ELSE IF pairs[n] = Nothing THEN left[n - 1] ELSE ScrubWord(left[n - 1], pairs[n])
  <2> HIDE DEF left
  <2> QED
    BY <1>1 DEF LeftTo
<1> HIDE DEF left
<1> DEFINE T == {n \in 0..L : ~Good(n)}
<1>4. SUFFICES ASSUME T # {} PROVE FALSE
  BY <1>2
<1>5. PICK x \in T : \A y \in T : x <= y
  <2>1. T \in SUBSET Nat
    OBVIOUS
  <2> HIDE DEF T
  <2> QED
    BY <1>4, <2>1, LeastOf
<1>6. x # 0
  BY <1>3, <1>5
<1>7. x - 1 \in 0..L /\ x \in 1..L /\ Good(x - 1) /\ ~Good(x)
  BY <1>5, <1>6
<1>8. left[x] = IF pairs[x] = Nothing THEN left[x - 1] ELSE ScrubWord(left[x - 1], pairs[x])
  BY <1>3, <1>6, <1>7
<1>9. \A k \in 1..x : k = x \/ k \in 1..(x - 1)
  BY <1>7
<1>10. CASE pairs[x] = Nothing
  BY <1>7, <1>8, <1>9, <1>10
<1>11. CASE pairs[x] # Nothing
  <2>1. left[x] = IF Struck(left[x - 1], pairs[x][1]) THEN pairs[x][2] ELSE left[x - 1]
    BY <1>8, <1>11 DEF ScrubWord, Struck
  <2>2. pairs[x][2] \in Replacements
    BY <1>7, <1>11
  <2> QED
    BY <2>1, <2>2, <1>7, <1>9
<1> QED
  BY <1>10, <1>11

Rewritten(x, y) == \A i \in DOMAIN y : y[i] \in Replacements \/ (i \in DOMAIN x /\ y[i] = x[i])

RawText(e, k) == IF k \in DOMAIN e.raw THEN e.raw[k] ELSE Nothing

Becomes(e, t) ==
    /\ WellFormed(t) /\ ColumnsFit(t) /\ DOMAIN t.cols = DOMAIN e.cols
    /\ \A c \in DOMAIN e.cols : Rewritten(e.cols[c], t.cols[c])
    /\ \A k \in DOMAIN t.raw : Rewritten(RawText(e, k), t.raw[k])

LEMMA BecomesOnward ==
  ASSUME NEW e, NEW t, NEW u, Becomes(e, t), Becomes(t, u)
  PROVE  Becomes(e, u)
<1>1. \A x, y, z : Rewritten(x, y) /\ Rewritten(y, z) => Rewritten(x, z)
  BY DEF Rewritten
<1>2. \A c \in DOMAIN e.cols : Rewritten(e.cols[c], u.cols[c])
  BY <1>1 DEF Becomes
<1>3. \A k \in DOMAIN u.raw : Rewritten(RawText(e, k), u.raw[k])
  <2> SUFFICES ASSUME NEW k \in DOMAIN u.raw PROVE Rewritten(RawText(e, k), u.raw[k])
    OBVIOUS
  <2>1. Rewritten(RawText(t, k), u.raw[k])
    BY DEF Becomes
  <2>2. CASE k \in DOMAIN t.raw
    <3>1. Rewritten(RawText(e, k), t.raw[k]) /\ RawText(t, k) = t.raw[k]
      BY <2>2 DEF Becomes, RawText
    <3> QED
      BY <2>1, <3>1, <1>1
  <2>3. CASE k \notin DOMAIN t.raw
    <3>1. RawText(t, k) = Nothing
      BY <2>3 DEF RawText
    <3> QED
      BY <2>1, <3>1 DEF Rewritten, Nothing
  <2> QED
    BY <2>2, <2>3
<1> QED
  BY <1>2, <1>3 DEF Becomes

LEMMA BecomesItself ==
  ASSUME NEW e, WellFormed(e), ColumnsFit(e)
  PROVE  Becomes(e, e)
BY DEF Becomes, Rewritten, RawText

(* A word that is hidden stays so: nothing but replacements comes in.      *)
LEMMA TextStaysHidden ==
  ASSUME ReplacementsTellNothing, NEW w, w \notin Replacements, NEW x, NEW y, Rewritten(x, y), ~Shows(w, x)
  PROVE  ~Shows(w, y)
<1> SUFFICES ASSUME NEW i \in DOMAIN y PROVE  ~(y[i] = w \/ (w \in LongWords /\ w \in Embeds[y[i]]))
  BY DEF Shows
<1>1. CASE y[i] \in Replacements
  BY <1>1 DEF ReplacementsTellNothing
<1>2. CASE i \in DOMAIN x /\ y[i] = x[i]
  BY <1>2 DEF Shows
<1> QED
  BY <1>1, <1>2 DEF Rewritten

LEMMA HiddenStays ==
  ASSUME ReplacementsTellNothing, NEW w, w \notin Replacements, NEW e, NEW t, Becomes(e, t), WellFormed(e), Hides(e, w)
  PROVE  Hides(t, w)
<1>1. \A x, y : Rewritten(x, y) /\ ~Shows(w, x) => ~Shows(w, y)
  BY TextStaysHidden
<1>2. \A c \in TextCols : ~Shows(w, t.cols[c])
  <2>1. \A c \in TextCols : c \in DOMAIN e.cols /\ ~Shows(w, e.cols[c])
    BY DEF Hides, WellFormed, Maskable
  <2> QED
    BY <2>1, <1>1 DEF Becomes
<1>3. \A k \in DOMAIN t.raw \ NumericKeys : ~Shows(w, t.raw[k])
  <2> SUFFICES ASSUME NEW k \in DOMAIN t.raw \ NumericKeys PROVE ~Shows(w, t.raw[k])
    OBVIOUS
  <2>1. Rewritten(RawText(e, k), t.raw[k])
    BY DEF Becomes
  <2>2. ~Shows(w, RawText(e, k))
    <3>1. CASE k \in DOMAIN e.raw
      BY <3>1 DEF Hides, RawText
    <3>2. CASE k \notin DOMAIN e.raw
      BY <3>2 DEF RawText, Shows, Nothing
    <3> QED
      BY <3>1, <3>2
  <2> QED
    BY <2>1, <2>2, <1>1
<1> QED
  BY <1>2, <1>3 DEF Hides

-----------------------------------------------------------------------------
LEMMA MaskedTextIs ==
  ASSUME NEW a \in ToSet(Actions), a.action = "mask", NEW c, NEW x \in Seq(Word), x # Nothing,
         c \in InetCols => x[1] \in InetWords
  PROVE  LET y == MaskedText(c, x, a.spec)
         IN  /\ y \in Seq(Word) /\ \A i \in DOMAIN y : y[i] \in Replacements
             /\ c \in InetCols => y = Nothing \/ y[1] \in InetWords
             /\ c \in IntCols => y = Nothing \/ y[1] \in DOMAIN Numbers
<1> DEFINE y == MaskedText(c, x, a.spec)
<1>1. x[1] \in Word
  BY SeqFacts
<1>2. /\ {a.spec.address, a.spec.number} \subseteq Seq(Word)
      /\ a.spec.address = Nothing \/ a.spec.address[1] \in InetWords
      /\ a.spec.number = Nothing \/ a.spec.number[1] \in DOMAIN Numbers
  BY RuleFacts DEF DocumentFits
<1>3. (\A i \in DOMAIN a.spec.address : a.spec.address[i] \in Replacements) /\ \A i \in DOMAIN a.spec.number : a.spec.number[i] \in Replacements
  BY RuleFacts DEF MaskWords, ToSet
<1>4. \A w \in Replacements : <<w>> \in Seq(Word) /\ \A i \in DOMAIN <<w>> : <<w>>[i] \in Replacements
  BY ReplacementsAreWords
<1>5. HashOf[x[1]] \in Replacements /\ PseudoOf[x[1]] \in Replacements /\ Redacted \in Replacements /\ PseudoOf[x[1]] \in InetWords
  BY <1>1, ReplacementsAreWords, PathAssumption
<1>6. c \notin InetCols \/ c \notin IntCols
  BY PathAssumption
<1>7. y \in {a.spec.number, <<PseudoOf[x[1]]>>, a.spec.address, <<HashOf[x[1]]>>, <<Redacted>>}
  BY DEF MaskedText
<1>8. c \in IntCols => y = a.spec.number
  BY DEF MaskedText
<1>9. c \in InetCols => y \in {<<PseudoOf[x[1]]>>, a.spec.address}
  BY <1>6 DEF MaskedText
<1> HIDE DEF y
<1>10. y \in Seq(Word) /\ \A i \in DOMAIN y : y[i] \in Replacements
  <2>1. y = a.spec.number \/ y = a.spec.address \/ \E w \in Replacements : y = <<w>>
    BY <1>5, <1>7
  <2> QED
    BY <2>1, <1>2, <1>3, <1>4
<1>11. c \in InetCols => y = Nothing \/ y[1] \in InetWords
  BY <1>9, <1>2, <1>5
<1>12. c \in IntCols => y = Nothing \/ y[1] \in DOMAIN Numbers
  BY <1>8, <1>2
<1> QED
  BY <1>10, <1>11, <1>12 DEF y

LEMMA BecomesBy ==
  ASSUME NEW e, WellFormed(e), NEW t, t = [cols |-> t.cols, raw |-> t.raw, marks |-> t.marks, time |-> t.time],
         t.cols = [c \in DOMAIN e.cols |-> t.cols[c]], t.raw = [k \in DOMAIN t.raw |-> t.raw[k]],
         \A c \in DOMAIN e.cols :
            /\ t.cols[c] \in Seq(Word) /\ Rewritten(e.cols[c], t.cols[c])
            /\ c \in InetCols => t.cols[c] = Nothing \/ t.cols[c][1] \in InetWords
            /\ c \in IntCols => t.cols[c] = Nothing \/ t.cols[c][1] \in DOMAIN Numbers,
         \A k \in DOMAIN t.raw : t.raw[k] \in Seq(Word) /\ Rewritten(RawText(e, k), t.raw[k])
  PROVE  Becomes(e, t)
<1>1. DOMAIN t.cols = DOMAIN e.cols
  <2> DEFINE D == DOMAIN e.cols
             x == t.cols
  <2>1. x = [c \in D |-> x[c]]
    OBVIOUS
  <2> HIDE DEF D, x
  <2>2. DOMAIN x = D
    BY <2>1
  <2> QED
    BY <2>2 DEF D, x
<1>2. Maskable \subseteq DOMAIN t.cols
  BY <1>1 DEF WellFormed
<1>3. t.cols \in [DOMAIN t.cols -> Seq(Word)] /\ t.raw \in [DOMAIN t.raw -> Seq(Word)]
  <2>1. t.cols = [c \in DOMAIN t.cols |-> t.cols[c]] /\ \A c \in DOMAIN t.cols : t.cols[c] \in Seq(Word)
    BY <1>1
  <2>2. \A k \in DOMAIN t.raw : t.raw[k] \in Seq(Word)
    OBVIOUS
  <2>3. \A S, x : x = [k \in DOMAIN x |-> x[k]] /\ (\A k \in DOMAIN x : x[k] \in S) => x \in [DOMAIN x -> S]
    OBVIOUS
  <2> QED
    BY <2>1, <2>2, <2>3
<1>4. WellFormed(t)
  BY <1>2, <1>3 DEF WellFormed
<1>5. ColumnsFit(t)
  <2>1. InetCols \cup IntCols \subseteq DOMAIN e.cols
    BY DEF WellFormed, Maskable, Typed
  <2> QED
    BY <2>1 DEF ColumnsFit
<1> QED
  BY <1>1, <1>4, <1>5 DEF Becomes

LEMMA EventFacts ==
  ASSUME NEW e, WellFormed(e)
  PROVE  /\ \A c \in DOMAIN e.cols : e.cols[c] \in Seq(Word) /\ Rewritten(e.cols[c], e.cols[c])
         /\ \A k \in DOMAIN e.raw : e.raw[k] \in Seq(Word) /\ RawText(e, k) = e.raw[k] /\ Rewritten(e.raw[k], e.raw[k])
         /\ e.cols = [c \in DOMAIN e.cols |-> e.cols[c]] /\ e.raw = [k \in DOMAIN e.raw |-> e.raw[k]]
         /\ ColumnsFit(e) => \A c \in DOMAIN e.cols :
               /\ c \in InetCols => e.cols[c] = Nothing \/ e.cols[c][1] \in InetWords
               /\ c \in IntCols => e.cols[c] = Nothing \/ e.cols[c][1] \in DOMAIN Numbers
<1>1. e.cols \in [DOMAIN e.cols -> Seq(Word)] /\ e.raw \in [DOMAIN e.raw -> Seq(Word)]
  BY DEF WellFormed
<1>2. \A x : Rewritten(x, x)
  BY DEF Rewritten
<1>3. \A S, x : x \in [DOMAIN x -> S] => x = [k \in DOMAIN x |-> x[k]] /\ \A k \in DOMAIN x : x[k] \in S
  OBVIOUS
<1>4. ColumnsFit(e) => \A c \in DOMAIN e.cols :
               /\ c \in InetCols => e.cols[c] = Nothing \/ e.cols[c][1] \in InetWords
               /\ c \in IntCols => e.cols[c] = Nothing \/ e.cols[c][1] \in DOMAIN Numbers
  BY DEF ColumnsFit
<1>5. \A k \in DOMAIN e.raw : RawText(e, k) = e.raw[k]
  BY DEF RawText
<1> QED
  BY <1>1, <1>2, <1>3, <1>4, <1>5

LEMMA HalfBecomes ==
  ASSUME NEW a \in ToSet(Actions), a.action = "mask", NEW e, WellFormed(e), ColumnsFit(e)
  PROVE  Becomes(e, HalfMasked(e, a.spec))
<1> DEFINE t == HalfMasked(e, a.spec)
           C == [c \in DOMAIN e.cols |-> IF c \in ToSet(a.spec.fields) /\ e.cols[c] # Nothing
                                           THEN MaskedText(c, e.cols[c], a.spec) ELSE e.cols[c]]
           R == [k \in DOMAIN e.raw |-> IF k \in a.spec.rawKeys /\ e.raw[k] # Nothing
                                           THEN <<IF a.spec.mode = "hash" THEN HashOf[e.raw[k][1]] ELSE Redacted>> ELSE e.raw[k]]
<1>1. t.cols = C /\ t.raw = R /\ t = [cols |-> t.cols, raw |-> t.raw, marks |-> t.marks, time |-> t.time]
  <2>1. e = [cols |-> e.cols, raw |-> e.raw, marks |-> e.marks, time |-> e.time]
    BY DEF WellFormed
  <2>2. MaskColumns(e, a.spec) = [cols |-> C, raw |-> e.raw, marks |-> e.marks, time |-> e.time]
    BY <2>1 DEF MaskColumns
  <2>3. t = [cols |-> C, raw |-> R, marks |-> e.marks, time |-> e.time]
    BY <2>2 DEF HalfMasked, MaskRawKeys
  <2> HIDE DEF C, R, t
  <2> QED
    BY <2>3
<1>2. ASSUME NEW c \in DOMAIN e.cols
      PROVE  /\ C[c] \in Seq(Word) /\ Rewritten(e.cols[c], C[c])
             /\ c \in InetCols => C[c] = Nothing \/ C[c][1] \in InetWords
             /\ c \in IntCols => C[c] = Nothing \/ C[c][1] \in DOMAIN Numbers
  <2>1. e.cols[c] \in Seq(Word) /\ (c \in InetCols => e.cols[c] = Nothing \/ e.cols[c][1] \in InetWords)
                                /\ (c \in IntCols => e.cols[c] = Nothing \/ e.cols[c][1] \in DOMAIN Numbers)
    BY EventFacts
  <2>2. CASE c \in ToSet(a.spec.fields) /\ e.cols[c] # Nothing
    <3>1. C[c] = MaskedText(c, e.cols[c], a.spec)
      BY <2>2
    <3> HIDE DEF C
    <3>2. /\ C[c] \in Seq(Word) /\ \A i \in DOMAIN C[c] : C[c][i] \in Replacements
          /\ c \in InetCols => C[c] = Nothing \/ C[c][1] \in InetWords
          /\ c \in IntCols => C[c] = Nothing \/ C[c][1] \in DOMAIN Numbers
      BY <3>1, <2>1, <2>2, MaskedTextIs
    <3> QED
      BY <3>2 DEF Rewritten
  <2>3. CASE ~(c \in ToSet(a.spec.fields) /\ e.cols[c] # Nothing)
    <3>1. C[c] = e.cols[c]
      BY <2>3
    <3> QED
      BY <3>1, <2>1 DEF Rewritten
  <2> QED
    BY <2>2, <2>3
<1>3. ASSUME NEW k \in DOMAIN R PROVE R[k] \in Seq(Word) /\ Rewritten(RawText(e, k), R[k])
  <2>1. k \in DOMAIN e.raw /\ e.raw[k] \in Seq(Word) /\ RawText(e, k) = e.raw[k] /\ Rewritten(e.raw[k], e.raw[k])
    BY EventFacts
  <2>2. CASE k \in a.spec.rawKeys /\ e.raw[k] # Nothing
    <3>1. e.raw[k][1] \in Word
      BY <2>1, <2>2, SeqFacts
    <3>2. \E w \in Replacements : R[k] = <<w>>
      BY <2>1, <2>2, <3>1, ReplacementsAreWords
    <3>3. PICK w \in Replacements : R[k] = <<w>>
      BY <3>2
    <3>4. w \in Word
      BY ReplacementsAreWords
    <3>5. <<w>> \in Seq(Word) /\ Rewritten(RawText(e, k), <<w>>)
      BY <3>4 DEF Rewritten
    <3> QED
      BY <3>3, <3>5
  <2>3. CASE ~(k \in a.spec.rawKeys /\ e.raw[k] # Nothing)
    BY <2>1, <2>3
  <2> QED
    BY <2>2, <2>3
<1>4. C = [c \in DOMAIN e.cols |-> C[c]] /\ R = [k \in DOMAIN R |-> R[k]]
  OBVIOUS
<1> HIDE DEF C, R, t
<1>5. Becomes(e, t)
  BY <1>1, <1>2, <1>3, <1>4, BecomesBy
<1> QED
  BY <1>5 DEF t

LEMMA PatternTextIs ==
  ASSUME NEW x \in Seq(Word), NEW words
  PROVE  /\ PatternText(x, words) \in Seq(Word) /\ Rewritten(x, PatternText(x, words))
         /\ words = {} => PatternText(x, words) = x
<1> DEFINE y == PatternText(x, words)
<1>1. DOMAIN y = DOMAIN x /\ y = [i \in DOMAIN y |-> y[i]]
  BY DEF PatternText
<1>2. \A i \in DOMAIN x : y[i] \in {Redacted, x[i]}
  BY DEF PatternText
<1>3. \A i \in DOMAIN x : x[i] \in Word
  BY SeqFacts
<1>4. words = {} => \A i \in DOMAIN x : y[i] = x[i]
  BY DEF PatternText
<1> HIDE DEF y
<1>5. y \in Seq(Word)
  BY <1>1, <1>2, <1>3, ReplacementsAreWords, SameLength
<1>6. Rewritten(x, y)
  BY <1>1, <1>2, ReplacementsAreWords DEF Rewritten
<1>7. words = {} => y = x
  <2>1. Len(x) \in Nat /\ DOMAIN x = 1..Len(x) /\ x = [i \in DOMAIN x |-> x[i]]
    OBVIOUS
  <2> QED
    BY <1>1, <1>4, <2>1
<1> QED
  BY <1>5, <1>6, <1>7 DEF y

LEMMA SubstituteBecomes ==
  ASSUME NEW a \in ToSet(Actions), a.action = "mask", NEW e, WellFormed(e), ColumnsFit(e)
  PROVE  Becomes(e, Substitute(e, a.spec.patterns))
<1> DEFINE ps == a.spec.patterns
           t == Substitute(e, ps)
           C == [c \in DOMAIN e.cols |-> PatternText(e.cols[c], TargetWords(ps, c))]
           R == [k \in DOMAIN e.raw |-> IF k \in NumericKeys \cup DOMAIN e.cols THEN e.raw[k]
                                        ELSE PatternText(e.raw[k], TargetWords(ps, k))]
<1>1. t.cols = C /\ t.raw = R /\ t = [cols |-> t.cols, raw |-> t.raw, marks |-> t.marks, time |-> t.time]
  <2>1. e = [cols |-> e.cols, raw |-> e.raw, marks |-> e.marks, time |-> e.time]
    BY DEF WellFormed
  <2>2. t = [e EXCEPT !.cols = C, !.raw = R]
    BY DEF Substitute
  <2> HIDE DEF C, R, t
  <2>3. t = [cols |-> C, raw |-> R, marks |-> e.marks, time |-> e.time]
    BY <2>1, <2>2
  <2> QED
    BY <2>3
<1>2. \A c \in Typed : TargetWords(ps, c) = {}
  <2>1. \A i \in DOMAIN ps : ps[i].target \notin Typed
    BY RuleFacts DEF ActionAccepted, MaskAccepted, PatternAccepted
  <2> QED
    BY <2>1 DEF TargetWords, ToSet
<1>3. ASSUME NEW c \in DOMAIN e.cols
      PROVE  /\ C[c] \in Seq(Word) /\ Rewritten(e.cols[c], C[c])
             /\ c \in InetCols => C[c] = Nothing \/ C[c][1] \in InetWords
             /\ c \in IntCols => C[c] = Nothing \/ C[c][1] \in DOMAIN Numbers
  <2>1. e.cols[c] \in Seq(Word) /\ (c \in InetCols => e.cols[c] = Nothing \/ e.cols[c][1] \in InetWords)
                                /\ (c \in IntCols => e.cols[c] = Nothing \/ e.cols[c][1] \in DOMAIN Numbers)
    BY EventFacts
  <2>2. C[c] = PatternText(e.cols[c], TargetWords(ps, c))
    OBVIOUS
  <2> HIDE DEF C
  <2>3. C[c] \in Seq(Word) /\ Rewritten(e.cols[c], C[c]) /\ (c \in Typed => C[c] = e.cols[c])
    BY <2>1, <2>2, <1>2, PatternTextIs
  <2> QED
    BY <2>1, <2>3 DEF Typed
<1>4. ASSUME NEW k \in DOMAIN R PROVE R[k] \in Seq(Word) /\ Rewritten(RawText(e, k), R[k])
  <2>1. k \in DOMAIN e.raw /\ e.raw[k] \in Seq(Word) /\ RawText(e, k) = e.raw[k] /\ Rewritten(e.raw[k], e.raw[k])
    BY EventFacts
  <2>2. R[k] \in {e.raw[k], PatternText(e.raw[k], TargetWords(ps, k))}
    BY <2>1
  <2> HIDE DEF R
  <2> QED
    BY <2>1, <2>2, PatternTextIs
<1>5. C = [c \in DOMAIN e.cols |-> C[c]] /\ R = [k \in DOMAIN R |-> R[k]]
  OBVIOUS
<1> HIDE DEF C, R, t
<1>6. Becomes(e, t)
  BY <1>1, <1>3, <1>4, <1>5, BecomesBy
<1> QED
  BY <1>6 DEF t

-----------------------------------------------------------------------------
(* The pairs of a mask put replacements in, and none for an empty column.  *)
LEMMA PairsAre ==
  ASSUME NEW a \in ToSet(Actions), a.action = "mask", NEW e, WellFormed(e), ColumnsFit(e)
  PROVE  LET pairs == Pairs(e, a.spec)
         IN  /\ Len(pairs) \in Nat /\ DOMAIN pairs = 1..Len(pairs)
             /\ \A k \in 1..Len(pairs) : pairs[k] = Nothing \/ pairs[k][2] \in Replacements
<1> DEFINE pairs == Pairs(e, a.spec)
           fields == a.spec.fields
<1>1. fields \in Seq(Maskable)
  BY RuleFacts DEF DocumentFits
<1>2. Len(fields) \in Nat /\ DOMAIN fields = 1..Len(fields) /\ \A k \in DOMAIN fields : fields[k] \in Maskable
  BY <1>1
<1>3. DOMAIN pairs = 1..Len(fields) /\ pairs = [k \in 1..Len(fields) |-> pairs[k]]
  BY <1>2 DEF Pairs
<1>4. ASSUME NEW k \in 1..Len(fields) PROVE pairs[k] = Nothing \/ pairs[k][2] \in Replacements
  <2> DEFINE c == fields[k]
             new == MaskedText(c, e.cols[c], a.spec)
  <2>1. c \in DOMAIN e.cols /\ e.cols[c] \in Seq(Word) /\ (c \in InetCols => e.cols[c] = Nothing \/ e.cols[c][1] \in InetWords)
    BY <1>2, EventFacts DEF WellFormed
  <2>2. CASE e.cols[c] = Nothing
    BY <2>2, <1>2 DEF Pairs
  <2>3. CASE e.cols[c] # Nothing
    <3>1. pairs[k] = MaskedPair(e, a.spec, c)
      BY <2>3, <1>2 DEF Pairs
    <3>2. new \in Seq(Word) /\ \A i \in DOMAIN new : new[i] \in Replacements
      <4> HIDE DEF c
      <4> QED
        BY <2>1, <2>3, MaskedTextIs
    <3>3. pairs[k][2] = IF new = Nothing THEN Redacted ELSE new[1]
      BY <3>1 DEF MaskedPair
    <3> HIDE DEF new
    <3>4. new # Nothing => 1 \in DOMAIN new
      BY <3>2, SeqFacts
    <3> HIDE DEF pairs
    <3> QED
      BY <3>2, <3>3, <3>4, ReplacementsAreWords
  <2> QED
    BY <2>2, <2>3
<1>5. Len(pairs) = Len(fields)
  <2> DEFINE P == {pairs[k] : k \in 1..Len(fields)}
             n == Len(fields)
  <2>1. pairs \in [1..n -> P] /\ n \in Nat
    BY <1>2, <1>3
  <2> HIDE DEF pairs, P, n
  <2>2. Len(pairs) = n
    BY <2>1
  <2> QED
    BY <2>2 DEF n
<1> QED
  BY <1>2, <1>3, <1>4, <1>5

LEMMA ScrubTextIs ==
  ASSUME NEW x \in Seq(Word), NEW pairs, Len(pairs) \in Nat,
         \A k \in 1..Len(pairs) : pairs[k] = Nothing \/ pairs[k][2] \in Replacements
  PROVE  /\ ScrubText(x, pairs) \in Seq(Word) /\ Rewritten(x, ScrubText(x, pairs))
         /\ ReplacementsTellNothing =>
               \A k \in 1..Len(pairs) : pairs[k] # Nothing /\ pairs[k][1] \notin Replacements
                                            => ~Shows(pairs[k][1], ScrubText(x, pairs))
<1> DEFINE y == ScrubText(x, pairs)
<1>1. DOMAIN y = DOMAIN x /\ y = [i \in DOMAIN y |-> y[i]] /\ \A i \in DOMAIN x : y[i] = ScrubbedWord(x[i], pairs)
  BY DEF ScrubText
<1>2. \A i \in DOMAIN x : x[i] \in Word
  BY SeqFacts
<1> HIDE DEF y
<1>3. \A i \in DOMAIN x : \/ y[i] \in Replacements
                          \/ /\ y[i] = x[i]
                             /\ \A k \in 1..Len(pairs) : pairs[k] # Nothing => ~Struck(y[i], pairs[k][1])
  BY <1>1, ScrubbedIs
<1>4. y \in Seq(Word)
  BY <1>1, <1>2, <1>3, ReplacementsAreWords, SameLength
<1>5. Rewritten(x, y)
  BY <1>1, <1>3 DEF Rewritten
<1>6. ASSUME ReplacementsTellNothing, NEW k \in 1..Len(pairs), pairs[k] # Nothing, pairs[k][1] \notin Replacements,
             NEW i \in DOMAIN y
      PROVE  ~Struck(y[i], pairs[k][1])
  <2>1. CASE y[i] \in Replacements
    BY <2>1, <1>6 DEF ReplacementsTellNothing, Struck
  <2>2. CASE y[i] \notin Replacements
    BY <2>2, <1>1, <1>3, <1>6
  <2> QED
    BY <2>1, <2>2
<1>7. ReplacementsTellNothing =>
        \A k \in 1..Len(pairs) : pairs[k] # Nothing /\ pairs[k][1] \notin Replacements => ~Shows(pairs[k][1], y)
  BY <1>6 DEF Shows, Struck
<1> QED
  BY <1>4, <1>5, <1>7 DEF y

LEMMA ScrubBecomes ==
  ASSUME NEW spec, NEW e, WellFormed(e), ColumnsFit(e), NEW pairs, Len(pairs) \in Nat,
         \A k \in 1..Len(pairs) : pairs[k] = Nothing \/ pairs[k][2] \in Replacements
  PROVE  /\ Becomes(e, Scrub(e, pairs, spec))
         /\ ReplacementsTellNothing =>
               \A k \in 1..Len(pairs) : pairs[k] # Nothing /\ pairs[k][1] \notin Replacements
                                            => Hides(Scrub(e, pairs, spec), pairs[k][1])
<1> DEFINE words == UNION {TargetWords(spec.patterns, c) : c \in DOMAIN e.cols}
           t == Scrub(e, pairs, spec)
           C == [c \in DOMAIN e.cols |-> IF c \in TextCols THEN ScrubText(e.cols[c], pairs) ELSE e.cols[c]]
           R == [k \in DOMAIN e.raw |-> IF k \in NumericKeys THEN e.raw[k] ELSE PatternText(ScrubText(e.raw[k], pairs), words)]
<1>1. t.cols = C /\ t.raw = R /\ t = [cols |-> t.cols, raw |-> t.raw, marks |-> t.marks, time |-> t.time]
  <2>1. e = [cols |-> e.cols, raw |-> e.raw, marks |-> e.marks, time |-> e.time]
    BY DEF WellFormed
  <2>2. t = [e EXCEPT !.cols = C, !.raw = R]
    BY DEF Scrub
  <2> HIDE DEF C, R, t
  <2>3. t = [cols |-> C, raw |-> R, marks |-> e.marks, time |-> e.time]
    BY <2>1, <2>2
  <2> QED
    BY <2>3
<1>2. ASSUME NEW c \in DOMAIN e.cols
      PROVE  /\ C[c] \in Seq(Word) /\ Rewritten(e.cols[c], C[c])
             /\ c \in InetCols => C[c] = Nothing \/ C[c][1] \in InetWords
             /\ c \in IntCols => C[c] = Nothing \/ C[c][1] \in DOMAIN Numbers
  <2>1. /\ e.cols[c] \in Seq(Word) /\ Rewritten(e.cols[c], e.cols[c])
        /\ c \in InetCols => e.cols[c] = Nothing \/ e.cols[c][1] \in InetWords
        /\ c \in IntCols => e.cols[c] = Nothing \/ e.cols[c][1] \in DOMAIN Numbers
    BY EventFacts
  <2>2. CASE c \in TextCols
    <3>1. C[c] = ScrubText(e.cols[c], pairs) /\ c \notin InetCols /\ c \notin IntCols
      BY <2>2, PathAssumption DEF Typed
    <3> QED
      BY <3>1, <2>1, ScrubTextIs
  <2>3. CASE c \notin TextCols
    <3>1. C[c] = e.cols[c]
      BY <2>3
    <3> QED
      BY <3>1, <2>1
  <2> QED
    BY <2>2, <2>3
<1>3. ASSUME NEW k \in DOMAIN e.raw
      PROVE  /\ R[k] \in Seq(Word) /\ Rewritten(RawText(e, k), R[k])
             /\ k \notin NumericKeys => Rewritten(ScrubText(e.raw[k], pairs), R[k])
  <2>1. e.raw[k] \in Seq(Word) /\ RawText(e, k) = e.raw[k] /\ Rewritten(e.raw[k], e.raw[k])
    BY EventFacts
  <2>2. CASE k \in NumericKeys
    BY <2>1, <2>2
  <2>3. CASE k \notin NumericKeys
    <3> DEFINE x == ScrubText(e.raw[k], pairs)
    <3>1. R[k] = PatternText(x, words)
      BY <2>3
    <3>2. x \in Seq(Word) /\ Rewritten(e.raw[k], x)
      BY <2>1, ScrubTextIs
    <3> HIDE DEF x, words, R
    <3>3. R[k] \in Seq(Word) /\ Rewritten(x, R[k])
      BY <3>1, <3>2, PatternTextIs
    <3>4. Rewritten(e.raw[k], R[k])
      BY <3>2, <3>3 DEF Rewritten
    <3> QED
      BY <2>1, <3>3, <3>4 DEF x
  <2> QED
    BY <2>2, <2>3
<1>4. C = [c \in DOMAIN e.cols |-> C[c]] /\ R = [k \in DOMAIN R |-> R[k]] /\ DOMAIN R = DOMAIN e.raw
  OBVIOUS
<1>5. \A c \in TextCols : c \in DOMAIN e.cols /\ C[c] = ScrubText(e.cols[c], pairs) /\ e.cols[c] \in Seq(Word)
  BY EventFacts DEF WellFormed, Maskable
<1>6. \A k \in DOMAIN e.raw : e.raw[k] \in Seq(Word)
  BY EventFacts
<1> HIDE DEF C, R, t, words
<1>7. Becomes(e, t)
  BY <1>1, <1>2, <1>3, <1>4, BecomesBy
<1>8. ASSUME ReplacementsTellNothing, NEW k \in 1..Len(pairs), pairs[k] # Nothing, pairs[k][1] \notin Replacements
      PROVE  Hides(t, pairs[k][1])
  <2>1. \A c \in TextCols : ~Shows(pairs[k][1], t.cols[c])
    BY <1>1, <1>5, <1>8, ScrubTextIs
  <2>2. \A x \in DOMAIN t.raw \ NumericKeys : ~Shows(pairs[k][1], t.raw[x])
    <3> SUFFICES ASSUME NEW x \in DOMAIN e.raw \ NumericKeys PROVE ~Shows(pairs[k][1], R[x])
      BY <1>1, <1>4
    <3>1. ~Shows(pairs[k][1], ScrubText(e.raw[x], pairs))
      BY <1>6, <1>8, ScrubTextIs
    <3>2. Rewritten(ScrubText(e.raw[x], pairs), R[x])
      BY <1>3
    <3> QED
      BY <3>1, <3>2, <1>8, TextStaysHidden
  <2> QED
    BY <2>1, <2>2 DEF Hides
<1> QED
  BY <1>7, <1>8 DEF t

LEMMA MaskBecomes ==
  ASSUME NEW a \in ToSet(Actions), a.action = "mask", NEW e, WellFormed(e), ColumnsFit(e)
  PROVE  /\ Becomes(e, ApplyMask(e, a.spec))
         /\ ReplacementsTellNothing /\ a.spec.scrub =>
               \A p \in ToSet(Pairs(e, a.spec)) \ {Nothing} : p[1] \notin Replacements => Hides(ApplyMask(e, a.spec), p[1])
<1> DEFINE h == HalfMasked(e, a.spec)
           m == Substitute(h, a.spec.patterns)
           pairs == Pairs(e, a.spec)
           s == Scrub(m, pairs, a.spec)
<1>1. Becomes(e, h) /\ WellFormed(h) /\ ColumnsFit(h)
  BY HalfBecomes DEF Becomes
<1> HIDE DEF h
<1>2. Becomes(h, m) /\ WellFormed(m) /\ ColumnsFit(m)
  BY <1>1, SubstituteBecomes DEF Becomes
<1>3. ApplyMask(e, a.spec) = IF a.spec.scrub THEN s ELSE m
  BY DEF ApplyMask, h
<1> HIDE DEF m
<1>4. Becomes(e, m)
  BY <1>1, <1>2, BecomesOnward
<1>5. /\ Len(pairs) \in Nat /\ DOMAIN pairs = 1..Len(pairs)
      /\ \A k \in 1..Len(pairs) : pairs[k] = Nothing \/ pairs[k][2] \in Replacements
  BY PairsAre
<1> HIDE DEF pairs
<1>6. /\ Becomes(m, s)
      /\ ReplacementsTellNothing =>
            \A k \in 1..Len(pairs) : pairs[k] # Nothing /\ pairs[k][1] \notin Replacements => Hides(s, pairs[k][1])
  BY <1>2, <1>5, ScrubBecomes
<1> HIDE DEF s
<1>7. Becomes(e, s)
  BY <1>4, <1>6, BecomesOnward
<1>8. ReplacementsTellNothing => \A p \in ToSet(pairs) \ {Nothing} : p[1] \notin Replacements => Hides(s, p[1])
  BY <1>5, <1>6 DEF ToSet
<1> QED
  BY <1>3, <1>4, <1>7, <1>8 DEF pairs

LEMMA RouteBecomes ==
  ASSUME NEW a \in ToSet(Actions), a.action = "route", NEW e, WellFormed(e), ColumnsFit(e)
  PROVE  Becomes(e, ApplyRoute(e, a.spec))
<1> DEFINE t == ApplyRoute(e, a.spec)
           C == [c \in DOMAIN e.cols |-> IF c \in DOMAIN a.spec.set THEN a.spec.set[c] ELSE e.cols[c]]
           R == IF a.spec.index = Nothing THEN e.raw
                ELSE [k \in DOMAIN e.raw \cup {IndexKey} |-> IF k = IndexKey THEN a.spec.index ELSE e.raw[k]]
<1>1. t.cols = C /\ t.raw = R /\ t = [cols |-> t.cols, raw |-> t.raw, marks |-> t.marks, time |-> t.time]
  <2>1. e = [cols |-> e.cols, raw |-> e.raw, marks |-> e.marks, time |-> e.time]
    BY DEF WellFormed
  <2>2. t = [e EXCEPT !.cols = C, !.raw = R]
    BY DEF ApplyRoute
  <2> HIDE DEF C, R, t
  <2>3. t = [cols |-> C, raw |-> R, marks |-> e.marks, time |-> e.time]
    BY <2>1, <2>2
  <2> QED
    BY <2>3
<1>2. /\ a.spec.index \in Seq(Word) /\ \A i \in DOMAIN a.spec.index : a.spec.index[i] \in Replacements
      /\ \A c \in DOMAIN a.spec.set : a.spec.set[c] \in Seq(Word) /\ c \notin Typed
      /\ \A c \in DOMAIN a.spec.set : \A i \in DOMAIN a.spec.set[c] : a.spec.set[c][i] \in Replacements
  <2>1. a.spec.index \in Seq(Word) /\ a.spec.set \in [DOMAIN a.spec.set -> Seq(Word)]
    BY RuleFacts DEF DocumentFits
  <2>2. DOMAIN a.spec.set \subseteq {"vendor", "product", "log_type"}
    BY RuleFacts DEF ActionAccepted, RouteAccepted
  <2>3. RouteWords(a) \subseteq Replacements
    BY RuleFacts
  <2>4. \A i \in DOMAIN a.spec.index : a.spec.index[i] \in Replacements
    BY <2>3 DEF RouteWords, ToSet
  <2>5. ASSUME NEW c \in DOMAIN a.spec.set, NEW i \in DOMAIN a.spec.set[c] PROVE a.spec.set[c][i] \in Replacements
    <3>1. ToSet(a.spec.set[c]) \subseteq RouteWords(a)
      BY DEF RouteWords
    <3>2. a.spec.set[c][i] \in ToSet(a.spec.set[c])
      BY DEF ToSet
    <3> QED
      BY <2>3, <3>1, <3>2
  <2> QED
    BY <2>1, <2>2, <2>4, <2>5, PathAssumption
<1>3. ASSUME NEW c \in DOMAIN e.cols
      PROVE  /\ C[c] \in Seq(Word) /\ Rewritten(e.cols[c], C[c])
             /\ c \in InetCols => C[c] = Nothing \/ C[c][1] \in InetWords
             /\ c \in IntCols => C[c] = Nothing \/ C[c][1] \in DOMAIN Numbers
  <2>1. /\ e.cols[c] \in Seq(Word) /\ Rewritten(e.cols[c], e.cols[c])
        /\ c \in InetCols => e.cols[c] = Nothing \/ e.cols[c][1] \in InetWords
        /\ c \in IntCols => e.cols[c] = Nothing \/ e.cols[c][1] \in DOMAIN Numbers
    BY EventFacts
  <2>2. CASE c \in DOMAIN a.spec.set
    <3>1. C[c] = a.spec.set[c] /\ c \notin InetCols /\ c \notin IntCols
      BY <2>2, <1>2 DEF Typed
    <3>2. Rewritten(e.cols[c], a.spec.set[c])
      BY <2>2, <1>2 DEF Rewritten
    <3> QED
      BY <3>1, <3>2, <2>2, <1>2
  <2>3. CASE c \notin DOMAIN a.spec.set
    <3>1. C[c] = e.cols[c]
      BY <2>3
    <3> QED
      BY <3>1, <2>1
  <2> QED
    BY <2>2, <2>3
<1>4. ASSUME NEW k \in DOMAIN R PROVE R[k] \in Seq(Word) /\ Rewritten(RawText(e, k), R[k])
  <2>1. CASE a.spec.index # Nothing /\ k = IndexKey
    <3>1. R[k] = a.spec.index
      BY <2>1
    <3> QED
      BY <3>1, <1>2 DEF Rewritten
  <2>2. CASE ~(a.spec.index # Nothing /\ k = IndexKey)
    <3>1. k \in DOMAIN e.raw /\ R[k] = e.raw[k]
      BY <2>2
    <3> QED
      BY <3>1, EventFacts
  <2> QED
    BY <2>1, <2>2
<1>5. C = [c \in DOMAIN e.cols |-> C[c]]
  OBVIOUS
<1>6. R = [k \in DOMAIN R |-> R[k]]
  <2>1. CASE a.spec.index = Nothing
    BY <2>1, EventFacts
  <2>2. CASE a.spec.index # Nothing
    BY <2>2
  <2> QED
    BY <2>1, <2>2
<1> HIDE DEF C, R, t
<1>7. Becomes(e, t)
  BY <1>1, <1>3, <1>4, <1>5, <1>6, BecomesBy
<1> QED
  BY <1>7 DEF t

LEMMA StampBecomes ==
  ASSUME NEW a, NEW e, NEW t, Becomes(e, t)
  PROVE  LET u == Stamp(e, t, a)
         IN  u.cols = t.cols /\ u.raw = t.raw /\ Becomes(e, u)
<1> DEFINE u == Stamp(e, t, a)
<1>1. t = [cols |-> t.cols, raw |-> t.raw, marks |-> t.marks, time |-> t.time]
  BY DEF Becomes, WellFormed
<1>2. \E m : u = [cols |-> t.cols, raw |-> t.raw, marks |-> m, time |-> t.time]
  <2>1. u = t \/ u = [t EXCEPT !.marks = t.marks \cup {a.id}]
    BY DEF Stamp
  <2> HIDE DEF u
  <2> QED
    BY <1>1, <2>1
<1> HIDE DEF u
<1>3. u.cols = t.cols /\ u.raw = t.raw /\ u = [cols |-> u.cols, raw |-> u.raw, marks |-> u.marks, time |-> u.time]
  BY <1>2
<1>4. WellFormed(u) /\ ColumnsFit(u)
  BY <1>3 DEF Becomes, WellFormed, ColumnsFit
<1> QED
  BY <1>3, <1>4 DEF Becomes, u

LEMMA TransformBecomes ==
  ASSUME NEW a \in ToSet(Actions), NEW e, WellFormed(e), ColumnsFit(e)
  PROVE  /\ Becomes(e, Transform(a, e))
         /\ ReplacementsTellNothing /\ a.action = "mask" /\ a.spec.scrub =>
               \A p \in ToSet(Pairs(e, a.spec)) \ {Nothing} : p[1] \notin Replacements => Hides(Transform(a, e), p[1])
<1>1. CASE a.action = "mask"
  <2> DEFINE t == ApplyMask(e, a.spec)
  <2>1. Becomes(e, t) /\ (ReplacementsTellNothing /\ a.spec.scrub =>
            \A p \in ToSet(Pairs(e, a.spec)) \ {Nothing} : p[1] \notin Replacements => Hides(t, p[1]))
    BY <1>1, MaskBecomes
  <2>2. Transform(a, e) = Stamp(e, t, a)
    BY <1>1 DEF Transform
  <2> HIDE DEF t
  <2>3. Transform(a, e).cols = t.cols /\ Transform(a, e).raw = t.raw /\ Becomes(e, Transform(a, e))
    BY <2>1, <2>2, StampBecomes
  <2>4. \A w : Hides(t, w) => Hides(Transform(a, e), w)
    BY <2>3 DEF Hides
  <2> QED
    BY <2>1, <2>3, <2>4
<1>2. CASE a.action = "route"
  <2>1. Transform(a, e) = Stamp(e, ApplyRoute(e, a.spec), a)
    BY <1>2 DEF Transform
  <2> QED
    BY <1>2, <2>1, RouteBecomes, StampBecomes
<1>3. CASE a.action \notin {"mask", "route"}
  <2>1. Transform(a, e) = e
    BY <1>3 DEF Transform
  <2> QED
    BY <1>3, <2>1, BecomesItself
<1> QED
  BY <1>1, <1>2, <1>3

-----------------------------------------------------------------------------
(* The parsers' fill of an event that has arrived.                         *)
Arrived(k) ==
    LET e == Deliveries[k]
    IN  IF e.time = "none" THEN [e EXCEPT !.time = "fallback", !.marks = @ \cup {"_parse_note"}] ELSE e

LEMMA ArrivedIs ==
  ASSUME NEW k \in 1..Len(Deliveries)
  PROVE  /\ WellFormed(Arrived(k)) /\ ColumnsFit(Arrived(k))
         /\ Arrived(k).cols = Deliveries[k].cols /\ Arrived(k).raw = Deliveries[k].raw
<1> DEFINE e == Deliveries[k]
           t == Arrived(k)
<1>1. WellFormed(e) /\ ColumnsFit(e)
  BY PathAssumption
<1>2. e = [cols |-> e.cols, raw |-> e.raw, marks |-> e.marks, time |-> e.time]
  BY <1>1 DEF WellFormed
<1>3. t = e \/ t = [e EXCEPT !.time = "fallback", !.marks = e.marks \cup {"_parse_note"}]
  BY DEF Arrived
<1> HIDE DEF t, e
<1>4. \E m, z : t = [cols |-> e.cols, raw |-> e.raw, marks |-> m, time |-> z]
  BY <1>2, <1>3
<1>5. t.cols = e.cols /\ t.raw = e.raw /\ t = [cols |-> t.cols, raw |-> t.raw, marks |-> t.marks, time |-> t.time]
  BY <1>4
<1>6. WellFormed(t) /\ ColumnsFit(t)
  BY <1>1, <1>5 DEF WellFormed, ColumnsFit
<1> QED
  BY <1>5, <1>6 DEF t, e

LEMMA ExtractedIs ==
  ASSUME NEW d, NEW raw, raw \in [DOMAIN raw -> Seq(Word)]
  PROVE  \A k \in DOMAIN Extracted(d, raw) : Extracted(d, raw)[k] \in Seq(Word)
<1> DEFINE pairs == IF d.kv \in DOMAIN raw THEN {KvPairs[w] : w \in ToSet(raw[d.kv]) \cap DOMAIN KvPairs} ELSE {}
           D == DOMAIN raw \cup {p[1] : p \in pairs}
           x == Extracted(d, raw)
<1>1. \A p \in pairs : p[2] \in Seq(Word)
  BY PathAssumption
<1>2. x = [k \in D |-> IF k \in DOMAIN raw THEN raw[k] ELSE (CHOOSE p \in pairs : p[1] = k)[2]]
  BY DEF Extracted
<1> HIDE DEF pairs, x
<1> SUFFICES ASSUME NEW k \in D PROVE x[k] \in Seq(Word)
  BY <1>2 DEF x
<1>3. CASE k \in DOMAIN raw
  BY <1>2, <1>3
<1>4. CASE k \notin DOMAIN raw
  <2>1. \E p \in pairs : p[1] = k
    BY <1>4
  <2>2. (CHOOSE p \in pairs : p[1] = k) \in pairs
    BY <2>1
  <2>3. x[k] = (CHOOSE p \in pairs : p[1] = k)[2]
    BY <1>2, <1>4
  <2> QED
    BY <1>1, <2>2, <2>3
<1> QED
  BY <1>3, <1>4

LEMMA FillKeepsTexts ==
  ASSUME NEW i \in DOMAIN ParserDefs, NEW e, WellFormed(e)
  PROVE  WellFormed(ParserFill(ParserDefs[i], e))
<1> DEFINE d == ParserDefs[i]
           rec == Extracted(d, e.raw)
           S(c) == {k \in DOMAIN d.map \cap DOMAIN rec : d.map[k] = c /\ rec[k] # Nothing}
           mapped == {c \in DOMAIN e.cols : S(c) # {}}
           V(c) == rec[CHOOSE k \in S(c) : TRUE]
           C == [c \in DOMAIN e.cols |->
                    IF c \in mapped /\ (c \in DOMAIN d.declared \/ e.cols[c] = Nothing) THEN V(c)
                    ELSE IF c \in DOMAIN d.declared \ mapped THEN d.declared[c] ELSE e.cols[c]]
           t == ParserFill(d, e)
<1>1. \A k \in DOMAIN rec : rec[k] \in Seq(Word)
  BY ExtractedIs DEF WellFormed
<1>2. t = [e EXCEPT !.cols = C]
  BY DEF ParserFill
<1>3. \A c \in mapped : V(c) \in Seq(Word)
  <2> SUFFICES ASSUME NEW c \in mapped PROVE V(c) \in Seq(Word)
    OBVIOUS
  <2>1. (CHOOSE k \in S(c) : TRUE) \in S(c)
    OBVIOUS
  <2> HIDE DEF rec
  <2> QED
    BY <2>1, <1>1
<1>4. d.declared \in [DOMAIN d.declared -> Seq(Word)]
  BY PathAssumption
<1> HIDE DEF d, mapped, V
<1>5. \A c \in DOMAIN C : C[c] \in Seq(Word)
  <2> SUFFICES ASSUME NEW c \in DOMAIN e.cols PROVE C[c] \in Seq(Word)
    OBVIOUS
  <2>1. e.cols[c] \in Seq(Word)
    BY EventFacts
  <2>2. \A x \in DOMAIN d.declared : d.declared[x] \in Seq(Word)
    BY <1>4
  <2> QED
    BY <1>3, <2>1, <2>2
<1>6. DOMAIN C = DOMAIN e.cols /\ C \in [DOMAIN C -> Seq(Word)]
  <2>1. C = [c \in DOMAIN C |-> C[c]]
    OBVIOUS
  <2>2. \A T, x : x = [k \in DOMAIN x |-> x[k]] /\ (\A k \in DOMAIN x : x[k] \in T) => x \in [DOMAIN x -> T]
    OBVIOUS
  <2> DEFINE D == DOMAIN e.cols
  <2>3. DOMAIN C = D
    OBVIOUS
  <2> HIDE DEF C
  <2> QED
    BY <1>5, <2>1, <2>2, <2>3
<1>7. e = [cols |-> e.cols, raw |-> e.raw, marks |-> e.marks, time |-> e.time]
  BY DEF WellFormed
<1> HIDE DEF C, t
<1>8. t = [cols |-> C, raw |-> e.raw, marks |-> e.marks, time |-> e.time]
  BY <1>2, <1>7
<1>9. t.cols = C /\ t.raw = e.raw /\ t = [cols |-> t.cols, raw |-> t.raw, marks |-> t.marks, time |-> t.time]
  BY <1>8
<1>10. WellFormed(t)
  BY <1>6, <1>9 DEF WellFormed
<1> QED
  BY <1>10 DEF t, d

LEMMA FillLooksAtColumns ==
  ASSUME NEW d, NEW e, NEW t, WellFormed(e), WellFormed(t), t.cols = e.cols, t.raw = e.raw
  PROVE  ParserFill(d, t).cols = ParserFill(d, e).cols
<1> DEFINE F(x) == ParserFill(d, x).cols
           rec == Extracted(d, e.raw)
           S(c) == {k \in DOMAIN d.map \cap DOMAIN rec : d.map[k] = c /\ rec[k] # Nothing}
           mapped == {c \in DOMAIN e.cols : S(c) # {}}
           V(c) == rec[CHOOSE k \in S(c) : TRUE]
           C == [c \in DOMAIN e.cols |->
                    IF c \in mapped /\ (c \in DOMAIN d.declared \/ e.cols[c] = Nothing) THEN V(c)
                    ELSE IF c \in DOMAIN d.declared \ mapped THEN d.declared[c] ELSE e.cols[c]]
<1>1. ParserFill(d, e) = [e EXCEPT !.cols = C]
  BY DEF ParserFill
<1>2. ParserFill(d, t) = [t EXCEPT !.cols = C]
  BY DEF ParserFill
<1>3. /\ e = [cols |-> e.cols, raw |-> e.raw, marks |-> e.marks, time |-> e.time]
      /\ t = [cols |-> t.cols, raw |-> t.raw, marks |-> t.marks, time |-> t.time]
  BY DEF WellFormed
<1> HIDE DEF C
<1> QED
  BY <1>1, <1>2, <1>3

LEMMA FillIs ==
  ASSUME ParsersFit, NEW k \in 1..Len(Deliveries), NEW failing
  PROVE  WellFormed(ParserApply(Arrived(k), failing)) /\ ColumnsFit(ParserApply(Arrived(k), failing))
<1> DEFINE e == Arrived(k)
           usable == {i \in DOMAIN ParserDefs : ParserMatches(ParserDefs[i], e.raw) /\ ParserDefs[i].id \notin failing}
           least == CHOOSE i \in usable : \A j \in usable : i <= j
<1>1. WellFormed(e) /\ ColumnsFit(e) /\ e.cols = Deliveries[k].cols /\ e.raw = Deliveries[k].raw /\ WellFormed(Deliveries[k])
  BY ArrivedIs, PathAssumption
<1>2. ParserApply(e, failing) = IF usable = {} THEN e ELSE ParserFill(ParserDefs[least], e)
  BY DEF ParserApply
<1>3. CASE usable = {}
  BY <1>1, <1>2, <1>3
<1>4. CASE usable # {}
  <2>1. usable \in SUBSET Nat /\ usable \subseteq DOMAIN ParserDefs
    BY PathAssumption
  <2> HIDE DEF usable
  <2>2. \E i \in usable : \A j \in usable : i <= j
    BY <1>4, <2>1, LeastOf
  <2>3. least \in DOMAIN ParserDefs
    BY <2>1, <2>2
  <2> HIDE DEF least, e
  <2> DEFINE t == ParserFill(ParserDefs[least], e)
  <2>4. WellFormed(t)
    BY <1>1, <2>3, FillKeepsTexts
  <2>5. t.cols = ParserFill(ParserDefs[least], Deliveries[k]).cols
    BY <1>1, FillLooksAtColumns
  <2>6. ColumnsFit(ParserFill(ParserDefs[least], Deliveries[k]))
    BY <2>3, PathAssumption DEF ParsersFit
  <2>7. ColumnsFit(t)
    BY <2>5, <2>6 DEF ColumnsFit
  <2> QED
    BY <1>2, <1>4, <2>4, <2>7 DEF e
<1> QED
  BY <1>3, <1>4

-----------------------------------------------------------------------------
(* Lists, of whatever they hold.                                           *)
IsList(s) == \E S : s \in Seq(S)

LEMMA ListFacts ==
  ASSUME NEW s, IsList(s)
  PROVE  Len(s) \in Nat /\ DOMAIN s = 1..Len(s) /\ (s = <<>> <=> Len(s) = 0) /\ \A i \in DOMAIN s : s[i] \in ToSet(s)
<1>1. PICK S : s \in Seq(S)
  BY DEF IsList
<1> QED
  BY <1>1 DEF ToSet

LEMMA AppendedList ==
  ASSUME NEW s, IsList(s), NEW x
  PROVE  /\ IsList(Append(s, x)) /\ Len(Append(s, x)) = Len(s) + 1
         /\ \A i \in 1..Len(s) : Append(s, x)[i] = s[i]
         /\ Append(s, x)[Len(s) + 1] = x
<1>1. PICK S : s \in Seq(S)
  BY DEF IsList
<1> DEFINE T == S \cup {x}
<1>2. s \in Seq(T) /\ x \in T
  BY <1>1
<1> HIDE DEF T
<1>3. Append(s, x) \in Seq(T)
  BY <1>2
<1>4. IsList(Append(s, x))
  BY <1>3 DEF IsList
<1> QED
  BY <1>2, <1>4

LEMMA JoinedList ==
  ASSUME NEW s, IsList(s), NEW t, IsList(t)
  PROVE  /\ IsList(s \o t) /\ Len(s \o t) = Len(s) + Len(t)
         /\ \A i \in 1..Len(s) : (s \o t)[i] = s[i]
         /\ \A i \in 1..Len(t) : (s \o t)[Len(s) + i] = t[i]
         /\ \A i \in 1..Len(s \o t) : i \in 1..Len(s) \/ (i - Len(s) \in 1..Len(t) /\ (s \o t)[i] = t[i - Len(s)])
<1>1. PICK S : s \in Seq(S)
  BY DEF IsList
<1>2. PICK T : t \in Seq(T)
  BY DEF IsList
<1> DEFINE U == S \cup T
<1>3. s \in Seq(U) /\ t \in Seq(U)
  BY <1>1, <1>2
<1> HIDE DEF U
<1>4. s \o t \in Seq(U)
  BY <1>3
<1>5. IsList(s \o t)
  BY <1>4 DEF IsList
<1> QED
  BY <1>3, <1>5

LEMMA ListedSet ==
  ASSUME NEW S, IsFiniteSet(S)
  PROVE  IsList(SetToSeq(S)) /\ \A i \in DOMAIN SetToSeq(S) : SetToSeq(S)[i] \in S
<1> DEFINE n == Cardinality(S)
<1>1. n \in Nat /\ ExistsBijection(1..n, S)
  BY FS_CardinalityType
<1>2. \E f \in [1..n -> S] : IsInjective(f)
  BY <1>1 DEF ExistsBijection, Bijection, Injection
<1>3. SetToSeq(S) \in [1..n -> S]
  BY <1>2 DEF SetToSeq
<1> HIDE DEF n
<1>4. SetToSeq(S) \in Seq(S)
  BY <1>1, <1>3
<1>5. IsList(SetToSeq(S))
  BY <1>4 DEF IsList
<1> QED
  BY <1>3, <1>5

LEMMA EmittedAreFinite ==
  ASSUME NEW fired, fired \subseteq DetectionRules, NEW e
  PROVE  IsFiniteSet({Emitted(r.id, e) : r \in fired})
<1> DEFINE f == [r \in fired |-> Emitted(r.id, e)]
           T == {Emitted(r.id, e) : r \in fired}
<1>1. IsFiniteSet(fired)
  BY PathAssumption, FS_Subset
<1>2. f \in Surjection(fired, T)
  BY DEF Surjection
<1> HIDE DEF f, T
<1>3. IsFiniteSet(T)
  BY <1>1, <1>2, FS_Surjection
<1> QED
  BY <1>3 DEF T

-----------------------------------------------------------------------------
(***************************************************************************)
(* The invariant of the path.  Its chunk holds entries whose secrets are    *)
(* hidden, the last of them the event in hand; what is stored are rows of   *)
(* such entries, each of another delivery; and an alert is of an entry.     *)
(***************************************************************************)
InHand == stage \in {"act", "tags", "detect", "intel"}
InChunk == stage \in {"tags", "detect", "intel"}

PathShape ==
    /\ stage \in {"next", "fill", "act", "tags", "detect", "intel", "flush", "done"}
    /\ taken \in 0..Len(Deliveries) /\ step \in 1..(Len(Actions) + 1)
    /\ dropped \subseteq 1..taken /\ faults \in 0..FaultBound /\ hits \in Nat
    /\ (InHand \/ stage = "fill") => taken >= 1
    /\ IsList(chunk) /\ IsList(pending) /\ IsList(stored)
    /\ Len(chunk) <= Chunk /\ (stage \in {"next", "fill", "act"} => Len(chunk) < Chunk)

EvtHolds(e, given) == /\ WellFormed(e) /\ ColumnsFit(e)
                      /\ \A w \in given \ Replacements : Hides(e, w)

PathCurrent ==
    /\ stage = "fill" => secrets = {} /\ step = 1 /\ evt = Arrived(taken) /\ flat = Stale
    /\ InHand => EvtHolds(evt, secrets)
    /\ stage \in {"fill", "act", "tags"} => tags = Unresolved
    /\ stage \in {"detect", "intel"} => tags \in {Unresolved, TagsFor(Models, evt)}
    /\ MatchesSeeTheMask
    /\ InChunk => /\ Len(chunk) >= 1
                  /\ chunk[Len(chunk)] = [at |-> taken, evt |-> evt, tags |-> Unresolved, secrets |-> secrets]

PathOlder ==
    /\ \A i \in DOMAIN chunk : chunk[i].at \in 1..taken /\ (stage \in {"fill", "act"} => chunk[i].at # taken)
    /\ \A i \in DOMAIN stored : stored[i].at \in 1..taken /\ (stage \in {"fill", "act"} => stored[i].at # taken)
    /\ \A i, j \in DOMAIN chunk : chunk[i].at = chunk[j].at => i = j
    /\ \A i, j \in DOMAIN stored : stored[i].at = stored[j].at => i = j
    /\ \A i \in DOMAIN chunk : \A j \in DOMAIN stored : chunk[i].at # stored[j].at

Entry(x) ==
    /\ x = [at |-> x.at, evt |-> x.evt, tags |-> x.tags, secrets |-> x.secrets]
    /\ EvtHolds(x.evt, x.secrets) /\ x.tags \in {Unresolved, TagsFor(Models, x.evt)}

Row(x) == EvtHolds(x.evt, x.secrets) /\ x.tags \in {Unresolved, TagsFor(Models, x.evt)} /\ x.dedup = Identity(x.evt)

AlertOf(a, x) ==
    /\ a.at = x.at /\ a.dedup = Identity(x.evt)
    /\ a.user_name = x.evt.cols.user_name /\ a.src_ip = x.evt.cols.src_ip /\ a.message = x.evt.cols.message

PathHeld ==
    /\ \A i \in DOMAIN chunk : Entry(chunk[i])
    /\ \A i \in DOMAIN stored : Row(stored[i])
    /\ \A i \in DOMAIN pending : \E j \in DOMAIN chunk : AlertOf(pending[i], chunk[j])
    /\ \A a \in alerts : \E j \in DOMAIN stored : AlertOf(a, stored[j])

PathInv == PathShape /\ PathCurrent /\ PathOlder /\ PathHeld

\* What is not of the event in hand.
heldVars == <<chunk, pending, stored, alerts>>

LEMMA HeldStays == PathHeld /\ UNCHANGED heldVars => PathHeld'
BY DEF PathHeld, heldVars

LEMMA EmptyIsList == IsList(<<>>) /\ Len(<<>>) = 0 /\ DOMAIN <<>> = {}
<1>1. <<>> \in Seq({})
  OBVIOUS
<1> QED
  BY <1>1 DEF IsList

LEMMA PathInvInit == Init => PathInv
<1> SUFFICES ASSUME Init PROVE PathInv
  OBVIOUS
<1>1. PathShape
  BY EmptyIsList, PathAssumption, RulesAreKept DEF Init, PathShape, InHand
<1>2. PathCurrent
  BY DEF Init, PathCurrent, InHand, InChunk, MatchesSeeTheMask
<1>3. PathOlder
  BY EmptyIsList DEF Init, PathOlder
<1>4. PathHeld
  BY EmptyIsList DEF Init, PathHeld
<1> QED
  BY <1>1, <1>2, <1>3, <1>4 DEF PathInv

LEMMA OlderStays ==
  ASSUME PathOlder, UNCHANGED heldVars, taken' = taken, stage' \in {"fill", "act"} => stage \in {"fill", "act"}
  PROVE  PathOlder'
BY DEF PathOlder, heldVars

LEMMA TakeHolds ==
  ASSUME PathInv, Take
  PROVE  PathInv'
<1>1. evt' = Arrived(taken') /\ taken' = taken + 1 /\ stage = "next" /\ stage' = "fill" /\ taken < Len(Deliveries)
  BY DEF Take, Arrived
<1>2. PathShape'
  <2>1. /\ taken \in 0..Len(Deliveries) /\ dropped \subseteq 1..taken /\ faults \in 0..FaultBound /\ hits \in Nat
        /\ IsList(chunk) /\ IsList(pending) /\ IsList(stored) /\ Len(chunk) < Chunk /\ Len(chunk) <= Chunk
    BY <1>1 DEF PathInv, PathShape
  <2>2. /\ step' = 1 /\ UNCHANGED <<chunk, pending, stored, dropped, hits, faults>>
    BY DEF Take
  <2>3. Len(Actions) \in Nat /\ Len(Deliveries) \in Nat
    BY RulesAreKept, PathAssumption
  <2>4. taken' \in 0..Len(Deliveries) /\ taken' >= 1 /\ dropped' \subseteq 1..taken' /\ step' \in 1..(Len(Actions) + 1)
    BY <1>1, <2>1, <2>2, <2>3
  <2> QED
    BY <1>1, <2>1, <2>2, <2>4 DEF PathShape, InHand
<1>3. PathCurrent'
  BY <1>1 DEF Take, PathCurrent, InHand, InChunk, MatchesSeeTheMask
<1>4. PathOlder'
  <2>1. taken \in Nat
    BY DEF PathInv, PathShape
  <2>2. \A n \in 1..taken : n \in 1..taken' /\ n # taken'
    BY <1>1, <2>1
  <2>3. UNCHANGED <<chunk, stored>>
    BY DEF Take
  <2> QED
    BY <2>2, <2>3 DEF PathInv, PathOlder
<1>5. PathHeld'
  BY HeldStays DEF PathInv, Take, heldVars
<1> QED
  BY <1>2, <1>3, <1>4, <1>5 DEF PathInv

\* The actions that leave the chunk and all behind it alone and keep the event's number.
LEMMA ShapeStays ==
  ASSUME PathShape, UNCHANGED heldVars, taken' = taken, stage \notin {"done", "flush"},
         stage' \in {"next", "act", "detect"}, stage \in {"next", "fill", "act"} \/ stage' \notin {"next", "act"},
         InHand \/ stage = "fill", step' \in {step, step + 1}, step' \in 1..(Len(Actions) + 1),
         dropped' \in {dropped, dropped \cup {taken}}, faults' \in 0..FaultBound, hits' = hits
  PROVE  PathShape'
<1>1. taken >= 1 /\ taken \in 1..taken
  BY DEF PathShape
<1>2. dropped' \subseteq 1..taken'
  BY <1>1 DEF PathShape
<1> QED
  BY <1>1, <1>2 DEF PathShape, heldVars, InHand

LEMMA RaiseIs ==
  ASSUME PathShape, faults' = faults \/ Raise
  PROVE  faults' \in 0..FaultBound
BY PathAssumption DEF PathShape, Raise

LEMMA FillHolds ==
  ASSUME ParsersFit, PathInv, Fill
  PROVE  PathInv'
<1>1. stage = "fill" /\ stage' = "act" /\ taken \in 1..Len(Deliveries) /\ evt = Arrived(taken) /\ flat = Stale /\ secrets = {}
  BY DEF Fill, PathInv, PathShape, PathCurrent
<1>2. \E failing : evt' = ParserApply(Arrived(taken), failing)
  BY <1>1 DEF Fill
<1>3. WellFormed(evt') /\ ColumnsFit(evt')
  BY <1>1, <1>2, FillIs
<1>4. PathShape'
  <2>1. faults' \in 0..FaultBound
    BY RaiseIs DEF PathInv, Fill
  <2> QED
    BY <1>1, <2>1, ShapeStays DEF Fill, PathInv, heldVars, PathShape
<1>5. PathCurrent'
  BY <1>1, <1>3 DEF Fill, PathInv, PathCurrent, InHand, InChunk, MatchesSeeTheMask, EvtHolds
<1>6. PathOlder' /\ PathHeld'
  BY <1>1, OlderStays, HeldStays DEF PathInv, Fill, heldVars
<1> QED
  BY <1>4, <1>5, <1>6 DEF PathInv

LEMMA ActingIs ==
  ASSUME PathInv, Acting
  PROVE  /\ Actions[step] \in ToSet(Actions) /\ step \in 1..Len(Actions) /\ step + 1 \in 1..(Len(Actions) + 1)
         /\ stage = "act" /\ EvtHolds(evt, secrets) /\ tags = Unresolved /\ taken \in 1..Len(Deliveries)
         /\ Seen = FlattenEvent(evt)
<1>1. step \in 1..Len(Actions) /\ step + 1 \in 1..(Len(Actions) + 1)
  BY RulesAreKept DEF PathInv, PathShape, Acting
<1>2. Actions[step] \in ToSet(Actions)
  BY <1>1, RulesAreKept DEF ToSet
<1>3. stage = "act" /\ EvtHolds(evt, secrets) /\ tags = Unresolved /\ taken \in 1..Len(Deliveries)
  BY DEF PathInv, PathCurrent, PathShape, Acting, InHand
<1>4. Seen = FlattenEvent(evt)
  BY <1>3 DEF PathInv, PathCurrent, MatchesSeeTheMask, Seen
<1> QED
  BY <1>1, <1>2, <1>3, <1>4

LEMMA SkipHolds ==
  ASSUME PathInv, Skip
  PROVE  PathInv'
<1>1. /\ stage = "act" /\ EvtHolds(evt, secrets) /\ tags = Unresolved /\ Seen = FlattenEvent(evt)
      /\ step + 1 \in 1..(Len(Actions) + 1) /\ stage' = "act" /\ flat' \in {flat, Seen}
  BY ActingIs DEF Skip
<1>2. PathShape'
  BY <1>1, ShapeStays DEF Skip, PathInv, heldVars, PathShape, InHand
<1>3. PathCurrent'
  <2>1. flat' = Stale \/ flat' = FlattenEvent(evt)
    BY <1>1 DEF PathInv, PathCurrent, MatchesSeeTheMask
  <2> QED
    BY <1>1, <2>1 DEF Skip, PathCurrent, InHand, InChunk, MatchesSeeTheMask
<1>4. PathOlder' /\ PathHeld'
  BY <1>1, OlderStays, HeldStays DEF PathInv, Skip, heldVars
<1> QED
  BY <1>2, <1>3, <1>4 DEF PathInv

LEMMA DiscardHolds ==
  ASSUME PathInv, Discard
  PROVE  PathInv'
<1>1. stage = "act" /\ stage' = "next"
  BY DEF Discard, Acting
<1>2. PathShape'
  BY <1>1, ShapeStays DEF Discard, PathInv, heldVars, PathShape, InHand
<1>3. PathCurrent'
  BY <1>1 DEF Discard, PathCurrent, InHand, InChunk, MatchesSeeTheMask
<1>4. PathOlder' /\ PathHeld'
  BY <1>1, OlderStays, HeldStays DEF PathInv, Discard, heldVars
<1> QED
  BY <1>2, <1>3, <1>4 DEF PathInv

LEMMA HoldsOnward ==
  ASSUME ReplacementsTellNothing, NEW e, NEW given, EvtHolds(e, given), NEW t, Becomes(e, t)
  PROVE  EvtHolds(t, given)
<1>1. WellFormed(t) /\ ColumnsFit(t)
  BY DEF Becomes
<1>2. \A w \in given \ Replacements : Hides(t, w)
  BY HiddenStays DEF EvtHolds
<1> QED
  BY <1>1, <1>2 DEF EvtHolds

LEMMA ApplyHolds ==
  ASSUME ReplacementsTellNothing, PathInv, Apply
  PROVE  PathInv'
<1> DEFINE a == Actions[step]
           new == {p[1] : p \in ToSet(Pairs(evt, a.spec)) \ {Nothing}}
<1>1. /\ a \in ToSet(Actions) /\ stage = "act" /\ EvtHolds(evt, secrets) /\ tags = Unresolved
      /\ Seen = FlattenEvent(evt) /\ step + 1 \in 1..(Len(Actions) + 1) /\ stage' = "act"
  BY ActingIs DEF Apply
<1>2. evt' = Transform(a, evt) /\ flat' = (IF evt' # evt THEN Stale ELSE Seen)
  BY DEF Apply
<1>3. EvtHolds(evt', secrets')
  <2>1. Becomes(evt, evt') /\ (a.action = "mask" /\ a.spec.scrub => \A w \in new : w \notin Replacements => Hides(evt', w))
    BY <1>1, <1>2, TransformBecomes DEF EvtHolds
  <2>2. EvtHolds(evt', secrets)
    BY <1>1, <2>1, HoldsOnward
  <2>3. \/ secrets' = secrets
        \/ a.action = "mask" /\ a.spec.scrub /\ secrets' = secrets \cup new
    BY DEF Apply
  <2> HIDE DEF a, new
  <2> QED
    BY <2>1, <2>2, <2>3 DEF EvtHolds
<1>4. PathShape'
  BY <1>1, ShapeStays DEF Apply, PathInv, heldVars, PathShape, InHand
<1>5. PathCurrent'
  BY <1>1, <1>2, <1>3 DEF Apply, PathCurrent, InHand, InChunk, MatchesSeeTheMask
<1>6. PathOlder' /\ PathHeld'
  BY <1>1, OlderStays, HeldStays DEF PathInv, Apply, heldVars
<1> QED
  BY <1>4, <1>5, <1>6 DEF PathInv

LEMMA RuleRaisesHolds ==
  ASSUME ReplacementsTellNothing, PathInv, RuleRaises
  PROVE  PathInv'
<1> DEFINE a == Actions[step]
<1>1. /\ a \in ToSet(Actions) /\ stage = "act" /\ EvtHolds(evt, secrets) /\ tags = Unresolved
      /\ step + 1 \in 1..(Len(Actions) + 1) /\ stage' = "act" /\ flat' = Stale
  BY ActingIs DEF RuleRaises
<1>2. evt' = evt \/ (a.action = "mask" /\ evt' = HalfMasked(evt, a.spec))
  BY DEF RuleRaises
<1>3. EvtHolds(evt', secrets')
  <2>1. Becomes(evt, evt')
    <3>1. CASE evt' = evt
      BY <1>1, <3>1, BecomesItself DEF EvtHolds
    <3>2. CASE a.action = "mask" /\ evt' = HalfMasked(evt, a.spec)
      BY <1>1, <3>2, HalfBecomes DEF EvtHolds
    <3> QED
      BY <1>2, <3>1, <3>2
  <2> QED
    BY <1>1, <2>1, HoldsOnward DEF RuleRaises
<1>4. PathShape'
  <2>1. faults' \in 0..FaultBound
    BY RaiseIs DEF PathInv, RuleRaises
  <2> QED
    BY <1>1, <2>1, ShapeStays DEF RuleRaises, PathInv, heldVars, PathShape, InHand
<1>5. PathCurrent'
  BY <1>1, <1>3 DEF RuleRaises, PathCurrent, InHand, InChunk, MatchesSeeTheMask
<1>6. PathOlder' /\ PathHeld'
  BY <1>1, OlderStays, HeldStays DEF PathInv, RuleRaises, heldVars
<1> QED
  BY <1>4, <1>5, <1>6 DEF PathInv

\* The event of x is one of the list's.
Brought(s, x) == \E j \in DOMAIN s : s[j].at = x.at /\ s[j].evt = x.evt

LEMMA KeepHolds ==
  ASSUME PathInv, Keep
  PROVE  PathInv' /\ \A i \in DOMAIN chunk' : Brought(chunk, chunk'[i]) \/ (chunk'[i].at = taken /\ chunk'[i].evt = evt)
<1> DEFINE x == [at |-> taken, evt |-> evt, tags |-> Unresolved, secrets |-> secrets]
           n == Len(chunk)
<1>1. /\ stage = "act" /\ stage' = "tags" /\ chunk' = Append(chunk, x)
      /\ UNCHANGED <<taken, evt, flat, step, touched, secrets, tags, pending, stored, alerts, baselines, dropped, hits, faults>>
  BY DEF Keep
<1>2. /\ IsList(chunk) /\ n \in Nat /\ DOMAIN chunk = 1..n /\ n < Chunk /\ Chunk \in Nat
      /\ taken \in 1..taken /\ EvtHolds(evt, secrets) /\ tags = Unresolved
  <2>1. IsList(chunk) /\ n < Chunk /\ Chunk \in Nat /\ taken \in 1..taken
    BY <1>1, PathAssumption DEF PathInv, PathShape, InHand
  <2> QED
    BY <1>1, <2>1, ListFacts DEF PathInv, PathCurrent, InHand
<1> HIDE DEF x
<1>3. /\ IsList(chunk') /\ Len(chunk') = n + 1 /\ DOMAIN chunk' = 1..(n + 1)
      /\ (\A i \in 1..n : chunk'[i] = chunk[i]) /\ chunk'[n + 1] = x
  <2>1. /\ IsList(chunk') /\ Len(chunk') = n + 1
        /\ (\A i \in 1..n : chunk'[i] = chunk[i]) /\ chunk'[n + 1] = x
    BY <1>1, <1>2, AppendedList
  <2> QED
    BY <2>1, ListFacts
<1> HIDE DEF n
<1>4. \A i \in DOMAIN chunk' : (i \in DOMAIN chunk /\ chunk'[i] = chunk[i]) \/ (i = n + 1 /\ chunk'[i] = x)
  BY <1>2, <1>3
<1>5. PathShape'
  BY <1>1, <1>2, <1>3 DEF PathInv, PathShape, InHand
<1>6. PathCurrent'
  BY <1>1, <1>2, <1>3 DEF x, PathInv, PathCurrent, InHand, InChunk, MatchesSeeTheMask
<1>7. PathOlder'
  <2>1. x.at = taken
    BY DEF x
  <2>2. \A i \in DOMAIN chunk : chunk[i].at \in 1..taken /\ chunk[i].at # taken
    BY <1>1 DEF PathInv, PathOlder
  <2>3. \A i \in DOMAIN stored : stored[i].at \in 1..taken /\ stored[i].at # taken
    BY <1>1 DEF PathInv, PathOlder
  <2>4. \A i, j \in DOMAIN chunk' : chunk'[i].at = chunk'[j].at => i = j
    BY <1>4, <2>1, <2>2 DEF PathInv, PathOlder
  <2>5. \A i \in DOMAIN chunk' : chunk'[i].at \in 1..taken /\ \A j \in DOMAIN stored : chunk'[i].at # stored[j].at
    BY <1>2, <1>4, <2>1, <2>3 DEF PathInv, PathOlder
  <2> QED
    BY <1>1, <2>4, <2>5 DEF PathInv, PathOlder
<1>8. PathHeld'
  <2>1. Entry(x)
    BY <1>2 DEF x, Entry
  <2>2. \A i \in DOMAIN chunk' : Entry(chunk'[i])
    BY <1>4, <2>1 DEF PathInv, PathHeld
  <2>3. \A i \in DOMAIN pending : \E j \in DOMAIN chunk' : AlertOf(pending[i], chunk'[j])
    <3>1. \A j \in DOMAIN chunk : j \in DOMAIN chunk' /\ chunk'[j] = chunk[j]
      BY <1>2, <1>3
    <3> QED
      BY <3>1 DEF PathInv, PathHeld
  <2> QED
    BY <1>1, <2>2, <2>3 DEF PathInv, PathHeld
<1>9. \A i \in DOMAIN chunk' : Brought(chunk, chunk'[i]) \/ (chunk'[i].at = taken /\ chunk'[i].evt = evt)
  BY <1>4 DEF Brought, x
<1> QED
  BY <1>5, <1>6, <1>7, <1>8, <1>9 DEF PathInv

LEMMA TagHolds ==
  ASSUME PathInv, Tag
  PROVE  PathInv'
<1>1. /\ stage = "tags" /\ stage' = "detect" /\ tags' \in {Unresolved, TagsFor(Models, evt)}
      /\ UNCHANGED <<taken, evt, flat, step, touched, secrets, chunk, pending, stored, alerts, baselines, dropped, hits>>
  BY DEF Tag
<1>2. PathShape'
  <2>1. faults' \in 0..FaultBound
    BY RaiseIs DEF PathInv, Tag
  <2> QED
    BY <1>1, <2>1 DEF PathInv, PathShape, InHand
<1>3. PathCurrent'
  BY <1>1 DEF PathInv, PathCurrent, InHand, InChunk, MatchesSeeTheMask
<1>4. PathOlder' /\ PathHeld'
  BY <1>1, OlderStays, HeldStays DEF PathInv, heldVars
<1> QED
  BY <1>2, <1>3, <1>4 DEF PathInv

\* An alert of the event in hand is of the last entry.
LEMMA EmittedIs ==
  ASSUME NEW rule, NEW x, x.at = taken, x.evt = evt
  PROVE  AlertOf(Emitted(rule, evt), x)
<1> DEFINE c == evt.cols
           d == Identity(evt)
           al == [rule_id |-> <<rule>>, at |-> taken, vendor |-> c.vendor, user_name |-> c.user_name,
                  src_ip |-> c.src_ip, message |-> c.message, dedup |-> d, status |-> "open"]
           u == Emitted(rule, evt)
<1>1. u = al \/ u = [al EXCEPT !.status = "suppressed"]
  BY DEF Emitted, AlertFor
<1> HIDE DEF u, c, d
<1>2. u.at = taken /\ u.dedup = d /\ u.user_name = c.user_name /\ u.src_ip = c.src_ip /\ u.message = c.message
  BY <1>1
<1> QED
  BY <1>2 DEF AlertOf, u, c, d

LEMMA SizesAreNumbers ==
  ASSUME NEW T, IsFiniteSet(T), NEW U \in SUBSET T
  PROVE  Cardinality(U) \in Nat
BY FS_Subset, FS_CardinalityType

LEMMA DetectHolds ==
  ASSUME PathInv, Detect
  PROVE  PathInv'
<1>1. PICK failing \in SUBSET {r.id : r \in DetectionRules} :
          LET fired == {r \in DetectionRules : /\ r.enabled /\ r.id \notin failing
                                               /\ MatchRule(r, FlattenEvent(evt), EngineTags)}
              news == {Emitted(r.id, evt) : r \in fired}
          IN  /\ pending' = pending \o SetToSeq(news)
              /\ hits' = hits + Cardinality({x \in news : x.status = "suppressed"})
  BY DEF Detect
<1>2. /\ stage = "detect" /\ stage' = "intel" /\ (faults' = faults \/ Raise)
      /\ UNCHANGED <<taken, evt, flat, step, touched, secrets, tags, chunk, stored, alerts, baselines, dropped>>
  BY DEF Detect
<1> DEFINE fired == {r \in DetectionRules : /\ r.enabled /\ r.id \notin failing
                                            /\ MatchRule(r, FlattenEvent(evt), EngineTags)}
           news == {Emitted(r.id, evt) : r \in fired}
           new == SetToSeq(news)
<1>3. fired \subseteq DetectionRules /\ pending' = pending \o new
      /\ hits' = hits + Cardinality({x \in news : x.status = "suppressed"})
  BY <1>1
<1> HIDE DEF fired
<1>4. IsFiniteSet(news)
  BY <1>3, EmittedAreFinite
<1>5. \A x \in news : \E r \in fired : x = Emitted(r.id, evt)
  OBVIOUS
<1> HIDE DEF news
<1>6. hits' \in Nat
  <2>1. Cardinality({x \in news : x.status = "suppressed"}) \in Nat
    BY <1>4, SizesAreNumbers
  <2>2. hits \in Nat
    BY DEF PathInv, PathShape
  <2> QED
    BY <1>3, <2>1, <2>2
<1>7. IsList(new) /\ \A i \in DOMAIN new : new[i] \in news
  BY <1>4, ListedSet
<1> HIDE DEF new
<1>8. /\ IsList(pending) /\ IsList(chunk) /\ Len(chunk) >= 1 /\ chunk[Len(chunk)].at = taken /\ chunk[Len(chunk)].evt = evt
      /\ Len(chunk) \in DOMAIN chunk
  <2>1. /\ IsList(pending) /\ IsList(chunk) /\ Len(chunk) >= 1
        /\ chunk[Len(chunk)] = [at |-> taken, evt |-> evt, tags |-> Unresolved, secrets |-> secrets]
    BY <1>2 DEF PathInv, PathShape, PathCurrent, InChunk
  <2> QED
    BY <2>1, ListFacts
<1>9. IsList(pending') /\ \A i \in DOMAIN pending' : \/ i \in DOMAIN pending /\ pending'[i] = pending[i]
                                                     \/ pending'[i] \in news
  <2>1. DOMAIN pending = 1..Len(pending) /\ DOMAIN new = 1..Len(new)
    BY <1>7, <1>8, ListFacts
  <2>2. /\ IsList(pending')
        /\ \A i \in 1..Len(pending) : pending'[i] = pending[i]
        /\ \A i \in 1..Len(pending') : i \in 1..Len(pending) \/ (i - Len(pending) \in 1..Len(new) /\ pending'[i] = new[i - Len(pending)])
    BY <1>3, <1>7, <1>8, JoinedList
  <2>3. DOMAIN pending' = 1..Len(pending')
    BY <2>2, ListFacts
  <2> QED
    BY <1>7, <2>1, <2>2, <2>3
<1>10. PathShape'
  <2>1. faults' \in 0..FaultBound
    BY <1>2, RaiseIs DEF PathInv
  <2> QED
    BY <1>2, <1>6, <1>9, <2>1 DEF PathInv, PathShape, InHand
<1>11. PathCurrent'
  BY <1>2 DEF PathInv, PathCurrent, InHand, InChunk, MatchesSeeTheMask
<1>12. PathOlder'
  BY <1>2 DEF PathInv, PathOlder
<1>13. PathHeld'
  <2>1. \A i \in DOMAIN pending' : \E j \in DOMAIN chunk : AlertOf(pending'[i], chunk[j])
    <3> SUFFICES ASSUME NEW i \in DOMAIN pending' PROVE \E j \in DOMAIN chunk : AlertOf(pending'[i], chunk[j])
      OBVIOUS
    <3>1. CASE i \in DOMAIN pending /\ pending'[i] = pending[i]
      BY <3>1 DEF PathInv, PathHeld
    <3>2. CASE pending'[i] \in news
      BY <1>5, <1>8, <3>2, EmittedIs
    <3> QED
      BY <1>9, <3>1, <3>2
  <2> QED
    BY <1>2, <2>1 DEF PathInv, PathHeld
<1> QED
  BY <1>10, <1>11, <1>12, <1>13 DEF PathInv

LEMMA FinishHolds ==
  ASSUME PathInv, Finish
  PROVE  PathInv'
<1>1. /\ stage = "next" /\ stage' \in {"flush", "done"}
      /\ UNCHANGED <<taken, evt, flat, step, touched, secrets, tags, chunk, pending, stored, alerts, baselines, dropped, hits, faults>>
  BY DEF Finish
<1>2. PathShape'
  BY <1>1 DEF PathInv, PathShape, InHand
<1>3. PathCurrent'
  BY <1>1 DEF PathInv, PathCurrent, InHand, InChunk, MatchesSeeTheMask
<1>4. PathOlder' /\ PathHeld'
  BY <1>1, OlderStays, HeldStays DEF PathInv, heldVars
<1> QED
  BY <1>2, <1>3, <1>4 DEF PathInv

LEMMA StutterHolds ==
  ASSUME PathInv, UNCHANGED vars
  PROVE  PathInv'
<1>1. PathShape'
  BY DEF PathInv, PathShape, InHand, vars
<1>2. PathCurrent'
  BY DEF PathInv, PathCurrent, InHand, InChunk, MatchesSeeTheMask, vars
<1>3. PathOlder' /\ PathHeld'
  BY OlderStays, HeldStays DEF PathInv, heldVars, vars
<1> QED
  BY <1>1, <1>2, <1>3 DEF PathInv

LEMMA ListIsFunction ==
  ASSUME NEW s, IsList(s)
  PROVE  s = [i \in DOMAIN s |-> s[i]]
<1>1. PICK S : s \in Seq(S)
  BY DEF IsList
<1> QED
  BY <1>1

LEMMA IntelHolds ==
  ASSUME PathInv, Intel
  PROVE  PathInv' /\ \A i \in DOMAIN chunk' : Brought(chunk, chunk'[i])
<1> DEFINE n == Len(chunk)
           x == [at |-> taken, evt |-> evt, tags |-> tags, secrets |-> secrets]
           al == Emitted("ti-ioc-match", evt)
<1>1. /\ stage = "intel" /\ stage' = IF ChunkFull THEN "flush" ELSE "next"
      /\ chunk' = [chunk EXCEPT ![n].tags = tags]
      /\ UNCHANGED <<taken, evt, flat, step, touched, secrets, tags, stored, alerts, baselines, dropped>>
  BY DEF Intel
<1>2. pending' \in {pending, Append(pending, al)} /\ hits' \in {hits, hits + 1} /\ (faults' = faults \/ Raise)
  BY DEF Intel
<1>3. /\ IsList(chunk) /\ IsList(pending) /\ n \in DOMAIN chunk /\ n \in Nat /\ DOMAIN chunk = 1..n /\ n <= Chunk /\ Chunk \in Nat
      /\ chunk[n] = [at |-> taken, evt |-> evt, tags |-> Unresolved, secrets |-> secrets]
      /\ EvtHolds(evt, secrets) /\ tags \in {Unresolved, TagsFor(Models, evt)} /\ taken \in 1..taken
  <2>1. /\ IsList(chunk) /\ IsList(pending) /\ n >= 1 /\ n <= Chunk /\ Chunk \in Nat /\ taken \in 1..taken
        /\ chunk[n] = [at |-> taken, evt |-> evt, tags |-> Unresolved, secrets |-> secrets]
        /\ EvtHolds(evt, secrets) /\ tags \in {Unresolved, TagsFor(Models, evt)}
    BY <1>1, PathAssumption DEF PathInv, PathShape, PathCurrent, InChunk, InHand
  <2> HIDE DEF n
  <2>2. Len(chunk) \in Nat /\ DOMAIN chunk = 1..Len(chunk)
    BY <2>1, ListFacts
  <2> QED
    BY <2>1, <2>2 DEF n
<1> HIDE DEF n, al, x
<1>4. chunk' = [i \in DOMAIN chunk |-> IF i = n THEN x ELSE chunk[i]]
  <2>1. chunk = [i \in DOMAIN chunk |-> chunk[i]]
    BY <1>3, ListIsFunction
  <2> DEFINE y == [chunk[n] EXCEPT !.tags = tags]
  <2>2. y = x
    BY <1>3 DEF x
  <2>3. chunk' = [chunk EXCEPT ![n] = y]
    BY <1>1
  <2> HIDE DEF y
  <2>4. chunk' = [i \in DOMAIN chunk |-> IF i = n THEN y ELSE chunk[i]]
    BY <2>1, <2>3
  <2> QED
    BY <2>2, <2>4
<1>5. IsList(chunk') /\ Len(chunk') = n /\ DOMAIN chunk' = DOMAIN chunk
  <2>1. PICK S : chunk \in Seq(S)
    BY <1>3 DEF IsList
  <2> DEFINE T == S \cup {x}
  <2>2. chunk \in Seq(T) /\ x \in T
    BY <2>1
  <2> HIDE DEF T
  <2>3. \A i \in 1..n : chunk[i] \in T
    BY <1>3, <2>2
  <2>4. chunk' = [i \in 1..n |-> IF i = n THEN x ELSE chunk[i]]
    BY <1>3, <1>4
  <2>5. chunk' \in Seq(T) /\ Len(chunk') = n
    BY <1>3, <2>2, <2>3, <2>4
  <2> QED
    BY <1>3, <2>4, <2>5 DEF IsList
<1>6. \A i \in DOMAIN chunk : chunk'[i].at = chunk[i].at /\ chunk'[i].evt = chunk[i].evt /\ (i # n => chunk'[i] = chunk[i])
  <2>1. x.at = chunk[n].at /\ x.evt = chunk[n].evt
    BY <1>3 DEF x
  <2> QED
    BY <1>4, <2>1
<1>7. IsList(pending') /\ \A i \in DOMAIN pending' : (i \in DOMAIN pending /\ pending'[i] = pending[i]) \/ pending'[i] = al
  <2>1. CASE pending' = pending
    BY <1>3, <2>1
  <2>2. CASE pending' = Append(pending, al)
    <3>1. /\ IsList(pending') /\ Len(pending') = Len(pending) + 1 /\ pending'[Len(pending) + 1] = al
          /\ \A i \in 1..Len(pending) : pending'[i] = pending[i]
      BY <1>3, <2>2, AppendedList
    <3>2. DOMAIN pending' = 1..Len(pending') /\ DOMAIN pending = 1..Len(pending) /\ Len(pending) \in Nat
      BY <1>3, <3>1, ListFacts
    <3> QED
      BY <3>1, <3>2
  <2> QED
    BY <1>2, <2>1, <2>2
<1>8. PathShape'
  <2>1. faults' \in 0..FaultBound
    BY <1>2, RaiseIs DEF PathInv
  <2>2. hits' \in Nat
    BY <1>2 DEF PathInv, PathShape
  <2>3. stage' \in {"next", "flush"} /\ (stage' = "next" => n < Chunk)
    BY <1>1, <1>3 DEF ChunkFull, n
  <2> QED
    BY <1>1, <1>3, <1>5, <1>7, <2>1, <2>2, <2>3 DEF PathInv, PathShape, InHand
<1>9. PathCurrent'
  BY <1>1 DEF PathInv, PathCurrent, InHand, InChunk, MatchesSeeTheMask
<1>10. PathOlder'
  BY <1>1, <1>5, <1>6 DEF PathInv, PathOlder
<1>11. PathHeld'
  <2>1. Entry(x)
    BY <1>3 DEF x, Entry
  <2>2. \A i \in DOMAIN chunk' : Entry(chunk'[i])
    BY <1>4, <1>5, <2>1 DEF PathInv, PathHeld
  <2>3. \A a : \A i \in DOMAIN chunk : AlertOf(a, chunk[i]) => AlertOf(a, chunk'[i])
    BY <1>6 DEF AlertOf
  <2>4. AlertOf(al, chunk'[n])
    BY <1>3, <1>6, EmittedIs DEF al
  <2>5. \A i \in DOMAIN pending' : \E j \in DOMAIN chunk' : AlertOf(pending'[i], chunk'[j])
    <3> SUFFICES ASSUME NEW i \in DOMAIN pending' PROVE \E j \in DOMAIN chunk' : AlertOf(pending'[i], chunk'[j])
      OBVIOUS
    <3>1. CASE i \in DOMAIN pending /\ pending'[i] = pending[i]
      BY <3>1, <1>5, <2>3 DEF PathInv, PathHeld
    <3>2. CASE pending'[i] = al
      BY <1>3, <1>5, <2>4, <3>2
    <3> QED
      BY <1>7, <3>1, <3>2
  <2> QED
    BY <1>1, <2>2, <2>5 DEF PathInv, PathHeld
<1>12. \A i \in DOMAIN chunk' : Brought(chunk, chunk'[i])
  BY <1>5, <1>6 DEF Brought
<1> QED
  BY <1>8, <1>9, <1>10, <1>11, <1>12 DEF PathInv

\* The row of an entry, as far as the invariant sees it.
RowOf(c, r) == /\ r.at = c.at /\ r.evt = c.evt /\ r.secrets = c.secrets /\ r.dedup = Identity(c.evt)
               /\ r.tags \in {Unresolved, RowTags(c)}

LEMMA RowsAre ==
  ASSUME NEW c, IsList(c), NEW lost, NEW t,
         t = [i \in DOMAIN c |->
                [at |-> c[i].at, evt |-> c[i].evt, dedup |-> Identity(c[i].evt),
                 tags |-> IF i \in lost THEN Unresolved ELSE RowTags(c[i]), secrets |-> c[i].secrets]]
  PROVE  IsList(t) /\ Len(t) = Len(c) /\ DOMAIN t = DOMAIN c /\ \A i \in DOMAIN c : RowOf(c[i], t[i])
<1>1. Len(c) \in Nat /\ DOMAIN c = 1..Len(c)
  BY ListFacts
<1> DEFINE S == {t[i] : i \in DOMAIN c}
<1>2. \A i \in DOMAIN c : t[i] \in S
  OBVIOUS
<1>3. \A i \in DOMAIN c : RowOf(c[i], t[i])
  <2> DEFINE g(i) == Identity(c[i].evt)
             h(i) == IF i \in lost THEN Unresolved ELSE RowTags(c[i])
  <2>1. \A i \in DOMAIN c : t[i] = [at |-> c[i].at, evt |-> c[i].evt, dedup |-> g(i), tags |-> h(i), secrets |-> c[i].secrets]
    OBVIOUS
  <2>2. \A i \in DOMAIN c : h(i) \in {Unresolved, RowTags(c[i])}
    OBVIOUS
  <2>3. \A i \in DOMAIN c : g(i) = Identity(c[i].evt)
    OBVIOUS
  <2> HIDE DEF g, h
  <2> QED
    BY <2>1, <2>2, <2>3 DEF RowOf
<1>4. t = [i \in 1..Len(c) |-> t[i]]
  BY <1>1
<1> HIDE DEF S
<1>5. t \in Seq(S) /\ Len(t) = Len(c)
  BY <1>1, <1>2, <1>4
<1>6. IsList(t)
  BY <1>5 DEF IsList
<1> QED
  BY <1>1, <1>3, <1>4, <1>5, <1>6

LEMMA RowHolds ==
  ASSUME NEW c, Entry(c), NEW r, RowOf(c, r)
  PROVE  Row(r) /\ \A a : AlertOf(a, c) => AlertOf(a, r)
<1>1. RowTags(c) \in {Unresolved, TagsFor(Models, c.evt)}
  BY DEF Entry, RowTags
<1>2. Row(r)
  BY <1>1 DEF Entry, RowOf, Row
<1> QED
  BY <1>2 DEF RowOf, AlertOf

LEMMA FlushHolds ==
  ASSUME PathInv, Flush
  PROVE  PathInv' /\ \A i \in DOMAIN stored' : Brought(stored, stored'[i]) \/ Brought(chunk, stored'[i])
<1>1. PICK lost \in SUBSET DOMAIN chunk :
        /\ faults' = faults \/ Raise
        /\ stored' = stored \o [i \in DOMAIN chunk |->
                [at |-> chunk[i].at, evt |-> chunk[i].evt, dedup |-> Identity(chunk[i].evt),
                 tags |-> IF i \in lost THEN Unresolved ELSE RowTags(chunk[i]), secrets |-> chunk[i].secrets]]
  BY DEF Flush
<1> DEFINE new == [i \in DOMAIN chunk |->
                [at |-> chunk[i].at, evt |-> chunk[i].evt, dedup |-> Identity(chunk[i].evt),
                 tags |-> IF i \in lost THEN Unresolved ELSE RowTags(chunk[i]), secrets |-> chunk[i].secrets]]
           m == Len(stored)
<1>2. /\ stage = "flush" /\ stage' \in {"done", "next"} /\ chunk' = <<>> /\ pending' = <<>> /\ hits' = 0
      /\ alerts' = alerts \cup ToSet(pending) /\ UNCHANGED <<taken, evt, flat, step, touched, secrets, tags, dropped>>
  BY DEF Flush
<1>3. IsList(chunk) /\ IsList(pending) /\ IsList(stored) /\ Chunk \in Nat /\ Chunk > 0
  BY PathAssumption DEF PathInv, PathShape
<1>4. stored' = stored \o new
  BY <1>1
<1>5. IsList(new) /\ Len(new) = Len(chunk) /\ DOMAIN new = DOMAIN chunk /\ \A i \in DOMAIN chunk : RowOf(chunk[i], new[i])
  BY <1>3, RowsAre
<1> HIDE DEF new
<1>6. /\ IsList(stored') /\ DOMAIN stored' = 1..Len(stored') /\ m \in Nat /\ DOMAIN stored = 1..m /\ DOMAIN chunk = 1..Len(chunk)
      /\ Len(stored') = m + Len(chunk)
      /\ \A i \in DOMAIN stored : i \in DOMAIN stored' /\ stored'[i] = stored[i]
      /\ \A i \in DOMAIN chunk : m + i \in DOMAIN stored' /\ stored'[m + i] = new[i]
      /\ \A i \in DOMAIN stored' : i \in DOMAIN stored \/ i - m \in DOMAIN chunk
  <2>1. /\ IsList(stored') /\ Len(stored') = m + Len(new)
        /\ \A i \in 1..m : stored'[i] = stored[i]
        /\ \A i \in 1..Len(new) : stored'[m + i] = new[i]
    <3>1. IsList(stored) /\ IsList(new)
      BY <1>3, <1>5
    <3>2. /\ IsList(stored \o new) /\ Len(stored \o new) = Len(stored) + Len(new)
          /\ \A i \in 1..Len(stored) : (stored \o new)[i] = stored[i]
          /\ \A i \in 1..Len(new) : (stored \o new)[Len(stored) + i] = new[i]
      BY <3>1, JoinedList
    <3> QED
      BY <1>4, <3>2
  <2>2. m \in Nat /\ DOMAIN stored = 1..m /\ DOMAIN stored' = 1..Len(stored') /\ Len(chunk) \in Nat /\ DOMAIN chunk = 1..Len(chunk)
    BY <1>3, <2>1, ListFacts
  <2> HIDE DEF m
  <2> QED
    BY <1>5, <2>1, <2>2
<1> HIDE DEF m
<1>7. \A i \in DOMAIN stored' : \/ i \in DOMAIN stored /\ stored'[i] = stored[i]
                                \/ i - m \in DOMAIN chunk /\ RowOf(chunk[i - m], stored'[i])
  <2> SUFFICES ASSUME NEW i \in DOMAIN stored', i \notin DOMAIN stored
               PROVE  i - m \in DOMAIN chunk /\ RowOf(chunk[i - m], stored'[i])
    BY <1>6
  <2>1. i - m \in DOMAIN chunk /\ m + (i - m) = i
    BY <1>6
  <2>2. stored'[m + (i - m)] = new[i - m]
    BY <1>6, <2>1
  <2> QED
    BY <1>5, <2>1, <2>2
<1>8. PathShape'
  <2>1. faults' \in 0..FaultBound
    BY <1>1, RaiseIs DEF PathInv
  <2>2. stage' \notin {"fill", "act", "tags", "detect", "intel"}
    BY <1>2
  <2> QED
    BY <1>2, <1>3, <1>6, <2>1, <2>2, EmptyIsList DEF PathInv, PathShape, InHand
<1>9. PathCurrent'
  BY <1>2 DEF PathInv, PathCurrent, InHand, InChunk, MatchesSeeTheMask
<1>10. PathOlder'
  <2>1. \A c, r : RowOf(c, r) => r.at = c.at
    BY DEF RowOf
  <2>2. \A i \in DOMAIN stored' : stored'[i].at \in 1..taken
    BY <1>7, <2>1 DEF PathInv, PathOlder
  <2>3. ASSUME NEW i \in DOMAIN stored', NEW j \in DOMAIN stored', stored'[i].at = stored'[j].at PROVE i = j
    <3>1. CASE i \in DOMAIN stored /\ j \in DOMAIN stored
      BY <1>6, <2>3, <3>1 DEF PathInv, PathOlder
    <3>2. CASE i \in DOMAIN stored /\ j \notin DOMAIN stored
      <4>1. j - m \in DOMAIN chunk /\ stored'[j].at = chunk[j - m].at /\ stored'[i].at = stored[i].at
        BY <1>6, <1>7, <2>1, <3>2
      <4> QED
        BY <2>3, <3>2, <4>1 DEF PathInv, PathOlder
    <3>3. CASE i \notin DOMAIN stored /\ j \in DOMAIN stored
      <4>1. i - m \in DOMAIN chunk /\ stored'[i].at = chunk[i - m].at /\ stored'[j].at = stored[j].at
        BY <1>6, <1>7, <2>1, <3>3
      <4> QED
        BY <2>3, <3>3, <4>1 DEF PathInv, PathOlder
    <3>4. CASE i \notin DOMAIN stored /\ j \notin DOMAIN stored
      <4>1. /\ i - m \in DOMAIN chunk /\ stored'[i].at = chunk[i - m].at
            /\ j - m \in DOMAIN chunk /\ stored'[j].at = chunk[j - m].at
        BY <1>7, <2>1, <3>4
      <4>2. i - m = j - m
        BY <2>3, <4>1 DEF PathInv, PathOlder
      <4>3. i \in Int /\ j \in Int /\ m \in Int
        BY <1>6
      <4> QED
        BY <4>2, <4>3
    <3> QED
      BY <3>1, <3>2, <3>3, <3>4
  <2>4. DOMAIN chunk' = {}
    BY <1>2, EmptyIsList
  <2> QED
    BY <1>2, <2>2, <2>3, <2>4 DEF PathOlder
<1>11. PathHeld'
  <2>1. \A i \in DOMAIN chunk : Entry(chunk[i])
    BY DEF PathInv, PathHeld
  <2>2. \A i \in DOMAIN stored' : Row(stored'[i])
    BY <1>7, <2>1, RowHolds DEF PathInv, PathHeld
  <2>3. \A i \in DOMAIN chunk : \A a : AlertOf(a, chunk[i]) => AlertOf(a, stored'[m + i])
    BY <1>5, <1>6, <2>1, RowHolds
  <2>4. \A a \in alerts' : \E j \in DOMAIN stored' : AlertOf(a, stored'[j])
    <3> SUFFICES ASSUME NEW a \in alerts' PROVE \E j \in DOMAIN stored' : AlertOf(a, stored'[j])
      OBVIOUS
    <3>1. CASE a \in alerts
      BY <1>6, <3>1 DEF PathInv, PathHeld
    <3>2. CASE a \in ToSet(pending)
      <4>1. \E i \in DOMAIN pending : a = pending[i]
        BY <3>2 DEF ToSet
      <4>2. \E j \in DOMAIN chunk : AlertOf(a, chunk[j])
        BY <4>1 DEF PathInv, PathHeld
      <4> QED
        BY <1>6, <2>3, <4>2
    <3> QED
      BY <1>2, <3>1, <3>2
  <2>5. DOMAIN chunk' = {} /\ DOMAIN pending' = {}
    BY <1>2, EmptyIsList
  <2> QED
    BY <2>2, <2>4, <2>5 DEF PathHeld
<1>12. \A i \in DOMAIN stored' : Brought(stored, stored'[i]) \/ Brought(chunk, stored'[i])
  BY <1>7 DEF Brought, RowOf
<1> QED
  BY <1>8, <1>9, <1>10, <1>11, <1>12 DEF PathInv

LEMMA PathInvStep ==
  ASSUME ReplacementsTellNothing, ParsersFit, PathInv, [Next]_vars
  PROVE  PathInv'
BY TakeHolds, FillHolds, SkipHolds, DiscardHolds, ApplyHolds, RuleRaisesHolds, KeepHolds, TagHolds, DetectHolds,
   IntelHolds, FinishHolds, FlushHolds, StutterHolds DEF Next

-----------------------------------------------------------------------------
(***************************************************************************)
(* What the rules make of a delivery when nothing raises.  Its course is    *)
(* the event in front of each rule in turn; two courses of the same bytes   *)
(* are one, so a delivery cannot be dropped where its twin is kept.         *)
(***************************************************************************)
Applies(m, e) == Actions[m].enabled /\ MatchRule(Actions[m].rule, FlattenEvent(e), TagsFor(Models, e))

Discards(m, e) == /\ Applies(m, e)
                  /\ Actions[m].action = "drop" \/ (Actions[m].action = "sample" /\ ~SampleKeeps(e, Actions[m].spec))

Outcome(m, e) == IF Actions[m].action \in {"mask", "route"} /\ Applies(m, e) THEN Transform(Actions[m], e) ELSE e

Course(k, n, w) == /\ w[1] = ParserApply(Arrived(k), {})
                   /\ \A m \in 1..(n - 1) : ~Discards(m, w[m]) /\ w[m + 1] = Outcome(m, w[m])

Led(k, n, e) == \E w : Course(k, n, w) /\ w[n] = e

LEMMA LedAtFirst ==
  ASSUME NEW k
  PROVE  Led(k, 1, ParserApply(Arrived(k), {}))
<1> DEFINE e == ParserApply(Arrived(k), {})
           w == [m \in {1} |-> e]
<1>1. w[1] = e
  OBVIOUS
<1>2. 1..(1 - 1) = {}
  OBVIOUS
<1> HIDE DEF w
<1>3. Course(k, 1, w)
  BY <1>1, <1>2 DEF Course
<1> QED
  BY <1>1, <1>3 DEF Led

LEMMA LedOnward ==
  ASSUME NEW k, NEW n \in Nat \ {0}, NEW e, Led(k, n, e), ~Discards(n, e)
  PROVE  Led(k, n + 1, Outcome(n, e))
<1>1. PICK w : Course(k, n, w) /\ w[n] = e
  BY DEF Led
<1> DEFINE f == Outcome(n, e)
           v == [m \in 1..(n + 1) |-> IF m = n + 1 THEN f ELSE w[m]]
<1>2. v[n + 1] = f /\ \A m \in 1..n : v[m] = w[m]
  OBVIOUS
<1> HIDE DEF v, f
<1>3. v[1] = ParserApply(Arrived(k), {})
  BY <1>1, <1>2 DEF Course
<1>4. ASSUME NEW m \in 1..((n + 1) - 1) PROVE ~Discards(m, v[m]) /\ v[m + 1] = Outcome(m, v[m])
  <2>1. CASE m = n
    BY <1>1, <1>2, <2>1 DEF f
  <2>2. CASE m # n
    <3>1. m \in 1..(n - 1) /\ m \in 1..n /\ m + 1 \in 1..n
      BY <2>2
    <3>2. ~Discards(m, w[m]) /\ w[m + 1] = Outcome(m, w[m])
      BY <1>1, <3>1 DEF Course
    <3>3. v[m] = w[m] /\ v[m + 1] = w[m + 1]
      BY <1>2, <3>1
    <3> QED
      BY <3>2, <3>3
  <2> QED
    BY <2>1, <2>2
<1>5. Course(k, n + 1, v)
  BY <1>3, <1>4 DEF Course
<1> QED
  BY <1>2, <1>5 DEF Led, f

LEMMA OneCourse ==
  ASSUME NEW i, NEW j, Arrived(i) = Arrived(j), NEW n \in Nat, NEW l \in 1..n, NEW w, Course(i, n, w), NEW v, Course(j, l, v)
  PROVE  w[l] = v[l]
<1> DEFINE T == {m \in 1..l : w[m] # v[m]}
<1>1. SUFFICES ASSUME T # {} PROVE FALSE
  OBVIOUS
<1>2. T \in SUBSET Nat
  OBVIOUS
<1> HIDE DEF T
<1>3. PICK x \in T : \A y \in T : x <= y
  BY <1>1, <1>2, LeastOf
<1>4. x \in 1..l /\ w[x] # v[x]
  BY <1>3 DEF T
<1>5. w[1] = v[1]
  BY DEF Course
<1>6. x # 1
  BY <1>4, <1>5
<1> DEFINE p == x - 1
<1>7. p \in 1..l /\ p \in 1..(l - 1) /\ p \in 1..(n - 1) /\ x = p + 1 /\ ~(x <= p)
  BY <1>4, <1>6
<1> HIDE DEF p
<1>8. w[p] = v[p]
  BY <1>3, <1>7 DEF T
<1>9. w[p + 1] = Outcome(p, w[p]) /\ v[p + 1] = Outcome(p, v[p])
  BY <1>7 DEF Course
<1> QED
  BY <1>4, <1>7, <1>8, <1>9

\* The same bytes are not kept once and dropped once, and what is kept is one event.
LEMMA OneFate ==
  ASSUME NEW i, NEW j, Arrived(i) = Arrived(j), NEW N \in Nat, NEW e, Led(i, N + 1, e)
  PROVE  /\ \A f : Led(j, N + 1, f) => f = e
         /\ \A n \in 1..N : \A f : ~(Led(j, n, f) /\ Discards(n, f))
<1>1. PICK w : Course(i, N + 1, w) /\ w[N + 1] = e
  BY DEF Led
<1>2. ASSUME NEW f, Led(j, N + 1, f) PROVE f = e
  <2>1. PICK v : Course(j, N + 1, v) /\ v[N + 1] = f
    BY <1>2 DEF Led
  <2>2. N + 1 \in Nat /\ N + 1 \in 1..(N + 1)
    OBVIOUS
  <2> DEFINE n == N + 1
  <2> HIDE DEF n
  <2>3. Course(j, n, v) /\ Course(i, n, w) /\ n \in Nat /\ n \in 1..n
    BY <1>1, <2>1, <2>2 DEF n
  <2>4. w[n] = v[n]
    BY <2>3, OneCourse
  <2> QED
    BY <1>1, <2>1, <2>4 DEF n
<1>3. ASSUME NEW n \in 1..N, NEW f, Led(j, n, f) PROVE ~Discards(n, f)
  <2>1. PICK v : Course(j, n, v) /\ v[n] = f
    BY <1>3 DEF Led
  <2>2. N + 1 \in Nat /\ n \in 1..(N + 1) /\ n \in 1..((N + 1) - 1)
    OBVIOUS
  <2>3. ~Discards(n, w[n])
    BY <1>1, <2>2 DEF Course
  <2> DEFINE M == N + 1
  <2> HIDE DEF M
  <2>4. M \in Nat /\ n \in 1..M /\ Course(i, M, w)
    BY <1>1, <2>2 DEF M
  <2>5. w[n] = v[n]
    BY <2>1, <2>4, OneCourse
  <2> QED
    BY <2>1, <2>3, <2>5
<1> QED
  BY <1>2, <1>3

-----------------------------------------------------------------------------
FateHeld ==
    /\ \A i \in DOMAIN chunk : Led(chunk[i].at, Len(Actions) + 1, chunk[i].evt)
    /\ \A i \in DOMAIN stored : Led(stored[i].at, Len(Actions) + 1, stored[i].evt)

FateInv ==
    faults = 0 =>
        /\ stage = "act" => Led(taken, step, evt)
        /\ \A k \in dropped : \E n \in 1..Len(Actions) : \E e : Led(k, n, e) /\ Discards(n, e)
        /\ FateHeld

fateVars == <<chunk, stored>>

LEMMA FateHeldStays == FateHeld /\ UNCHANGED fateVars => FateHeld'
BY DEF FateHeld, fateVars

LEMMA FateInvInit == Init => FateInv
<1> SUFFICES ASSUME Init PROVE FateInv
  OBVIOUS
<1>1. FateHeld
  BY EmptyIsList DEF Init, FateHeld
<1> QED
  BY <1>1 DEF Init, FateInv

LEMMA RaiseCounts == ASSUME PathInv, Raise PROVE faults' # 0
BY PathAssumption DEF PathInv, PathShape, Raise

LEMMA EasyFate ==
  ASSUME PathInv, FateInv, Take \/ Tag \/ Detect \/ Finish \/ UNCHANGED vars
  PROVE  FateInv'
<1>1. faults' = 0 => faults = 0
  <2>1. faults' = faults \/ Raise
    BY DEF Take, Tag, Detect, Finish, vars
  <2> QED
    BY <2>1, RaiseCounts
<1>2. stage' = "act" => stage = "act" /\ UNCHANGED <<taken, step, evt>>
  BY DEF Take, Tag, Detect, Finish, vars
<1>3. dropped' = dropped /\ UNCHANGED fateVars
  BY DEF Take, Tag, Detect, Finish, vars, fateVars
<1>4. faults' = 0 => FateHeld'
  BY <1>1, <1>3, FateHeldStays DEF FateInv
<1>5. faults' = 0 /\ stage' = "act" => Led(taken', step', evt')
  BY <1>1, <1>2 DEF FateInv
<1>6. faults' = 0 => \A k \in dropped' : \E n \in 1..Len(Actions) : \E e : Led(k, n, e) /\ Discards(n, e)
  BY <1>1, <1>3 DEF FateInv
<1> QED
  BY <1>4, <1>5, <1>6 DEF FateInv

LEMMA FillFate ==
  ASSUME PathInv, FateInv, Fill, faults' = 0
  PROVE  FateInv'
<1>1. ~Raise
  BY RaiseCounts
<1>2. stage = "fill" /\ evt = Arrived(taken) /\ step = 1
  BY DEF Fill, PathInv, PathCurrent
<1>3. evt' = ParserApply(evt, {}) /\ faults' = faults
  BY <1>1 DEF Fill
<1>4. UNCHANGED <<taken, step, dropped, chunk, stored>>
  BY DEF Fill
<1>5. Led(taken', step', evt')
  BY <1>2, <1>3, <1>4, LedAtFirst
<1> QED
  BY <1>3, <1>4, <1>5, FateHeldStays DEF FateInv, fateVars

\* A rule that matches what is in front of it applies to it.
LEMMA MatchesIs ==
  ASSUME PathInv, Acting
  PROVE  Matches(Actions[step]) <=> Applies(step, evt)
<1>1. Seen = FlattenEvent(evt) /\ EngineTags = TagsFor(Models, evt)
  BY ActingIs DEF EngineTags
<1> QED
  BY <1>1 DEF Matches, Applies

LEMMA RuleFate ==
  ASSUME PathInv, FateInv, Skip \/ Apply, faults' = 0
  PROVE  FateInv'
<1> DEFINE a == Actions[step]
<1>1. /\ Acting /\ faults' = faults /\ UNCHANGED <<taken, dropped, chunk, stored>> /\ step' = step + 1
  BY DEF Skip, Apply
<1>2. Led(taken, step, evt) /\ step \in Nat \ {0}
  BY <1>1, ActingIs DEF FateInv
<1>3. ~Discards(step, evt) /\ evt' = Outcome(step, evt)
  <2>1. CASE Skip
    <3>1. evt' = evt /\ (~Matches(a) \/ (a.action = "sample" /\ ~SampledOut(a)))
      BY <2>1 DEF Skip
    <3>2. CASE ~Matches(a)
      BY <1>1, <3>1, <3>2, MatchesIs DEF Discards, Outcome
    <3>3. CASE a.action = "sample" /\ ~SampledOut(a)
      BY <3>1, <3>3 DEF Discards, Outcome, SampledOut
    <3> QED
      BY <3>1, <3>2, <3>3
  <2>2. CASE Apply
    <3>1. a.action \in {"mask", "route"} /\ Matches(a) /\ evt' = Transform(a, evt)
      BY <2>2 DEF Apply
    <3> QED
      BY <1>1, <3>1, MatchesIs DEF Discards, Outcome
  <2> QED
    BY <2>1, <2>2
<1>4. Led(taken', step', evt')
  BY <1>1, <1>2, <1>3, LedOnward
<1> QED
  BY <1>1, <1>4, FateHeldStays DEF FateInv, fateVars

LEMMA DiscardFate ==
  ASSUME PathInv, FateInv, Discard, faults' = 0
  PROVE  FateInv'
<1> DEFINE a == Actions[step]
<1>1. /\ Acting /\ faults' = faults /\ UNCHANGED <<taken, evt, chunk, stored>> /\ stage' = "next"
      /\ dropped' = dropped \cup {taken} /\ Matches(a) /\ (a.action = "drop" \/ SampledOut(a))
  BY DEF Discard
<1>2. Led(taken, step, evt) /\ step \in 1..Len(Actions)
  BY <1>1, ActingIs DEF FateInv, Acting
<1>3. Discards(step, evt)
  BY <1>1, MatchesIs DEF Discards, SampledOut
<1> QED
  BY <1>1, <1>2, <1>3, FateHeldStays DEF FateInv, fateVars

LEMMA HeldFate ==
  ASSUME PathInv, FateInv, Keep \/ Intel \/ Flush, faults' = 0
  PROVE  FateInv'
<1>1. faults = 0
  <2>1. faults' = faults \/ Raise
    BY DEF Keep, Intel, Flush
  <2> QED
    BY <2>1, RaiseCounts
<1>2. stage' # "act" /\ UNCHANGED <<taken, dropped>>
  BY DEF Keep, Intel, Flush
<1>3. \A s, x : Brought(s, x) /\ (\A i \in DOMAIN s : Led(s[i].at, Len(Actions) + 1, s[i].evt)) => Led(x.at, Len(Actions) + 1, x.evt)
  BY DEF Brought
<1>4. FateHeld
  BY <1>1 DEF FateInv
<1>5. FateHeld'
  <2>1. CASE Keep
    <3>1. stored' = stored
      BY <2>1 DEF Keep
    <3>2. stage = "act" /\ step > Len(Actions)
      BY <2>1 DEF Keep
    <3>3. step = Len(Actions) + 1
      BY <3>2, RulesAreKept DEF PathInv, PathShape
    <3>4. Led(taken, Len(Actions) + 1, evt)
      BY <1>1, <3>2, <3>3 DEF FateInv
    <3>5. \A i \in DOMAIN chunk' : Brought(chunk, chunk'[i]) \/ (chunk'[i].at = taken /\ chunk'[i].evt = evt)
      BY <2>1, KeepHolds
    <3> QED
      BY <1>3, <1>4, <3>1, <3>4, <3>5 DEF FateHeld
  <2>2. CASE Intel
    <3>1. stored' = stored
      BY <2>2 DEF Intel
    <3>2. \A i \in DOMAIN chunk' : Brought(chunk, chunk'[i])
      BY <2>2, IntelHolds
    <3> QED
      BY <1>3, <1>4, <3>1, <3>2 DEF FateHeld
  <2>3. CASE Flush
    <3>1. DOMAIN chunk' = {}
      BY <2>3, EmptyIsList DEF Flush
    <3>2. \A i \in DOMAIN stored' : Brought(stored, stored'[i]) \/ Brought(chunk, stored'[i])
      BY <2>3, FlushHolds
    <3> QED
      BY <1>3, <1>4, <3>1, <3>2 DEF FateHeld
  <2> QED
    BY <2>1, <2>2, <2>3
<1> QED
  BY <1>1, <1>2, <1>5 DEF FateInv

LEMMA FateInvStep ==
  ASSUME PathInv, FateInv, [Next]_vars
  PROVE  FateInv'
<1>1. CASE faults' # 0
  BY <1>1 DEF FateInv
<1>2. CASE RuleRaises
  BY <1>2, RaiseCounts DEF RuleRaises, FateInv
<1>3. CASE faults' = 0 /\ ~RuleRaises
  BY <1>3, EasyFate, FillFate, RuleFate, DiscardFate, HeldFate DEF Next
<1> QED
  BY <1>1, <1>2, <1>3

LEMMA MaskedAreGone == PathInv => MaskedValuesAreGone
<1> SUFFICES ASSUME PathInv, NEW i \in DOMAIN stored, NEW w \in stored[i].secrets \ Replacements
             PROVE  /\ Hides(stored[i].evt, w)
                    /\ \A a \in alerts : a.at = stored[i].at => ~Shows(w, a.user_name) /\ ~Shows(w, a.message)
  BY DEF MaskedValuesAreGone
<1>1. Hides(stored[i].evt, w)
  BY DEF PathInv, PathHeld, Row, EvtHolds
<1>2. ASSUME NEW a \in alerts, a.at = stored[i].at PROVE ~Shows(w, a.user_name) /\ ~Shows(w, a.message)
  <2>1. PICK j \in DOMAIN stored : AlertOf(a, stored[j])
    BY DEF PathInv, PathHeld
  <2>2. stored[j].at = stored[i].at
    BY <1>2, <2>1 DEF AlertOf
  <2>3. j = i
    BY <2>2 DEF PathInv, PathOlder
  <2>4. a.user_name = stored[i].evt.cols.user_name /\ a.message = stored[i].evt.cols.message
    BY <2>1, <2>3 DEF AlertOf
  <2>5. ~Shows(w, stored[i].evt.cols["user_name"]) /\ ~Shows(w, stored[i].evt.cols["message"])
    BY <1>1, PathAssumption DEF Hides
  <2> QED
    BY <2>4, <2>5
<1> QED
  BY <1>1, <1>2

LEMMA FatesAgree == PathInv /\ FateInv => SameBytesSameFate
<1> DEFINE Ended(k) == k \in dropped \/ \E r \in DOMAIN stored : stored[r].at = k
           Fate(k) == {stored[r].dedup : r \in {x \in DOMAIN stored : stored[x].at = k}}
           N == Len(Actions)
<1> SUFFICES ASSUME PathInv, FateInv, NEW i \in 1..Len(Deliveries), NEW j \in 1..Len(Deliveries),
                    faults = 0, Ended(i), Ended(j), Deliveries[i] = Deliveries[j], Deliveries[i].time # "none"
             PROVE  Fate(i) = Fate(j)
  BY DEF SameBytesSameFate
<1>1. N \in Nat
  BY RulesAreKept
<1>2. Arrived(i) = Arrived(j)
  BY DEF Arrived
<1>3. \A r \in DOMAIN stored : Led(stored[r].at, N + 1, stored[r].evt) /\ stored[r].dedup = Identity(stored[r].evt)
  BY DEF FateInv, FateHeld, PathInv, PathHeld, Row
<1>4. \A k \in dropped : \E n \in 1..N : \E e : Led(k, n, e) /\ Discards(n, e)
  BY DEF FateInv
<1> HIDE DEF N
\* What is kept of one of the two is kept of the other, under the same identity.
<1>5. ASSUME NEW k \in {i, j}, NEW l \in {i, j}, NEW r \in DOMAIN stored, stored[r].at = k
      PROVE  \E s \in DOMAIN stored : stored[s].at = l /\ stored[s].dedup = stored[r].dedup
  <2>1. Arrived(k) = Arrived(l)
    BY <1>2
  <2> DEFINE e == stored[r].evt
  <2>2. Led(k, N + 1, e)
    BY <1>3, <1>5
  <2> HIDE DEF e
  <2>3. /\ \A f : Led(l, N + 1, f) => f = e
        /\ \A n \in 1..N : \A f : ~(Led(l, n, f) /\ Discards(n, f))
    BY <1>1, <2>1, <2>2, OneFate
  <2>4. l \notin dropped
    BY <1>4, <2>3
  <2>5. PICK s \in DOMAIN stored : stored[s].at = l
    BY <2>4
  <2>6. stored[s].evt = e
    BY <1>3, <2>3, <2>5
  <2>7. stored[s].dedup = stored[r].dedup
    BY <1>3, <2>6 DEF e
  <2> QED
    BY <2>5, <2>7
<1>6. \A k, x : x \in Fate(k) <=> \E r \in DOMAIN stored : stored[r].at = k /\ x = stored[r].dedup
  OBVIOUS
<1> HIDE DEF Fate, Ended
<1>7. \A x : x \in Fate(i) <=> x \in Fate(j)
  <2>1. ASSUME NEW x, x \in Fate(i) PROVE x \in Fate(j)
    <3>1. PICK r \in DOMAIN stored : stored[r].at = i /\ x = stored[r].dedup
      BY <1>6, <2>1
    <3>2. \E s \in DOMAIN stored : stored[s].at = j /\ stored[s].dedup = x
      BY <1>5, <3>1
    <3> QED
      BY <1>6, <3>2
  <2>2. ASSUME NEW x, x \in Fate(j) PROVE x \in Fate(i)
    <3>1. PICK r \in DOMAIN stored : stored[r].at = j /\ x = stored[r].dedup
      BY <1>6, <2>2
    <3>2. \E s \in DOMAIN stored : stored[s].at = i /\ stored[s].dedup = x
      BY <1>5, <3>1
    <3> QED
      BY <1>6, <3>2
  <2> QED
    BY <2>1, <2>2
<1>8. Fate(i) = {x \in Fate(i) : TRUE} /\ Fate(j) = {x \in Fate(j) : TRUE}
  BY DEF Fate
<1> QED
  BY <1>7, <1>8

LEMMA FaithfulFollows == PathInv /\ FateInv => StreamIsFaithful
<1> SUFFICES ASSUME PathInv, FateInv PROVE StreamIsFaithful
  OBVIOUS
<1>1. PathTypeOK
  BY DEF PathInv, PathShape, PathTypeOK
<1>2. MaskedValuesAreGone /\ SameBytesSameFate
  BY MaskedAreGone, FatesAgree
<1>3. MatchesSeeTheMask
  BY DEF PathInv, PathCurrent
<1>4. TypedColumnsStayTyped
  BY DEF PathInv, PathHeld, Row, EvtHolds, TypedColumnsStayTyped
<1>5. AlertsNameTheRow
  <2> SUFFICES ASSUME NEW a \in alerts
               PROVE  \E i \in DOMAIN stored :
                        /\ a.at = stored[i].at /\ a.dedup = stored[i].dedup
                        /\ a.user_name = stored[i].evt.cols.user_name /\ a.src_ip = stored[i].evt.cols.src_ip
    BY DEF AlertsNameTheRow
  <2>1. PICK j \in DOMAIN stored : AlertOf(a, stored[j])
    BY DEF PathInv, PathHeld
  <2>2. stored[j].dedup = Identity(stored[j].evt)
    BY DEF PathInv, PathHeld, Row
  <2> QED
    BY <2>1, <2>2 DEF AlertOf
<1>6. StoredTagsAreDerivable
  BY DEF PathInv, PathHeld, Row, StoredTagsAreDerivable
<1> QED
  BY <1>1, <1>2, <1>3, <1>4, <1>5, <1>6 DEF StreamIsFaithful

-----------------------------------------------------------------------------
(* What a stream stores is what its rules have left, for every stream, rules,  *)
(* parsers and faults: masked values are nowhere in the rows nor the alerts,   *)
(* columns keep their types, alerts name their row, and the same bytes meet    *)
(* the same fate (pipeline.write_stream).  Two hypotheses are about what an    *)
(* operator writes: no replacement holds another value, and what a parser      *)
(* reads into a typed column is of its type.                                   *)
THEOREM StreamStaysFaithful == ReplacementsTellNothing /\ ParsersFit => (Spec => []StreamIsFaithful)
<1> SUFFICES ASSUME ReplacementsTellNothing, ParsersFit PROVE Spec => []StreamIsFaithful
  OBVIOUS
<1>1. Init => PathInv /\ FateInv
  BY PathInvInit, FateInvInit
<1>2. PathInv /\ FateInv /\ [Next]_vars => (PathInv /\ FateInv)'
  BY PathInvStep, FateInvStep
<1>3. PathInv /\ FateInv => StreamIsFaithful
  BY FaithfulFollows
<1> QED
  BY <1>1, <1>2, <1>3, PTL DEF Spec

-----------------------------------------------------------------------------
(* No step of any of these machines, whichever of them runs, takes back what   *)
(* a later one has reached: a working index, the newest load, an offset        *)
(* (enrich/geo.py, collectors/crowdstrike.py).                                 *)
THEOREM NothingEverMovesBack == SourcesSpec => NothingMovesBack
<1>1. SourcesInit => GeoInit /\ StreamInit
  BY DEF SourcesInit
<1>2. [SourcesNext]_sourceVars => [GeoNext]_geoVars /\ [StreamNext]_streamVars
  BY DEF SourcesNext, Rest, sourceVars
<1>3. GeoInit => GeoInv
  BY GeoInvInit
<1>4. GeoInv /\ [GeoNext]_geoVars => GeoInv'
  BY GeoInvStep, GeoInvStays
<1>5. StreamInit => StreamInv
  BY StreamInvInit
<1>6. StreamInv /\ [StreamNext]_streamVars => StreamInv'
  BY StreamInvStep
<1>7. GeoInv /\ [GeoNext]_geoVars => [StaysWorking]_geoVars
  BY WorkingStep DEF GeoInv
<1>8. GeoInv /\ [GeoNext]_geoVars => [ReplacedByLater]_geoVars
  BY LaterStep DEF GeoInv
<1>9. StreamInv /\ [StreamNext]_streamVars => [Forward]_streamVars
  BY OffsetsStep
<1> QED
  BY <1>1, <1>2, <1>3, <1>4, <1>5, <1>6, <1>7, <1>8, <1>9, PTL
  DEF SourcesSpec, NothingMovesBack, WorkingIndexStays, NewestLoadStays, OffsetsNeverMoveBack, Forward
=============================================================================
