-------------------------- MODULE HistoryBackfill --------------------------
(***************************************************************************)
(* Derived context on stored events and the two operator runs that correct *)
(* it (app/db.py): backfill_assets writes the registry columns,            *)
(* backfill_geo the geo columns, and both write the one context_tags array *)
(* the two sides share.  A run pins its indexes, walks the rows by id in   *)
(* chunks, commits each chunk, and stamps what it derived under only if it *)
(* saw the whole table.  Rows are inserted, reloads happen and the other   *)
(* run may be walking while it does.                                       *)
(*                                                                         *)
(* An index is the version of what it was built from.  Version 0 of the    *)
(* registry is the empty one, which is also what get_index answers when    *)
(* the registry cannot be read.                                            *)
(***************************************************************************)
EXTENDS Integers, FiniteSets

CONSTANTS RowIds,        \* 1..n, in the order the sequence gives them out
          Chunk, MaxAssetVersion, MaxGeoVersion, MaxRuns, MaxBackfillRestarts

ASSUME BackfillAssumption ==
    /\ IsFiniteSet(RowIds) /\ RowIds \subseteq Nat \ {0}
    /\ Chunk \in Nat \ {0} /\ MaxRuns \in Nat /\ MaxBackfillRestarts \in Nat
    /\ {MaxAssetVersion, MaxGeoVersion} \subseteq Nat

Runs == {"assets", "geo"}

VARIABLES
  assetLive, geoLive,   \* the versions that are live now
  registryRead,         \* this process has loaded the registry since it started
  events,   \* id -> [at, asset, geo, tags]: what its columns were derived under
  run,      \* run -> where its walk is
  resume,   \* run -> the last_id it reported, to start from again
  stamp,    \* run -> backfill_hash, the version it was derived under
  runs, restartsDone,
  late,     \* rows committed, under an older index, behind a walk that should have seen them
  crossed, \* the two runs walked at the same time
  stripped   \* rows an asset run wrote from the empty registry it got for an unreadable one

backfillVars == <<assetLive, geoLive, registryRead, events, run, resume, stamp, runs,
                  restartsDone, late, crossed, stripped>>
liveIndexes == <<assetLive, geoLive, registryRead>>

NoStamp == -1
NotRunning == [at |-> "idle"]
Absent == [at |-> "none", asset |-> 0, geo |-> 0, tags |-> <<0, 0>>]
Live(r) == IF r = "assets" THEN assetLive ELSE geoLive
Other(r) == IF r = "assets" THEN "geo" ELSE "assets"
Stored == {i \in RowIds : events[i].at = "stored"}
Set(r, rec) == run' = [run EXCEPT ![r] = rec]

BackfillInit ==
    /\ assetLive = 0 /\ geoLive = 0 /\ registryRead = TRUE
    /\ events = [i \in RowIds |-> Absent]
    /\ run = [r \in Runs |-> NotRunning]
    /\ resume = [r \in Runs |-> 0]
    /\ stamp = [r \in Runs |-> IF r = "geo" THEN 0 ELSE NoStamp]  \* seeded: no history yet
    /\ runs = 0 /\ restartsDone = 0
    /\ late = {} /\ crossed = FALSE /\ stripped = {}

\* assets.get_index: the live registry, or the empty one while it cannot be read.
RegistryAnswers == IF registryRead THEN {assetLive} ELSE {assetLive, 0}

-----------------------------------------------------------------------------
\* _row: derive the context, take an id, insert; the commit comes later.
Insert(i) ==
    /\ events[i].at = "none" /\ \A j \in RowIds : j < i => events[j].at # "none"
    /\ \E a \in RegistryAnswers :
          events' = [events EXCEPT ![i] =
              [at |-> "open", asset |-> a, geo |-> geoLive, tags |-> <<a, geoLive>>]]
    /\ UNCHANGED <<liveIndexes, run, resume, stamp, runs, restartsDone, late, crossed, stripped>>

\* A run that derives under what is live now has no more to read up to i.
Behind(r, i) ==
    \/ stamp[r] = Live(r)
    \/ run[r].at # "idle" /\ run[r].pin[r] = Live(r) /\ run[r].cursor >= i
    \/ run[r].at \in {"write", "finish"} /\ run[r].pin[r] = Live(r)

CommitInsert(i) ==
    /\ events[i].at = "open"
    /\ events' = [events EXCEPT ![i].at = "stored"]
    /\ late' = IF \/ events[i].asset # assetLive /\ Behind("assets", i)
                  \/ events[i].geo # geoLive /\ Behind("geo", i)
                 THEN late \cup {i} ELSE late
    /\ UNCHANGED <<liveIndexes, run, resume, stamp, runs, restartsDone, crossed, stripped>>

\* A registry edit and its reload; a side-loaded geo database and its reload.
RegistryReload ==
    /\ assetLive < MaxAssetVersion
    /\ assetLive' = assetLive + 1 /\ registryRead' = TRUE
    /\ UNCHANGED <<geoLive, events, run, resume, stamp, runs, restartsDone, late, crossed, stripped>>

GeoReload ==
    /\ geoLive < MaxGeoVersion
    /\ geoLive' = geoLive + 1
    /\ UNCHANGED <<assetLive, registryRead, events, run, resume, stamp, runs, restartsDone,
                   late, crossed, stripped>>

-----------------------------------------------------------------------------
NeverDegraded(r, a) == FALSE

\* _refuse_if_asset_registry_degraded, for the geo run alone.
Degraded(r, a) == r = "geo" /\ a = 0 /\ assetLive # 0

AnyPass(start) == TRUE

FullPass(start) == start = 0

BackfillBegins(r, start) ==
    /\ run[r] = NotRunning /\ runs < MaxRuns
    /\ start \in {0, resume[r]}
    /\ \E a \in RegistryAnswers :
          /\ ~Degraded(r, a)
          /\ Set(r, [at |-> "read", cursor |-> start, full |-> FullPass(start),
                     pin |-> [assets |-> a, geo |-> geoLive]])
    /\ runs' = runs + 1
    /\ crossed' = (crossed \/ run[Other(r)] # NotRunning)
    /\ UNCHANGED <<liveIndexes, events, resume, stamp, restartsDone, late, stripped>>

\* What the run would store for a row, and whether that changes its columns.
Derived(r, row) ==
    LET pin == run[r].pin
    IN  IF r = "assets" THEN [row EXCEPT !.asset = pin.assets, !.tags = <<pin.assets, pin.geo>>]
                        ELSE [row EXCEPT !.geo = pin.geo, !.tags = <<pin.assets, pin.geo>>]

\* SELECT ... WHERE id > cursor ORDER BY id LIMIT chunk: committed rows only.
Page(cursor) ==
    LET ahead == {i \in Stored : i > cursor}
    IN  {i \in ahead : Cardinality({j \in ahead : j < i}) < Chunk}

ReadChunk(r) ==
    /\ run[r].at = "read"
    /\ LET page == Page(run[r].cursor)
       IN  \/ page = {} /\ Set(r, [run[r] EXCEPT !.at = "finish"])
           \/ \E last \in page :
                 /\ \A i \in page : i <= last
                 /\ Set(r, [at |-> "write", full |-> run[r].full, pin |-> run[r].pin,
                            cursor |-> last, short |-> Cardinality(page) < Chunk,
                            changed |-> {i \in page : Derived(r, events[i]) # events[i]}])
    /\ UNCHANGED <<liveIndexes, events, resume, stamp, runs, restartsDone, late, crossed, stripped>>

\* executemany of the changed rows and COMMIT; a short page ends the walk.
WriteChunk(r) ==
    /\ run[r].at = "write"
    /\ LET t == run[r]
       IN  /\ events' = [i \in RowIds |->
                           IF i \in t.changed THEN Derived(r, events[i]) ELSE events[i]]
           /\ resume' = [resume EXCEPT ![r] = t.cursor]
           /\ Set(r, [at |-> IF t.short THEN "finish" ELSE "read", cursor |-> t.cursor,
                      full |-> t.full, pin |-> t.pin])
           /\ stripped' = IF r # "assets" THEN stripped
                          ELSE IF t.pin.assets = 0 /\ assetLive # 0 THEN stripped \cup t.changed
                          ELSE stripped \ t.changed
    /\ UNCHANGED <<liveIndexes, stamp, runs, restartsDone, late, crossed>>

StampOfCursor(r) == IF run[r].full THEN run[r].cursor ELSE stamp[r]

\* The stamp: only a run that saw the whole table from its start.
StampOf(r) == IF run[r].full THEN run[r].pin[r] ELSE stamp[r]

BackfillFinishes(r) ==
    /\ run[r].at = "finish"
    /\ stamp' = [stamp EXCEPT ![r] = StampOf(r)]
    /\ Set(r, NotRunning)
    /\ UNCHANGED <<liveIndexes, events, resume, runs, restartsDone, late, crossed, stripped>>

\* max_rows is reached: the run returns with done = False.
BackfillStops(r) ==
    /\ run[r].at = "read" /\ resume[r] = run[r].cursor
    /\ Set(r, NotRunning)
    /\ UNCHANGED <<liveIndexes, events, resume, stamp, runs, restartsDone, late, crossed, stripped>>

\* The process restarts; the registry may not load at once.
BackfillRestart ==
    /\ restartsDone < MaxBackfillRestarts
    /\ restartsDone' = restartsDone + 1
    /\ registryRead' \in BOOLEAN
    /\ run' = [r \in Runs |-> NotRunning]
    /\ events' = [i \in RowIds |-> IF events[i].at = "open" THEN [events[i] EXCEPT !.at = "lost"]
                                                            ELSE events[i]]
    /\ UNCHANGED <<assetLive, geoLive, resume, stamp, runs, late, crossed, stripped>>

BackfillNext ==
    \/ \E i \in RowIds : Insert(i) \/ CommitInsert(i)
    \/ RegistryReload \/ GeoReload \/ BackfillRestart
    \/ \E r \in Runs, start \in {0} \cup RowIds : BackfillBegins(r, start)
    \/ \E r \in Runs : ReadChunk(r) \/ WriteChunk(r) \/ BackfillFinishes(r) \/ BackfillStops(r)

BackfillSpec == BackfillInit /\ [][BackfillNext]_backfillVars

-----------------------------------------------------------------------------
BackfillTypeOK ==
    /\ assetLive \in 0..MaxAssetVersion /\ geoLive \in 0..MaxGeoVersion
    /\ \A i \in RowIds : events[i].at \in {"none", "open", "stored", "lost"}
    /\ \A r \in Runs : stamp[r] \in NoStamp..Live(r)
    /\ late \subseteq Stored

(* The stamp of a completed pass: when a status page says that no backfill *)
(* is owed, every stored row carries the columns the live index derives,   *)
(* except rows committed late or stored while the registry was unread, and *)
(* rows a run that found it unread has stripped.                           *)
StampMeansHistory ==
    \A i \in Stored \ late :
        /\ i \notin stripped /\ assetLive # 0 /\ stamp["assets"] = assetLive => events[i].asset = assetLive
        /\ stamp["geo"] = geoLive => events[i].geo = geoLive

(* _derived_context: with neither run owed, the shared array holds what    *)
(* both live indexes derive, whichever run came last, unless the two ever  *)
(* walked at the same time: then each may write the other's older half.    *)
TagsConverge ==
    /\ assetLive # 0 /\ stamp["assets"] = assetLive
    /\ stamp["geo"] = geoLive /\ ~crossed
    => \A i \in Stored \ (late \cup stripped) : events[i].tags = <<assetLive, geoLive>>

(* _refuse_if_asset_registry_degraded says that backfill_assets needs no   *)
(* such guard: then no run of its own may take the registry's columns from *)
(* rows that a completed pass has stamped.                                 *)
NeedsNoGuard ==
    assetLive # 0 /\ stamp["assets"] = assetLive
        => \A i \in Stored \ late : events[i].asset = assetLive

(* A stamp that says no backfill is owed is true of the rows, whatever ran *)
(* beside the walk.                                                        *)
BackfillIsTrue == BackfillTypeOK /\ StampMeansHistory /\ TagsConverge
=============================================================================
