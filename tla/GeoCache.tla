------------------------------ MODULE GeoCache ------------------------------
(***************************************************************************)
(* app/enrich/geo.py: the index of the side-loaded country and ASN files,  *)
(* how it is loaded, replaced and asked, and db.py's stamp that says under *)
(* which files stored history was derived.                                 *)
(*                                                                         *)
(* A setting is its place in _GEO_SETTINGS, the least taking precedence.   *)
(* A file is [content, stat]: content 0 does not parse, and stat stands    *)
(* for size and mtime.  An index is [sources, failed, began, torn]; sources*)
(* maps a setting to what was read for it, began numbers the loads, and    *)
(* torn says that a file changed between the stat and the reading of it.  A*)
(* side-load replaces a file, it does not write into one.                  *)
(***************************************************************************)
EXTENDS Integers, Sequences, FiniteSets

CONSTANTS GeoSettings,    \* _GEO_SETTINGS, as numbers
          BinaryFiles,    \* those whose build string is in the fingerprint
          Covers,         \* setting -> the addresses its file has an answer for
          Addresses, Contents,
          MaxSideLoads, MaxGeoRows, MaxGeoStarts, MaxReloads,
          MaxMemo,        \* _MEMO_MAX
          LoadFaults      \* loads that raise

ASSUME GeoAssumption ==
    /\ GeoSettings \subseteq Nat
    /\ Covers \in [GeoSettings -> SUBSET Addresses]
    /\ Contents \subseteq Nat /\ 1 \in Contents

VARIABLES
    geoFiles, geoConfigured,
    geoPhase,     \* the process is down, starting (main.lifespan's reload) or up
    geoCache,     \* _cache: <<>> or <<index>>
    geoLock,      \* who holds _lock
    loadOf,       \* thread -> its load: where it is and what it has so far
    heldIndex,    \* what the writer was given: <<>> or <<index>>
    memos,        \* the memo: <<index, address>> -> answer
    geoRows,      \* stored events: [ip, answer, late]
    geoStamp,     \* geo_meta.backfill_hash: <<>> or <<fingerprint>>
    hasMeta,      \* geo_meta has its row
    misresolved,  \* a row was stored with another answer than its index has
    preserved,    \* a file was swapped under its old size and mtime
    sideLoads, geoStarts, reloads, loads, loadFaults

geoVars == <<geoFiles, geoConfigured, geoPhase, geoCache, geoLock, loadOf, heldIndex, memos, geoRows, geoStamp,
             hasMeta, misresolved, preserved, sideLoads, geoStarts, reloads, loads, loadFaults>>
Threads2 == {"writer", "reloader"}
NoSources == [s \in {} |-> 0]
EmptyIndex == [sources |-> NoSources, failed |-> {}, began |-> 0, torn |-> FALSE]
\* file: the one it is reading, as its stat (seen) found it.
NoLoad == [at |-> "idle", todo |-> {}, file |-> 0, seen |-> [content |-> 0, stat |-> 0],
           sources |-> NoSources, failed |-> {}, began |-> 0, torn |-> FALSE]

GeoInit ==
    /\ geoFiles = [s \in GeoSettings |-> [content |-> 1, stat |-> 0]]
    /\ geoConfigured \in SUBSET GeoSettings
    /\ geoPhase = "down" /\ geoCache = <<>> /\ geoLock = "free" /\ loadOf = [t \in Threads2 |-> NoLoad]
    /\ heldIndex = <<>> /\ memos = [k \in {} |-> 0] /\ geoRows = <<>> /\ geoStamp = <<>> /\ hasMeta = FALSE
    /\ misresolved = FALSE /\ preserved = FALSE
    /\ sideLoads = 0 /\ geoStarts = 0 /\ reloads = 0 /\ loads = 0 /\ loadFaults = 0

-----------------------------------------------------------------------------
(* An index.                                                               *)
\* _fingerprint: a CSV has no build, its row count is left out.
FingerprintOf(index) ==
    [s \in DOMAIN index.sources |->
        <<index.sources[s].stat, IF s \in BinaryFiles THEN index.sources[s].content ELSE 0>>]

HasSources(index) == DOMAIN index.sources # {}

\* GeoIndex.lookup without its memo: the first source that has an answer.
AnswerOf(index, ip) ==
    LET covering == {s \in DOMAIN index.sources : ip \in Covers[s]}
        first == CHOOSE s \in covering : \A u \in covering : s <= u
    IN  IF covering = {} THEN 0 ELSE index.sources[first].content

\* One memo for all indexes.
MemoKeyOfAddress(index, ip) == <<0, ip>>

\* The memo belongs to its index.
MemoKey(index, ip) == <<index.began, ip>>

\* GeoIndex.lookup
LookupIn(index, ip) ==
    IF HasSources(index) /\ MemoKey(index, ip) \in DOMAIN memos THEN memos[MemoKey(index, ip)] ELSE AnswerOf(index, ip)

Memoized(index, ip) ==
    LET key == MemoKey(index, ip)
        full == Cardinality({k \in DOMAIN memos : k[1] = key[1]}) >= MaxMemo
        kept == IF full THEN {k \in DOMAIN memos : k[1] # key[1]} ELSE DOMAIN memos
    IN  IF ~HasSources(index) \/ key \in DOMAIN memos THEN memos
        ELSE [k \in kept \cup {key} |-> IF k = key THEN AnswerOf(index, ip) ELSE memos[k]]

-----------------------------------------------------------------------------
(* load, source by source; it runs under _lock.                            *)
KeepsStore == UNCHANGED <<geoRows, geoStamp, hasMeta, misresolved, memos>>
KeepsFiles == UNCHANGED <<geoFiles, geoConfigured, preserved, sideLoads>>

Loading(at) == [NoLoad EXCEPT !.at = at, !.began = loads + 1, !.todo = geoConfigured]

\* In the order of precedence; the file is stat'ed before it is read.
StatSource(t) ==
    /\ loadOf[t].at = "stat"
    /\ \E s \in loadOf[t].todo :
          /\ \A u \in loadOf[t].todo : s <= u
          /\ loadOf' = [loadOf EXCEPT ![t] = [@ EXCEPT !.at = "read", !.file = s, !.seen = geoFiles[s]]]
    /\ KeepsStore /\ KeepsFiles /\ UNCHANGED <<geoPhase, geoCache, geoLock, heldIndex, geoStarts, reloads, loads, loadFaults>>

\* Read, then stat'ed.
StatLast(before, now) == [stat |-> now.stat, content |-> before.content]

\* The file as it was before it was opened, and what was read of it.
SourceFrom(before, now) == [stat |-> before.stat, content |-> now.content]

Extended(sources, s, source) == [u \in DOMAIN sources \cup {s} |-> IF u = s THEN source ELSE sources[u]]

\* _open_mmdb, _open_csv: a file that does not parse becomes an error of the index.
ReadSource(t) ==
    LET load == loadOf[t]
        now == geoFiles[load.file]
        source == SourceFrom(load.seen, now)
    IN  /\ load.at = "read"
        /\ loadOf' = [loadOf EXCEPT ![t] =
                [load EXCEPT
                    !.at = "stat", !.todo = @ \ {load.file},
                    !.sources = IF source.content = 0 THEN @ ELSE Extended(@, load.file, source),
                    !.failed = IF source.content = 0 THEN @ \cup {load.file} ELSE @,
                    !.torn = @ \/ load.seen # now]]
        /\ KeepsStore /\ KeepsFiles /\ UNCHANGED <<geoPhase, geoCache, geoLock, heldIndex, geoStarts, reloads, loads, loadFaults>>

LoadedIndex(t) ==
    [sources |-> loadOf[t].sources, failed |-> loadOf[t].failed, began |-> loadOf[t].began, torn |-> loadOf[t].torn]
HasLoaded(t) == loadOf[t].at = "stat" /\ loadOf[t].todo = {}

-----------------------------------------------------------------------------
(* The writer: db._geo_context and get_index.                              *)
\* The cached index; without one, the lock is waited for.
AskIndex ==
    /\ geoPhase = "up" /\ heldIndex = <<>> /\ loadOf["writer"].at = "idle"
    /\ IF geoCache # <<>> THEN heldIndex' = geoCache /\ UNCHANGED loadOf
       ELSE loadOf' = [loadOf EXCEPT !["writer"] = [@ EXCEPT !.at = "wait"]] /\ UNCHANGED heldIndex
    /\ KeepsStore /\ KeepsFiles /\ UNCHANGED <<geoPhase, geoCache, geoLock, geoStarts, reloads, loads, loadFaults>>

\* The load goes ahead whoever holds the lock.
StartLoadAnyhow ==
    /\ loadOf' = [loadOf EXCEPT !["writer"] = Loading("stat")] /\ loads' = loads + 1
    /\ UNCHANGED <<geoLock, heldIndex>>

\* Having the lock, it looks again.
StartLoad ==
    /\ geoLock = "free"
    /\ IF geoCache # <<>>
         THEN /\ heldIndex' = geoCache /\ loadOf' = [loadOf EXCEPT !["writer"] = NoLoad]
              /\ UNCHANGED <<geoLock, loads>>
         ELSE /\ geoLock' = "writer" /\ loadOf' = [loadOf EXCEPT !["writer"] = Loading("stat")]
              /\ loads' = loads + 1 /\ UNCHANGED heldIndex

LockAndLoad ==
    /\ loadOf["writer"].at = "wait" /\ StartLoad
    /\ KeepsStore /\ KeepsFiles /\ UNCHANGED <<geoPhase, geoCache, geoStarts, reloads, loadFaults>>

Unlocked2(t) == IF geoLock = t THEN "free" ELSE geoLock

InstallFirst ==
    /\ HasLoaded("writer") /\ geoCache' = <<LoadedIndex("writer")>> /\ heldIndex' = geoCache'
    /\ geoLock' = Unlocked2("writer") /\ loadOf' = [loadOf EXCEPT !["writer"] = NoLoad]
    /\ KeepsStore /\ KeepsFiles /\ UNCHANGED <<geoPhase, geoStarts, reloads, loads, loadFaults>>

\* load raises: an empty index that is not cached.
FirstLoadRaises ==
    /\ loadOf["writer"].at \in {"stat", "read"} /\ loadFaults < LoadFaults /\ loadFaults' = loadFaults + 1
    /\ heldIndex' = <<EmptyIndex>> /\ geoLock' = Unlocked2("writer")
    /\ loadOf' = [loadOf EXCEPT !["writer"] = NoLoad]
    /\ KeepsStore /\ KeepsFiles /\ UNCHANGED <<geoPhase, geoCache, geoStarts, reloads, loads>>

\* resolve and insert; late: derived under an index that is not the live one.
StoreEvent(ip) ==
    LET index == heldIndex[1]
        answer == LookupIn(index, ip)
    IN  /\ heldIndex # <<>> /\ Len(geoRows) < MaxGeoRows
        /\ geoRows' = Append(geoRows, [ip |-> ip, answer |-> answer, late |-> geoCache # heldIndex])
        /\ memos' = Memoized(index, ip)
        /\ misresolved' = (misresolved \/ answer # AnswerOf(index, ip))
        /\ heldIndex' = <<>>
        /\ KeepsFiles /\ UNCHANGED <<geoPhase, geoCache, geoLock, loadOf, geoStamp, hasMeta, geoStarts, reloads, loads, loadFaults>>

-----------------------------------------------------------------------------
(* reload, at the start and after a side-load.                             *)
ReloadBegins ==
    /\ geoLock = "free" /\ loadOf["reloader"].at = "idle"
    /\ geoPhase = "starting" \/ (geoPhase = "up" /\ reloads < MaxReloads)
    /\ reloads' = IF geoPhase = "up" THEN reloads + 1 ELSE reloads
    /\ geoLock' = "reloader" /\ loadOf' = [loadOf EXCEPT !["reloader"] = Loading("stat")] /\ loads' = loads + 1
    /\ KeepsStore /\ KeepsFiles /\ UNCHANGED <<geoPhase, geoCache, heldIndex, geoStarts, loadFaults>>

\* stamp_geo_sources: the first stamp of a store without events is taken for its history.
Stamped2(index) ==
    /\ geoPhase' = "up"
    /\ hasMeta' = (hasMeta \/ geoPhase = "starting")
    /\ geoStamp' = IF geoPhase = "starting" /\ ~hasMeta /\ geoRows = <<>> THEN <<FingerprintOf(index)>> ELSE geoStamp

ReloadEnds ==
    /\ geoLock' = Unlocked2("reloader") /\ loadOf' = [loadOf EXCEPT !["reloader"] = NoLoad]
    /\ KeepsFiles /\ UNCHANGED <<heldIndex, geoRows, misresolved, memos, geoStarts, reloads, loads>>

\* What was loaded, whatever it is.
InstalledAlways(index) == <<index>>

\* Nothing that could be loaded does not replace something.
InstalledBy(index) ==
    IF ~HasSources(index) /\ index.failed # {} /\ geoCache # <<>> /\ HasSources(geoCache[1]) THEN geoCache
    ELSE <<index>>

Reload2 ==
    /\ HasLoaded("reloader")
    /\ geoCache' = InstalledBy(LoadedIndex("reloader"))
    /\ Stamped2(geoCache'[1]) /\ ReloadEnds /\ UNCHANGED loadFaults

\* The previous index stays; at the start there is none.
ReloadRaises ==
    /\ loadOf["reloader"].at \in {"stat", "read"} /\ loadFaults < LoadFaults /\ loadFaults' = loadFaults + 1
    /\ Stamped2(IF geoCache = <<>> THEN EmptyIndex ELSE geoCache[1])
    /\ ReloadEnds /\ UNCHANGED geoCache

-----------------------------------------------------------------------------
\* backfill_geo, a full pass under the live index (HistoryBackfill has its walk).
Backfill2 ==
    /\ geoPhase = "up" /\ geoCache # <<>> /\ geoRows # <<>>
    /\ geoRows' = [i \in DOMAIN geoRows |->
                     [geoRows[i] EXCEPT !.answer = LookupIn(geoCache[1], geoRows[i].ip), !.late = FALSE]]
    /\ geoStamp' = IF hasMeta THEN <<FingerprintOf(geoCache[1])>> ELSE geoStamp
    /\ <<geoRows, geoStamp>>' # <<geoRows, geoStamp>>
    /\ KeepsFiles /\ UNCHANGED <<geoPhase, geoCache, geoLock, loadOf, heldIndex, memos, hasMeta, misresolved,
                                 geoStarts, reloads, loads, loadFaults>>

\* The process starts, with the settings it finds; what it held is gone.
StartProcess ==
    /\ geoStarts < MaxGeoStarts /\ geoStarts' = geoStarts + 1
    /\ geoPhase' = "starting" /\ geoCache' = <<>> /\ geoLock' = "free" /\ heldIndex' = <<>>
    /\ loadOf' = [t \in Threads2 |-> NoLoad] /\ memos' = [k \in {} |-> 0]
    /\ geoConfigured' \in {geoConfigured, GeoSettings}
    /\ UNCHANGED <<geoFiles, geoRows, geoStamp, hasMeta, misresolved, preserved, sideLoads, reloads, loads, loadFaults>>

\* A file is replaced, by a new one or, cp -p, by one of the same size and mtime.
SideLoad(s, content, asBefore) ==
    /\ sideLoads < MaxSideLoads /\ sideLoads' = sideLoads + 1
    /\ content # geoFiles[s].content /\ (asBefore => content # 0 /\ geoFiles[s].content # 0)
    /\ geoFiles' = [geoFiles EXCEPT ![s] = [content |-> content, stat |-> IF asBefore THEN @.stat ELSE sideLoads + 1]]
    /\ preserved' = (preserved \/ asBefore)
    /\ KeepsStore /\ UNCHANGED <<geoConfigured, geoPhase, geoCache, geoLock, loadOf, heldIndex,
                                 geoStarts, reloads, loads, loadFaults>>

GeoNext ==
    \/ \E t \in Threads2 : StatSource(t) \/ ReadSource(t)
    \/ AskIndex \/ LockAndLoad \/ InstallFirst \/ FirstLoadRaises \/ (\E ip \in Addresses : StoreEvent(ip))
    \/ ReloadBegins \/ Reload2 \/ ReloadRaises \/ Backfill2 \/ StartProcess
    \/ \E s \in GeoSettings, c \in Contents, asBefore \in BOOLEAN : SideLoad(s, c, asBefore)

GeoSpec == GeoInit /\ [][GeoNext]_geoVars

-----------------------------------------------------------------------------
\* main._geo_health: an index that lacks a configured source, or history behind it.
GeoHealthy == geoCache # <<>> /\ geoCache[1].failed = {} /\ geoStamp = <<FingerprintOf(geoCache[1])>>

(* When /health has nothing to say about geo, the live index has every       *)
(* configured source and every stored row the answer it gives: a side-load   *)
(* that history has not caught up with is never hidden, across restarts and  *)
(* though a file is replaced while it is read.  What the code accepts: a     *)
(* file swapped under its size and mtime, the index of a load in which that  *)
(* happened, and rows written under an index no longer live (geo.py,         *)
(* _fingerprint; db.py, geo_status).                                         *)
HealthyIsCurrent ==
    GeoHealthy /\ ~geoCache[1].torn /\ ~preserved =>
        /\ DOMAIN geoCache[1].sources = geoConfigured
        /\ \A i \in DOMAIN geoRows : ~geoRows[i].late => geoRows[i].answer = AnswerOf(geoCache[1], geoRows[i].ip)

(* The memo never changes an answer: a row is stored with what its index     *)
(* says, whatever was asked before and of whichever index.                   *)
MemoIsTransparent == ~misresolved

\* A working index is not replaced by one with nothing in it.
StaysWorking ==
    geoCache # <<>> /\ geoCache' # <<>> /\ HasSources(geoCache[1]) => HasSources(geoCache'[1])

(* Within a process, a reload whose files are all broken does not strip      *)
(* country and ASN from the events that follow (geo.py, reload).             *)
WorkingIndexStays == [][StaysWorking]_geoVars

\* An index is replaced by one whose load began later.
ReplacedByLater == geoCache # <<>> /\ geoCache' \notin {<<>>, geoCache} => geoCache'[1].began > geoCache[1].began

(* A reload is not undone by a first load that was under way: the files it   *)
(* was called for are the ones that are asked from then on (geo.py,          *)
(* get_index's second look under the lock).                                  *)
NewestLoadStays == [][ReplacedByLater]_geoVars

(* Rows and index agree when the status page says so, and the memo is not  *)
(* seen.                                                                   *)
GeoIsTrue == HealthyIsCurrent /\ MemoIsTransparent
=============================================================================
