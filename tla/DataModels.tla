----------------------------- MODULE DataModels ------------------------------
(***************************************************************************)
(* The data-model registry: its caches in a running process, and what the  *)
(* database keeps of it.                                                   *)
(***************************************************************************)
EXTENDS Integers, FiniteSets, Sequences

-----------------------------------------------------------------------------
(***************************************************************************)
(* The data-model registry in a running process: the cache of              *)
(* cim/registry.py with its remembered failures, and the handle and the    *)
(* gates that detection/engine.py resolves from it.                        *)
(*                                                                         *)
(* The file holds a version or nothing that loads.  A worker that          *)
(* evaluates a bound rule takes the engine's lock to read a gate, again to *)
(* resolve the registry and again to write the gate.  A load takes no more *)
(* than LoadTicks of the clock.                                            *)
(***************************************************************************)
CONSTANTS GateWorkers, BoundRules, Revisions, Broken, NoRegistry,
          Wall,         \* _FAILURE_TTL_SECONDS and _CIM_RETRY_SECONDS, 30
          LoadTicks, MaxClock, MaxFileEdits, MaxReloads

ASSUME GateAssumption ==
    /\ NoRegistry \notin Revisions \cup GateWorkers /\ Broken \notin Revisions
    /\ Wall \in Nat /\ LoadTicks \in Nat

VARIABLES file, soundSince,
          cached, failedUntil,         \* registry: _cache, _failure
          resolved, retryAt,           \* engine: the handle, _cim_retry_at
          generation, gates,           \* _cim_generation, _gate_cache: rule -> revision
          worker,                      \* worker -> [at, rule, stamp, since, reg]
          engineLock, operator, clock, fileEdits, registryReloads,
          refusedLate                  \* a rule was refused long after the file was sound

gateVars == <<file, soundSince, cached, failedUntil, resolved, retryAt, generation, gates, worker,
              engineLock, operator, clock, fileEdits, registryReloads, refusedLate>>

AtRest == [at |-> "rest", rule |-> NoRegistry, stamp |-> 0, since |-> 0, reg |-> NoRegistry]
Unlocked == engineLock = NoRegistry

GateInit ==
    /\ file \in Revisions /\ soundSince = 0
    /\ cached = file /\ failedUntil = 0           \* main._require_cim_registry
    /\ resolved = NoRegistry /\ retryAt = 0 /\ generation = 0 /\ gates = [r \in {} |-> NoRegistry]
    /\ worker = [w \in GateWorkers |-> AtRest]
    /\ engineLock = NoRegistry /\ operator = "rest"
    /\ clock = 0 /\ fileEdits = 0 /\ registryReloads = 0 /\ refusedLate = FALSE

-----------------------------------------------------------------------------
(* registry.get_registry and reload: each one critical section.            *)
\* What a call answers, and the cache and the remembered failure after it.
GetRegistry ==
    IF cached # NoRegistry THEN [reg |-> cached, until |-> failedUntil]
    ELSE IF clock < failedUntil THEN [reg |-> NoRegistry, until |-> failedUntil]
    ELSE IF file \in Revisions THEN [reg |-> file, until |-> 0]
    ELSE [reg |-> NoRegistry, until |-> clock + Wall]

Answered == cached' = GetRegistry.reg /\ failedUntil' = GetRegistry.until

\* db._cim_tags: the write path asks for every row.
StoreRow ==
    /\ Answered
    /\ UNCHANGED <<file, soundSince, resolved, retryAt, generation, gates, worker, engineLock,
                   operator, clock, fileEdits, registryReloads, refusedLate>>

ReloadRegistry ==
    /\ operator = "rest" /\ registryReloads < MaxReloads
    /\ cached' = IF file \in Revisions THEN file ELSE NoRegistry
    /\ failedUntil' = IF file \in Revisions THEN 0 ELSE clock + Wall
    /\ operator' = "reset" /\ registryReloads' = registryReloads + 1
    /\ UNCHANGED <<file, soundSince, resolved, retryAt, generation, gates, worker, engineLock,
                   clock, fileEdits, refusedLate>>

\* The handle of before still there.
ResetGatesOnly ==
    /\ operator = "reset" /\ Unlocked
    /\ gates' = [r \in {} |-> NoRegistry] /\ generation' = generation + 1
    /\ operator' = "rest"
    /\ UNCHANGED <<file, soundSince, cached, failedUntil, resolved, retryAt, worker, engineLock, clock,
                   fileEdits, registryReloads, refusedLate>>

\* reset_cim_cache, after the reload.
ResetCimCache ==
    /\ operator = "reset" /\ Unlocked
    /\ resolved' = NoRegistry /\ retryAt' = 0
    /\ gates' = [r \in {} |-> NoRegistry] /\ generation' = generation + 1
    /\ operator' = "rest"
    /\ UNCHANGED <<file, soundSince, cached, failedUntil, worker, engineLock, clock, fileEdits, registryReloads,
                   refusedLate>>

-----------------------------------------------------------------------------
(* detection.engine._gate and _cim.                                        *)
Step(w, next) == worker' = [worker EXCEPT ![w] = next]
KeepsFile == UNCHANGED <<file, soundSince, fileEdits, clock, operator, registryReloads>>
KeepsRegistry == UNCHANGED <<cached, failedUntil>>

\* _gate begins: a memoized gate answers, otherwise the generation is noted.
ReadGate(w) ==
    \E r \in BoundRules :
        /\ worker[w].at = "rest" /\ Unlocked /\ r \notin DOMAIN gates
        /\ Step(w, [worker[w] EXCEPT !.at = "resolve", !.rule = r, !.stamp = generation])
        /\ KeepsFile /\ KeepsRegistry
        /\ UNCHANGED <<resolved, retryAt, generation, gates, engineLock, refusedLate>>

\* _cim finds the handle.
UseHandle(w) ==
    /\ worker[w].at = "resolve" /\ Unlocked /\ resolved # NoRegistry
    /\ Step(w, [worker[w] EXCEPT !.at = "bind", !.reg = resolved])
    /\ KeepsFile /\ KeepsRegistry
    /\ UNCHANGED <<resolved, retryAt, generation, gates, engineLock, refusedLate>>

\* Longer than the two walls and the load that armed the second.
Late == file \in Revisions /\ clock - soundSince > 2 * Wall + LoadTicks

Refused2(w) == Step(w, AtRest) /\ refusedLate' = (refusedLate \/ Late)

\* Every refused call moves the wall.
WaitAtSlidingWall(w) ==
    /\ worker[w].at = "resolve" /\ Unlocked /\ resolved = NoRegistry /\ clock < retryAt
    /\ retryAt' = clock + Wall /\ Refused2(w)
    /\ KeepsFile /\ KeepsRegistry
    /\ UNCHANGED <<resolved, generation, gates, engineLock>>

WaitAtWall(w) ==
    /\ worker[w].at = "resolve" /\ Unlocked /\ resolved = NoRegistry /\ clock < retryAt
    /\ Refused2(w)
    /\ KeepsFile /\ KeepsRegistry
    /\ UNCHANGED <<resolved, retryAt, generation, gates, engineLock>>

\* `now` is read before the load, which is made with the lock held.
BeginResolving(w) ==
    /\ worker[w].at = "resolve" /\ Unlocked /\ resolved = NoRegistry /\ clock >= retryAt
    /\ engineLock' = w
    /\ Step(w, [worker[w] EXCEPT !.at = "loading", !.since = clock])
    /\ KeepsFile /\ KeepsRegistry
    /\ UNCHANGED <<resolved, retryAt, generation, gates, refusedLate>>

EndResolving(w) ==
    /\ worker[w].at = "loading" /\ engineLock' = NoRegistry
    /\ Answered
    /\ resolved' = GetRegistry.reg
    /\ retryAt' = IF GetRegistry.reg = NoRegistry THEN worker[w].since + Wall ELSE 0
    /\ IF GetRegistry.reg = NoRegistry THEN Refused2(w)
       ELSE Step(w, [worker[w] EXCEPT !.at = "bind", !.reg = GetRegistry.reg]) /\ UNCHANGED refusedLate
    /\ KeepsFile /\ UNCHANGED <<generation, gates>>

Memo(w) == [r \in DOMAIN gates \cup {worker[w].rule} |-> IF r = worker[w].rule THEN worker[w].reg ELSE gates[r]]

\* Written back whatever happened meanwhile.
MemoAlways(w) ==
    /\ worker[w].at = "bind" /\ Unlocked
    /\ gates' = Memo(w)
    /\ Step(w, AtRest)
    /\ KeepsFile /\ KeepsRegistry
    /\ UNCHANGED <<resolved, retryAt, generation, engineLock, refusedLate>>

WriteGate(w) ==
    /\ worker[w].at = "bind" /\ Unlocked
    /\ gates' = IF worker[w].stamp = generation THEN Memo(w) ELSE gates
    /\ Step(w, AtRest)
    /\ KeepsFile /\ KeepsRegistry
    /\ UNCHANGED <<resolved, retryAt, generation, engineLock, refusedLate>>

-----------------------------------------------------------------------------
\* Someone edits models.yaml, for better or worse.
EditFile ==
    /\ fileEdits < MaxFileEdits /\ fileEdits' = fileEdits + 1
    /\ file' \in (Revisions \cup {Broken}) \ {file}
    /\ soundSince' = clock
    /\ UNCHANGED <<cached, failedUntil, resolved, retryAt, generation, gates, worker, engineLock, operator,
                   clock, registryReloads, refusedLate>>

PassTime ==
    /\ clock < MaxClock /\ clock' = clock + 1
    /\ \A w \in GateWorkers : worker[w].at = "loading" => clock - worker[w].since < LoadTicks
    /\ UNCHANGED <<file, soundSince, cached, failedUntil, resolved, retryAt, generation, gates, worker,
                   engineLock, operator, fileEdits, registryReloads, refusedLate>>

GateNext ==
    \/ \E w \in GateWorkers :
          \/ ReadGate(w) \/ UseHandle(w) \/ WaitAtWall(w) \/ BeginResolving(w) \/ EndResolving(w) \/ WriteGate(w)
    \/ StoreRow \/ ReloadRegistry \/ ResetCimCache \/ EditFile \/ PassTime

GateSpec == GateInit /\ [][GateNext]_gateVars

-----------------------------------------------------------------------------
(* A gate kept is of the registry in hand: neither one resolved before a     *)
(* reset nor the lack of a registry is ever memoized (engine.py, _gate).     *)
GatesAreCurrent == \A r \in DOMAIN gates : gates[r] = resolved /\ gates[r] \in Revisions

(* After "reload, then reset" the engine has the registry that was reloaded, *)
(* or none: it is never left with the one before (engine.py,                 *)
(* reset_cim_cache).                                                         *)
EngineFollowsReload == operator = "rest" => resolved \in {NoRegistry, cached}

(* A repaired file is picked up within the two walls in series, whoever else *)
(* asks meanwhile, and without anyone's reload (engine.py, _cim).            *)
RecoversWithinTwoWalls == ~refusedLate

(* The gates follow the registry through resets, failures and the walls    *)
(* behind them.                                                            *)
GatesFollowRegistry == GatesAreCurrent /\ EngineFollowsReload /\ RecoversWithinTwoWalls

-----------------------------------------------------------------------------
(***************************************************************************)
(* The data-model registry and the database (app/db.py, app/main.py): the  *)
(* start-up that rebuilds the cim_<tag> views and stamps cim_meta, the     *)
(* tags stored with each row, the backfill that re-derives them after an   *)
(* edit of models.yaml, and the status that says whether one is due.       *)
(*                                                                         *)
(* A registry is model -> [members, columns]: the shapes of event the      *)
(* model takes and the projection of its view; a projection in BadColumns  *)
(* makes CREATE VIEW fail.  One process serves at a time.                  *)
(***************************************************************************)
CONSTANTS ModelNames,
          ModelFiles,      \* contents models.yaml may have
          Garbled,         \* a content that does not load
          BadColumns,
          PackMembers,     \* model -> shapes an installed pack adds to it
          EventShapes, Clickers,
          WalkChunkSize, MaxStored, MaxCimEdits, MaxCimStarts, MaxCimFaults

ASSUME CimStorageAssumption ==
    /\ WalkChunkSize \in Nat \ {0} /\ MaxStored \in Nat
    /\ Garbled \notin ModelFiles /\ \A f \in ModelFiles : DOMAIN f \subseteq ModelNames

VARIABLES
    modelsFile, packIn,    \* on disk, and whether the pack is installed
    cimPhase,              \* the process is "down", building its "views", or "up"
    liveModels,            \* registry._cache; <<>> when down
    viewsLeft, failedViews, initError,   \* of init_cim, in _cim_init; nothing turns on the views' order
    viewDefs,              \* model -> the registry entry its view was built from
    dependents,            \* models over whose view an analyst has built another
    cimMeta,               \* the row of cim_meta: <<>>, or <<{}>> or <<{its backfill_hash}>>
    stored,                \* row -> [shape, tags, since]; since: tagged after the last stamp
    walks, jobState,       \* request -> its walk; _cim_backfill["state"]
    diskMemo, diskRead,    \* _registry_disk_cache, and the content a page has read
    hindered, stuck, torn, \* what excuses a stale view, a lasting "running", a wrong memo
    cimEdits, cimStarts, cimFaults

cimVars == <<modelsFile, packIn, cimPhase, liveModels, viewsLeft, failedViews, initError, viewDefs, dependents, cimMeta,
             stored, walks, jobState, diskMemo, diskRead, hindered, stuck, torn, cimEdits, cimStarts, cimFaults>>

NoWalk == [at |-> "idle", after |-> 0, covers |-> {}]

CimInit ==
    /\ modelsFile \in ModelFiles /\ packIn = FALSE /\ cimPhase = "down" /\ liveModels = <<>>
    /\ viewsLeft = {} /\ failedViews = {} /\ initError = FALSE /\ viewDefs = [m \in {} |-> <<>>] /\ dependents = {}
    /\ cimMeta = <<>> /\ stored = <<>>
    /\ walks = [c \in Clickers |-> NoWalk] /\ jobState = "idle"
    /\ diskMemo = <<>> /\ diskRead = <<>>
    /\ hindered = {} /\ stuck = FALSE /\ torn = FALSE
    /\ cimEdits = 0 /\ cimStarts = 0 /\ cimFaults = 0

-----------------------------------------------------------------------------
(* What a registry says.                                                   *)

\* _with_packs: a pack adds members to a model that is there, never a model.
WithPacks(models, in) ==
    [m \in DOMAIN models |->
        IF in /\ m \in DOMAIN PackMembers
          THEN [models[m] EXCEPT !.members = @ \cup PackMembers[m]] ELSE models[m]]

\* cim_membership_fingerprint: the models and their clauses, not their fields.
FingerprintOfTags(registry) == [m \in DOMAIN registry |-> registry[m].members]
TagsIn(registry, shape) == {m \in DOMAIN registry : shape \in registry[m].members}

-----------------------------------------------------------------------------
(* The start-up.                                                           *)
KeepsViews == UNCHANGED <<viewsLeft, failedViews, initError, viewDefs, hindered>>
KeepsDisk == UNCHANGED <<diskMemo, diskRead, torn>>
KeepsJobs == UNCHANGED <<walks, jobState, stuck>>

\* _require_cim_registry and the reload after init_schema: a file that does not load stops the start.
CimBoot ==
    /\ cimPhase = "down" /\ modelsFile # Garbled /\ cimStarts < MaxCimStarts
    /\ cimPhase' = "views" /\ liveModels' = WithPacks(modelsFile, packIn)
    /\ viewsLeft' = DOMAIN modelsFile
    /\ failedViews' = {} /\ initError' = FALSE /\ hindered' = {} /\ cimStarts' = cimStarts + 1
    /\ UNCHANGED <<modelsFile, packIn, viewDefs, dependents, cimMeta, stored, cimEdits, cimFaults>>
    /\ KeepsJobs /\ KeepsDisk

\* DROP and CREATE of one model's view in a transaction of their own.
Blocked(m) == m \in dependents \/ liveModels[m].columns \in BadColumns
ViewBuilt(m) == [v \in DOMAIN viewDefs \cup {m} |-> IF v = m THEN liveModels[m] ELSE viewDefs[v]]
AfterView(m) == IF Blocked(m) THEN viewDefs ELSE ViewBuilt(m)
BuildView ==
    /\ cimPhase = "views"
    /\ \E m \in viewsLeft :
          /\ viewDefs' = AfterView(m) /\ viewsLeft' = viewsLeft \ {m}
          /\ failedViews' = IF Blocked(m) THEN failedViews \cup {m} ELSE failedViews
          /\ hindered' = IF Blocked(m) THEN hindered \cup {m} ELSE hindered
    /\ UNCHANGED <<modelsFile, packIn, cimPhase, liveModels, initError, dependents, cimMeta, stored, cimEdits, cimStarts, cimFaults>>
    /\ KeepsJobs /\ KeepsDisk

\* _drop_orphan_cim_views, a savepoint each, and _stamp_cim, which leaves backfill_hash alone.
Orphans == DOMAIN viewDefs \ DOMAIN liveModels
ReclaimedByCascade == Orphans
Reclaimed == Orphans \ dependents
StampKept == IF cimMeta = <<>> THEN <<{}>> ELSE cimMeta
FinishViews ==
    /\ cimPhase = "views" /\ viewsLeft = {}
    /\ viewDefs' = [m \in DOMAIN viewDefs \ Reclaimed |-> viewDefs[m]]
    /\ hindered' = hindered \cup (Orphans \cap dependents)
    /\ cimMeta' = StampKept /\ cimPhase' = "up"
    /\ UNCHANGED <<modelsFile, packIn, liveModels, viewsLeft, failedViews, initError, dependents, stored, cimEdits, cimStarts, cimFaults>>
    /\ KeepsJobs /\ KeepsDisk

\* The database fails under init_cim: the views built so far stay, nothing is stamped, and it serves.
InitCimRaises ==
    /\ cimPhase = "views" /\ cimFaults < MaxCimFaults
    /\ cimFaults' = cimFaults + 1 /\ cimPhase' = "up"
    /\ hindered' = hindered \cup viewsLeft \cup Orphans
    /\ failedViews' = {} /\ viewsLeft' = {} /\ initError' = TRUE
    /\ UNCHANGED <<modelsFile, packIn, liveModels, viewDefs, dependents, cimMeta, stored, cimEdits, cimStarts>>
    /\ KeepsJobs /\ KeepsDisk

\* The process dies or is restarted: what it remembers goes, a walk in its thread with it.
CimStops ==
    /\ cimPhase # "down"
    /\ cimPhase' = "down" /\ liveModels' = <<>> /\ viewsLeft' = {} /\ failedViews' = {} /\ initError' = FALSE
    /\ hindered' = {} /\ walks' = [c \in Clickers |-> NoWalk] /\ jobState' = "idle" /\ stuck' = FALSE
    /\ diskMemo' = <<>> /\ diskRead' = <<>> /\ torn' = FALSE
    /\ UNCHANGED <<modelsFile, packIn, viewDefs, dependents, cimMeta, stored, cimEdits, cimStarts, cimFaults>>

-----------------------------------------------------------------------------
(* The editor of models.yaml, the pack's installer and the analyst.        *)
EditModels ==
    /\ cimEdits < MaxCimEdits
    /\ \E f \in ModelFiles \cup {Garbled} :
        /\ f # modelsFile /\ modelsFile' = f /\ torn' = (torn \/ diskRead # <<>>)
    /\ cimEdits' = cimEdits + 1
    /\ UNCHANGED <<packIn, cimPhase, liveModels, dependents, cimMeta, stored, diskMemo, diskRead, cimStarts, cimFaults>>
    /\ KeepsViews /\ KeepsJobs

PackComesOrGoes ==
    /\ cimPhase = "up" /\ cimEdits < MaxCimEdits
    /\ packIn' = ~packIn /\ cimEdits' = cimEdits + 1
    /\ UNCHANGED <<modelsFile, cimPhase, liveModels, dependents, cimMeta, stored, cimStarts, cimFaults>>
    /\ KeepsViews /\ KeepsJobs /\ KeepsDisk

AnalystBuilds ==
    /\ cimEdits < MaxCimEdits /\ cimEdits' = cimEdits + 1
    /\ \E m \in DOMAIN viewDefs \ dependents : dependents' = dependents \cup {m}
    /\ UNCHANGED <<modelsFile, packIn, cimPhase, liveModels, cimMeta, stored, cimStarts, cimFaults>>
    /\ KeepsViews /\ KeepsJobs /\ KeepsDisk

AnalystDrops ==
    /\ cimEdits < MaxCimEdits /\ cimEdits' = cimEdits + 1
    /\ \E m \in dependents : dependents' = dependents \ {m}
    /\ UNCHANGED <<modelsFile, packIn, cimPhase, liveModels, cimMeta, stored, cimStarts, cimFaults>>
    /\ KeepsViews /\ KeepsJobs /\ KeepsDisk

-----------------------------------------------------------------------------
(* Rows, and the walk over them.                                           *)

\* _row: the tags under the registry this process loaded.
StoreEvent1 ==
    /\ cimPhase = "up" /\ Len(stored) < MaxStored
    /\ \E s \in EventShapes :
        stored' = Append(stored, [shape |-> s, tags |-> TagsIn(liveModels, s), since |-> TRUE])
    /\ UNCHANGED <<modelsFile, packIn, cimPhase, liveModels, dependents, cimMeta, cimEdits, cimStarts, cimFaults>>
    /\ KeepsViews /\ KeepsJobs /\ KeepsDisk

KeepsStored ==
    /\ UNCHANGED <<modelsFile, packIn, cimPhase, liveModels, dependents, cimEdits, cimStarts>>
    /\ KeepsViews /\ KeepsDisk

\* admin_cim_backfill: no await between the test and the mark, then the audit in another thread.
MayStart == jobState # "running"
Click(c) ==
    /\ cimPhase = "up" /\ walks[c].at = "idle" /\ MayStart
    /\ jobState' = "running" /\ walks' = [walks EXCEPT ![c].at = "audit"]
    /\ UNCHANGED <<cimMeta, stored, stuck, cimFaults>> /\ KeepsStored

\* create_task; the job's cursor starts before the first row.
StartJob(c) ==
    /\ walks[c].at = "audit"
    /\ walks' = [walks EXCEPT ![c] = [at |-> "walk", after |-> 0, covers |-> DOMAIN stored]]
    /\ UNCHANGED <<cimMeta, stored, jobState, stuck, cimFaults>> /\ KeepsStored

\* The audit's insert raises: the request fails and no task is there to leave "running".
AuditRaises(c) ==
    /\ walks[c].at = "audit" /\ cimFaults < MaxCimFaults
    /\ walks' = [walks EXCEPT ![c] = NoWalk] /\ stuck' = TRUE /\ cimFaults' = cimFaults + 1
    /\ UNCHANGED <<cimMeta, stored, jobState>> /\ KeepsStored

\* A page by id and the rows of it whose tags differ, committed together.
PageAfter(after) == {i \in DOMAIN stored : i > after /\ i <= after + WalkChunkSize}
Retagged(page) ==
    [i \in DOMAIN stored |->
        IF i \in page /\ stored[i].tags # TagsIn(liveModels, stored[i].shape)
        THEN [stored[i] EXCEPT !.tags = TagsIn(liveModels, stored[i].shape), !.since = TRUE] ELSE stored[i]]
IsLastPage(page) == Cardinality(page) < WalkChunkSize
WalkPage(c) ==
    /\ walks[c].at = "walk"
    /\ LET page == PageAfter(walks[c].after)
       IN  /\ stored' = Retagged(page)
           /\ walks' = [walks EXCEPT ![c].after = @ + Cardinality(page),
                                     ![c].at = IF IsLastPage(page) THEN "stamp" ELSE "walk"]
    /\ UNCHANGED <<cimMeta, jobState, stuck, cimFaults>> /\ KeepsStored

\* An unbounded pass that reached the end says under which rule; without a row there is nothing to update.
BackfillHash == FingerprintOfTags(liveModels)
StampWalk(c) ==
    /\ walks[c].at = "stamp"
    /\ cimMeta' = IF cimMeta = <<>> THEN <<>> ELSE <<{BackfillHash}>>
    /\ stored' = [i \in DOMAIN stored |->
                    IF cimMeta # <<>> /\ i \in walks[c].covers THEN [stored[i] EXCEPT !.since = FALSE] ELSE stored[i]]
    /\ jobState' = "done" /\ walks' = [walks EXCEPT ![c] = NoWalk]
    /\ UNCHANGED <<stuck, cimFaults>> /\ KeepsStored

JobFails(c) ==
    /\ walks[c].at \in {"walk", "stamp"} /\ cimFaults < MaxCimFaults
    /\ jobState' = "error" /\ walks' = [walks EXCEPT ![c] = NoWalk] /\ cimFaults' = cimFaults + 1
    /\ UNCHANGED <<cimMeta, stored, stuck>> /\ KeepsStored

-----------------------------------------------------------------------------
(* registry_drift, on every render: read_bytes, then load_registry, which  *)
(* reads the file again, remembered under the content first read.          *)
Remembered(content) == diskMemo # <<>> /\ diskMemo[1].content = content
DriftReads ==
    /\ cimPhase = "up" /\ diskRead = <<>> /\ ~Remembered(modelsFile) /\ diskRead' = <<modelsFile>>
    /\ UNCHANGED <<modelsFile, packIn, cimPhase, liveModels, dependents, cimMeta, stored, diskMemo, torn, cimEdits, cimStarts, cimFaults>>
    /\ KeepsViews /\ KeepsJobs

MemoFor(content) == <<[content |-> content, hash |-> FingerprintOfTags(modelsFile)]>>
DriftLoads ==
    /\ diskRead # <<>> /\ diskRead' = <<>>
    /\ diskMemo' = IF modelsFile = Garbled THEN diskMemo ELSE MemoFor(diskRead[1])
    /\ UNCHANGED <<modelsFile, packIn, cimPhase, liveModels, dependents, cimMeta, stored, torn, cimEdits, cimStarts, cimFaults>>
    /\ KeepsViews /\ KeepsJobs

\* What cim_status answers when nothing moves under it: disk_hash (<<>>: unreadable), and its two flags.
DiskHash == IF Remembered(modelsFile) THEN <<diskMemo[1].hash>>
            ELSE IF modelsFile = Garbled THEN <<>> ELSE <<FingerprintOfTags(modelsFile)>>
TargetHash == IF DiskHash = <<>> THEN FingerprintOfTags(liveModels) ELSE DiskHash[1]
BackfillDue == cimMeta # <<{TargetHash}>>
RestartRequired == DiskHash # <<>> /\ DiskHash[1] # FingerprintOfTags(liveModels)

-----------------------------------------------------------------------------
CimNext ==
    \/ CimBoot \/ BuildView \/ FinishViews \/ InitCimRaises \/ CimStops
    \/ EditModels \/ PackComesOrGoes \/ AnalystBuilds \/ AnalystDrops
    \/ StoreEvent1 \/ DriftReads \/ DriftLoads
    \/ \E c \in Clickers :
        \/ Click(c) \/ StartJob(c) \/ AuditRaises(c)
        \/ WalkPage(c) \/ StampWalk(c) \/ JobFails(c)

CimSpec == CimInit /\ [][CimNext]_cimVars

-----------------------------------------------------------------------------
CimTypeOK ==
    /\ modelsFile \in ModelFiles \cup {Garbled} /\ cimPhase \in {"down", "views", "up"}
    /\ DOMAIN viewDefs \subseteq ModelNames /\ jobState \in {"idle", "running", "done", "error"}
    /\ \A i \in DOMAIN stored : stored[i].tags \subseteq ModelNames
    /\ \A c \in Clickers : walks[c].after \in 0..MaxStored

(* Neither a restart nor a backfill owed means that every row has the tags *)
(* of the registry, unless something tagged it after the last whole pass:  *)
(* an edit taken back before its backfill ended leaves such rows, and      *)
(* cim_status cannot tell (db.py:875-915, 942-1052).                       *)
GreenMeansCurrent ==
    (cimPhase = "up" /\ ~torn /\ ~BackfillDue /\ ~RestartRequired) =>
        \A i \in DOMAIN stored : stored[i].since \/ stored[i].tags = TagsIn(liveModels, stored[i].shape)

(* Without that exception, as cim_status puts it (db.py:885-887): not due  *)
(* means that no row was tagged under another rule.  It does not hold.     *)
NotDueMeansNotStale ==
    (cimPhase = "up" /\ ~torn /\ ~BackfillDue /\ ~RestartRequired) =>
        \A i \in DOMAIN stored : stored[i].tags = TagsIn(liveModels, stored[i].shape)

(* What registry_drift remembers of a content is that content's            *)
(* fingerprint, unless the file was edited between its two reads           *)
(* (db.py:859-866).                                                        *)
MemoIsOfContent ==
    (diskMemo # <<>> /\ ~torn) =>
        diskMemo[1].content # Garbled /\ diskMemo[1].hash = FingerprintOfTags(diskMemo[1].content)

(* After the start every view is of the registry that serves, and one that *)
(* is not is named or stands in the way of an analyst's: what blocks one   *)
(* model blocks no other (db.py:743-811).                                  *)
ViewsFollow ==
    cimPhase = "up" =>
        /\ \A m \in DOMAIN liveModels : m \in hindered \/ (m \in DOMAIN viewDefs /\ viewDefs[m] = liveModels[m])
        /\ DOMAIN viewDefs \subseteq DOMAIN liveModels \cup hindered
        /\ hindered \cap DOMAIN liveModels \subseteq failedViews \/ initError

(* An analyst's view is never left without the one it is built on.         *)
DependentsStand == dependents \subseteq DOMAIN viewDefs

(* One walk at a time, and the state tells of it, unless a request died    *)
(* between its mark and its task (main.py:1680-1702).                      *)
OneWalkRuns ==
    LET busy == {c \in Clickers : walks[c].at # "idle"}
    IN  /\ Cardinality(busy) <= 1
        /\ busy # {} => jobState = "running"
        /\ jobState = "running" => busy # {} \/ stuck

(* All that holds of the registry and what the database keeps of it.       *)
CimStoreIsTrue ==
    /\ CimTypeOK /\ GreenMeansCurrent /\ MemoIsOfContent
    /\ ViewsFollow /\ DependentsStand /\ OneWalkRuns

(* The caches over the data-model registry and what the database keeps of  *)
(* it follow the registry.                                                 *)
DataModelsAreTrue == GatesFollowRegistry /\ CimStoreIsTrue
=============================================================================
