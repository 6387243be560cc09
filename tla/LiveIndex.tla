----------------------------- MODULE LiveIndex -----------------------------
(***************************************************************************)
(* The in-memory indexes the write path reads, and their reload after an   *)
(* edit: indicators (threatintel/runtime.py), allowlist rules              *)
(* (triage/runtime.py), field mappers (custom_parser.py), detection rules  *)
(* (detection/runtime.py) and the asset registry (assets/registry.py).     *)
(* An edit commits to the tables, then reloads: read, build, publish.      *)
(*                                                                         *)
(* The tables are a version number; an index is the pair of versions its   *)
(* two halves were read at.  Most are read and published at once.  The     *)
(* registry reads one table after another, all under a lock; the detection *)
(* rules have their flags set one after another, with none.                *)
(***************************************************************************)
EXTENDS Integers

CONSTANTS Editors, Refresher,    \* console requests; the feed scheduler
          MaxVersion, MaxReadFailures, MaxReloadRestarts

ASSUME LiveIndexAssumption ==
    Refresher \notin Editors /\ {MaxVersion, MaxReadFailures, MaxReloadRestarts} \subseteq Nat

Kinds == {"indicators", "suppressions", "parsers", "rules", "registry"}
Halves == {1, 2}

VARIABLES kind, table, live, step, readFailures, reloads,
          reordered,   \* an older half was published over a newer one
          failed       \* the reload of the last edit failed

indexVars == <<kind, table, live, step, readFailures, reloads, reordered, failed>>

Reloaders == Editors \cup {Refresher}
Both(v) == [h \in Halves |-> v]
Current == Both(table)
NoIndex == Both(-1)
Out == [at |-> "out"]
StepTo(w, rec) == step' = [step EXCEPT ![w] = rec]

IndexInit ==
    /\ kind \in Kinds
    /\ table = 0 /\ live = Both(0)
    /\ step = [w \in Reloaders |-> Out]
    /\ readFailures = 0 /\ reloads = 0
    /\ reordered = FALSE /\ failed = FALSE

MayAlways(w) == TRUE

\* with _lock: the registry's reload holds it from the read to the publish.
LockHeld(w) == \E v \in Reloaders \ {w} : step[v].at \in {"reading", "publish"}
MayReload(w) == kind # "registry" \/ ~LockHeld(w)

-----------------------------------------------------------------------------
\* A console request commits its edit; the reload is its next call.
Edit(w) ==
    /\ step[w] = Out /\ table < MaxVersion
    /\ table' = table + 1
    /\ StepTo(w, [at |-> "reload"])
    /\ UNCHANGED <<kind, live, readFailures, reloads, reordered, failed>>

RefreshUntilFailure ==
    /\ kind = "indicators" /\ step[Refresher] = Out /\ ~failed
    /\ StepTo(Refresher, [at |-> "reload"])
    /\ UNCHANGED <<kind, table, live, readFailures, reloads, reordered, failed>>

\* FeedScheduler: a refresh with no change in the tables, for indicators only.
Refresh ==
    /\ kind = "indicators" /\ step[Refresher] = Out
    /\ StepTo(Refresher, [at |-> "reload"])
    /\ UNCHANGED <<kind, table, live, readFailures, reloads, reordered, failed>>

ReadOneHalf(w) ==
    /\ step[w].at = "reload" /\ MayReload(w)
    /\ StepTo(w, IF kind = "registry" THEN [at |-> "reading", first |-> table]
                                      ELSE [at |-> "publish", read |-> Current, left |-> {1}])
    /\ UNCHANGED <<kind, table, live, readFailures, reloads, reordered, failed>>

ReadFirst(w) ==
    /\ step[w].at = "reload" /\ MayReload(w)
    /\ StepTo(w, IF kind = "registry" THEN [at |-> "reading", first |-> table]
                                      ELSE [at |-> "publish", read |-> Current, left |-> Halves])
    /\ UNCHANGED <<kind, table, live, readFailures, reloads, reordered, failed>>

\* The registry's second table, in a statement that sees later commits.
ReadSecond(w) ==
    /\ step[w].at = "reading"
    /\ StepTo(w, [at |-> "publish", left |-> Halves,
                  read |-> [h \in Halves |-> IF h = 1 THEN step[w].first ELSE table]])
    /\ UNCHANGED <<kind, table, live, readFailures, reloads, reordered, failed>>

\* What one assignment publishes: everything, or one rule's flag.
Published(w) == IF kind = "rules" THEN {CHOOSE h \in step[w].left : \A k \in step[w].left : h <= k}
                                  ELSE step[w].left

Publish(w) ==
    /\ step[w].at = "publish"
    /\ LET s == step[w]
           now == [h \in Halves |-> IF h \in Published(w) THEN s.read[h] ELSE live[h]]
       IN  /\ live' = now
           /\ reordered' = (now # Current
                              /\ (reordered \/ \E h \in Published(w) : s.read[h] < live[h]))
           /\ failed' = (failed /\ now # Current)
           /\ StepTo(w, IF s.left = Published(w) THEN Out
                                                 ELSE [s EXCEPT !.left = @ \ Published(w)])
    /\ UNCHANGED <<kind, table, readFailures, reloads>>

\* The read raises: the field mappers are emptied, the other indexes kept.
ReadFails(w) ==
    /\ step[w].at = "reload" /\ MayReload(w) /\ readFailures < MaxReadFailures
    /\ readFailures' = readFailures + 1
    /\ failed' = TRUE
    /\ live' = IF kind = "parsers" THEN NoIndex ELSE live
    /\ StepTo(w, Out)
    /\ UNCHANGED <<kind, table, reloads, reordered>>

\* main.lifespan loads every index before it serves.
ReloadRestart ==
    /\ reloads < MaxReloadRestarts
    /\ reloads' = reloads + 1
    /\ live' = Current
    /\ step' = [w \in Reloaders |-> Out]
    /\ reordered' = FALSE /\ failed' = FALSE
    /\ UNCHANGED <<kind, table, readFailures>>

ReloadStep(w) == ReadFirst(w) \/ ReadSecond(w) \/ Publish(w)

IndexNext ==
    \/ \E w \in Editors : Edit(w)
    \/ Refresh
    \/ \E w \in Reloaders : ReloadStep(w) \/ ReadFails(w)
    \/ ReloadRestart

(* The scheduler's loop refreshes for ever and a request that has begun    *)
(* ends; nobody has to edit, and a read fails only so often.               *)
IndexFairness ==
    /\ WF_indexVars(Refresh)
    /\ \A w \in Reloaders : WF_indexVars(ReloadStep(w) \/ ReadFails(w))

IndexSpec == IndexInit /\ [][IndexNext]_indexVars /\ IndexFairness

-----------------------------------------------------------------------------
IndexTypeOK ==
    /\ kind \in Kinds /\ table \in 0..MaxVersion
    /\ live \in [Halves -> -1..table]
    /\ readFailures \in 0..MaxReadFailures /\ reloads \in 0..MaxReloadRestarts

(* Edit then reload: when no request is in between, the index is what the  *)
(* tables hold, unless the last reload failed or two reloads overlapped    *)
(* and the one that read first published last.                             *)
QuietIndexIsCurrent ==
    (\A w \in Reloaders : step[w] = Out) /\ ~reordered /\ ~failed => live = Current

(* registry.reload: under the lock an older registry is never published    *)
(* over a newer one, although the tables are read one after another.       *)
RegistryKeepsOrder == kind = "registry" => ~reordered

(* FeedScheduler: an index of indicators left behind by a failed or        *)
(* overtaken reload is replaced by the next refresh.                       *)
IndicatorsCatchUp ==
    kind = "indicators" /\ live # Current ~> live = Current
=============================================================================
