---------------------------- MODULE SecretsVault ----------------------------
(***************************************************************************)
(* Collector credentials (app/vault): rows sealed under a master key, a    *)
(* plaintext cache per process, and the three operations an administrator  *)
(* has on them: set or delete a slot, import the environment's values, and *)
(* rotate the key.  A sealed row is [value, key]; it opens under that key  *)
(* and no other.  The row and the cache change in separate steps.          *)
(***************************************************************************)
EXTENDS Integers, FiniteSets

CONSTANTS Slots, Keys, FirstKey,
          VaultWorkers,          \* request threads and the collector builder
          MaxVaultWrites, MaxRestarts

ASSUME VaultAssumption ==
    FirstKey \in Keys /\ MaxVaultWrites \in Nat /\ MaxRestarts \in Nat

VARIABLES
  rows,      \* slot -> its sealed row, NoRow without one
  cache,     \* slot -> plaintext, NoValue without one
  procKey,   \* VAULT_KEY of the running process
  task,      \* worker -> what it is in the middle of
  rotated,   \* the key of the last committed rotation
  restarts,
  \* history, for the properties
  latest,    \* slot -> the value it should hold, NoValue when deleted
  writes,    \* values given out so far
  lateReads, \* slots whose row changed while a get was between its read and its cache write
  strays,    \* slots written under another key than `rotated`
  overtaken  \* slots set between a rotation's or an import's read and its write

vaultVars == <<rows, cache, procKey, task, rotated, restarts,
               latest, writes, lateReads, strays, overtaken>>
history == <<latest, writes, lateReads, strays, overtaken>>

NoRow == [value |-> 0, key |-> FirstKey]
NoValue == 0
EnvValue == 0 - 1       \* what the environment variable holds
Resting == [at |-> "idle"]
Do(w, rec) == task' = [task EXCEPT ![w] = rec]
Held(s) == rows[s] # NoRow
Mid(step) == {w \in VaultWorkers : task[w].at = step}

VaultInit ==
    /\ rows = [s \in Slots |-> NoRow] /\ cache = [s \in Slots |-> NoValue]
    /\ procKey = FirstKey /\ rotated = FirstKey /\ restarts = 0
    /\ task = [w \in VaultWorkers |-> Resting]
    /\ latest = [s \in Slots |-> NoValue] /\ writes = 0
    /\ lateReads = {} /\ strays = {} /\ overtaken = {}

-----------------------------------------------------------------------------
(* get(): a cached value is returned as it is; else the row is read, opened*)
(* and cached.  A row under another key, or none, leaves the environment.  *)
GetRead(w, s) ==
    /\ task[w] = Resting /\ cache[s] = NoValue
    /\ Held(s) /\ rows[s].key = procKey
    /\ Do(w, [at |-> "fill", slot |-> s, value |-> rows[s].value])
    /\ UNCHANGED <<rows, cache, procKey, rotated, restarts, history>>

GetFill(w) ==
    /\ task[w].at = "fill"
    /\ cache' = [cache EXCEPT ![task[w].slot] = task[w].value]
    /\ Do(w, Resting)
    /\ UNCHANGED <<rows, procKey, rotated, restarts, history>>

Filling(s) == \E w \in Mid("fill") : task[w].slot = s
NoteLateRead(changed) == lateReads' = lateReads \cup {s \in changed : Filling(s)}

-----------------------------------------------------------------------------
\* set_secret: seal under the key held now, put the row, invalidate the slot.
SetSeal(w, s) ==
    /\ task[w] = Resting /\ writes < MaxVaultWrites
    /\ writes' = writes + 1
    /\ Do(w, [at |-> "put", slot |-> s, row |-> [value |-> writes + 1, key |-> procKey],
              import |-> FALSE])
    /\ UNCHANGED <<rows, cache, procKey, rotated, restarts, latest, lateReads, strays, overtaken>>

\* migrate_env_secrets: only a slot the vault did not hold when it was listed.
ImportList(w, s) ==
    /\ task[w] = Resting /\ ~Held(s) /\ writes < MaxVaultWrites
    /\ writes' = writes + 1
    /\ Do(w, [at |-> "put", slot |-> s, row |-> [value |-> EnvValue, key |-> procKey],
              import |-> TRUE])
    /\ UNCHANGED <<rows, cache, procKey, rotated, restarts, latest, lateReads, strays, overtaken>>

PutSecret(w) ==
    /\ task[w].at = "put"
    /\ LET s == task[w].slot
           row == task[w].row
           late == \/ \E v \in Mid("reseal") : s \in task[v].read
                   \/ \E v \in Mid("put") \ {w} : task[v].slot = s
       IN  /\ rows' = [rows EXCEPT ![s] = row]
           /\ latest' = [latest EXCEPT ![s] = row.value]
           /\ overtaken' = IF late THEN overtaken \cup {s} ELSE overtaken
           /\ strays' = IF row.key = rotated THEN strays \ {s} ELSE strays \cup {s}
           /\ NoteLateRead({s})
           /\ Do(w, [at |-> "drop", slots |-> {s}])
    /\ UNCHANGED <<cache, procKey, rotated, restarts, writes>>

\* delete_secret
DeleteRow(w, s) ==
    /\ task[w] = Resting /\ Held(s) /\ writes < MaxVaultWrites
    /\ writes' = writes + 1
    /\ rows' = [rows EXCEPT ![s] = NoRow]
    /\ latest' = [latest EXCEPT ![s] = NoValue]
    /\ strays' = strays \ {s}
    /\ NoteLateRead({s})
    /\ Do(w, [at |-> "drop", slots |-> {s}])
    /\ UNCHANGED <<cache, procKey, rotated, restarts, overtaken>>

InvalidateNothing(w) ==
    /\ task[w].at = "drop"
    /\ Do(w, Resting)
    /\ UNCHANGED <<rows, cache, procKey, rotated, restarts, history>>

\* invalidate(slot), or invalidate() after a rotation.
Invalidate(w) ==
    /\ task[w].at = "drop"
    /\ cache' = [s \in Slots |-> IF s \in task[w].slots THEN NoValue ELSE cache[s]]
    /\ Do(w, Resting)
    /\ UNCHANGED <<rows, procKey, rotated, restarts, history>>

-----------------------------------------------------------------------------
(* rotate_key: every row is opened in memory first, and one that does not  *)
(* open ends the rotation before anything is written.                      *)
Openable(read, key) == \A s \in read : rows[s].key = key

RotateRead(w, new) ==
    /\ task[w] = Resting /\ new # procKey
    /\ LET read == {s \in Slots : Held(s)}
       IN  /\ Openable(read, procKey)
           /\ Do(w, [at |-> "reseal", key |-> new, read |-> read,
                     values |-> [s \in read |-> rows[s].value]])
    /\ UNCHANGED <<rows, cache, procKey, rotated, restarts, history>>

ResealedUpsert(s, t) ==
    IF s \in t.read THEN [value |-> t.values[s], key |-> t.key] ELSE rows[s]

ResealedIfSame(s, t) ==
    IF s \in t.read /\ Held(s) /\ rows[s].value = t.values[s]
      THEN [value |-> t.values[s], key |-> t.key] ELSE rows[s]

\* reseal_secrets: UPDATEs in one transaction, so a row deleted meanwhile stays deleted.
Resealed(s, t) ==
    IF s \in t.read /\ Held(s) THEN [value |-> t.values[s], key |-> t.key] ELSE rows[s]

RotateWrite(w) ==
    /\ task[w].at = "reseal"
    /\ rows' = [s \in Slots |-> Resealed(s, task[w])]
    /\ rotated' = task[w].key
    /\ strays' = {s \in Slots \ task[w].read : Held(s)}
    /\ NoteLateRead({s \in task[w].read : rows'[s].value # rows[s].value})
    /\ Do(w, [at |-> "drop", slots |-> Slots])
    /\ UNCHANGED <<cache, procKey, restarts, latest, writes, overtaken>>

\* The process restarts under its VAULT_KEY, or the one the rotation reported.
Restart(key) ==
    /\ restarts < MaxRestarts /\ key \in {procKey, rotated}
    /\ restarts' = restarts + 1
    /\ procKey' = key
    /\ cache' = [s \in Slots |-> NoValue]
    /\ task' = [w \in VaultWorkers |-> Resting]
    /\ UNCHANGED <<rows, rotated, history>>

VaultNext ==
    \/ \E w \in VaultWorkers, s \in Slots :
          GetRead(w, s) \/ SetSeal(w, s) \/ ImportList(w, s) \/ DeleteRow(w, s)
    \/ \E w \in VaultWorkers :
          GetFill(w) \/ PutSecret(w) \/ Invalidate(w) \/ RotateWrite(w)
    \/ \E w \in VaultWorkers, new \in Keys : RotateRead(w, new)
    \/ \E key \in Keys : Restart(key)

VaultSpec == VaultInit /\ [][VaultNext]_vaultVars

-----------------------------------------------------------------------------
VaultTypeOK ==
    /\ DOMAIN rows = Slots /\ DOMAIN cache = Slots /\ DOMAIN task = VaultWorkers
    /\ \A s \in Slots : rows[s].key \in Keys /\ rows[s].value \in EnvValue..MaxVaultWrites
    /\ {procKey, rotated} \subseteq Keys
    /\ lateReads \cup strays \cup overtaken \subseteq Slots

(* resolve.get: once the writer has invalidated, the cache never answers   *)
(* with a value the row no longer holds, unless a get read the row before  *)
(* the write and filled the cache after it.                                *)
CacheIsFresh ==
    \A s \in Slots \ lateReads :
        cache[s] # NoValue /\ ~(\E w \in Mid("drop") : s \in task[w].slots)
            => cache[s] = rows[s].value

(* rotate_key: after a rotation every row is under the one key it reported,*)
(* except the slots written since by a process that still held the old one.*)
SealedUnderOneKey ==
    \A s \in Slots \ strays : Held(s) => rows[s].key = rotated

(* put, delete and reseal: a slot holds what was put there last, and a     *)
(* deleted credential stays deleted, unless the slot was set while a       *)
(* rotation or another write of it was under way.                          *)
LatestValueKept ==
    \A s \in Slots \ overtaken : rows[s].value = latest[s]

(* Cache, rows and key agree, across rotations, restarts and late reads.   *)
VaultIsCoherent == VaultTypeOK /\ CacheIsFresh /\ SealedUnderOneKey /\ LatestValueKept
=============================================================================
