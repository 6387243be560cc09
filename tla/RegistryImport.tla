--------------------------- MODULE RegistryImport ---------------------------
(***************************************************************************)
(* Imports into the asset registry (app/db.py apply_asset_import,          *)
(* upsert_asset, delete_asset and _write_aliases), each one transaction at *)
(* READ COMMITTED over the assets and asset_aliases tables.  A write waits *)
(* for the row another open transaction has written; a read sees what is   *)
(* committed, and the transaction's own writes.                            *)
(*                                                                         *)
(* A file is a sequence of entries [id, declares, aliases], no two of one  *)
(* asset (assets/csvio.py refuses those); an entry that declares no        *)
(* aliases leaves those of its asset alone.                                *)
(***************************************************************************)
EXTENDS Integers, Sequences, FiniteSets

CONSTANTS AssetIds, Aliases, Importers,
          Files,        \* the files an operator may import
          MaxImports

NoOne == "no one"

Entries == {e \in [id : AssetIds, declares : BOOLEAN, aliases : SUBSET Aliases] :
              ~e.declares => e.aliases = {}}

ASSUME ImportAssumption ==
    /\ MaxImports \in Nat /\ NoOne \notin AssetIds
    /\ Files \subseteq Seq(Entries)
    /\ \A f \in Files : \A i, j \in DOMAIN f : f[i].id = f[j].id => i = j

VARIABLES
  assets,     \* committed asset rows
  holder,     \* committed: alias -> the asset it resolves to
  txn,        \* importer -> its open transaction
  imports,
  accepted,   \* asset -> the aliases its last successful import declared
  contested   \* aliases that two open transactions set out to insert

importVars == <<assets, holder, txn, imports, accepted, contested>>

NoTxn == [at |-> "none", todo |-> <<>>, rows |-> {}, gone |-> {}, dropped |-> {},
          put |-> [x \in {} |-> NoOne], wanted |-> {}, alias |-> NoOne,
          declared |-> [a \in {} |-> {}]]
Update(w, rec) == txn' = [txn EXCEPT ![w] = rec]
Entry(w) == Head(txn[w].todo)
Assign(f, x, v) == [y \in DOMAIN f \cup {x} |-> IF y = x THEN v ELSE f[y]]

ImportInit ==
    /\ assets = {} /\ holder = [x \in Aliases |-> NoOne]
    /\ txn = [w \in Importers |-> NoTxn]
    /\ imports = 0
    /\ accepted = [a \in AssetIds |-> {}]
    /\ contested = {}

\* The alias as w's statements see it.
Seen(w, x) == IF x \in DOMAIN txn[w].put THEN txn[w].put[x]
              ELSE IF x \in txn[w].dropped THEN NoOne ELSE holder[x]

\* Aliases and asset rows another open transaction has written.
LockedAlias(w, x) ==
    \E v \in Importers \ {w} : x \in DOMAIN txn[v].put \cup txn[v].dropped
LockedRow(w, a) == \E v \in Importers \ {w} : a \in txn[v].rows

HeldBy(ids) == {x \in Aliases : holder[x] \in ids}

-----------------------------------------------------------------------------
\* `replace` deletes the assets the file does not name, and their aliases with them.
BeginImport(w, file, replace) ==
    /\ txn[w] = NoTxn /\ imports < MaxImports
    /\ LET gone == IF replace /\ file # <<>>
                     THEN assets \ {file[i].id : i \in DOMAIN file} ELSE {}
       IN  /\ \A a \in gone : ~LockedRow(w, a)
           /\ Update(w, [NoTxn EXCEPT !.at = "row", !.todo = file, !.rows = gone,
                                      !.gone = gone, !.dropped = HeldBy(gone)])
    /\ imports' = imports + 1
    /\ UNCHANGED <<assets, holder, accepted, contested>>

\* INSERT ... ON CONFLICT DO UPDATE; declared aliases replace the present ones.
UpsertRow(w) ==
    /\ txn[w].at = "row" /\ txn[w].todo # <<>>
    /\ LET e == Entry(w)
       IN  /\ ~LockedRow(w, e.id)
           /\ Update(w, [txn[w] EXCEPT
                 !.at = "alias",
                 !.rows = @ \cup {e.id},
                 !.wanted = e.aliases,
                 !.dropped = IF e.declares THEN @ \cup HeldBy({e.id}) ELSE @])
    /\ UNCHANGED <<assets, holder, imports, accepted, contested>>

NeverTaken(w, x) == FALSE

\* _write_aliases looks the alias up: somebody else's refuses the whole file.
AliasTaken(w, x) == Seen(w, x) \notin {NoOne, Entry(w).id}

RefuseFile(w) ==
    /\ txn[w].at = "alias"
    /\ \E x \in txn[w].wanted : AliasTaken(w, x)
    /\ Update(w, NoTxn)
    /\ UNCHANGED <<assets, holder, imports, accepted, contested>>

CheckAlias(w) ==
    /\ txn[w].at = "alias"
    /\ \E x \in txn[w].wanted :
          /\ ~AliasTaken(w, x)
          /\ Update(w, [txn[w] EXCEPT !.at = "insert", !.alias = x])
          /\ contested' = IF \E v \in Importers \ {w} :
                                  \/ x \in DOMAIN txn[v].put
                                  \/ txn[v].at = "insert" /\ txn[v].alias = x
                            THEN contested \cup {x} ELSE contested
    /\ UNCHANGED <<assets, holder, imports, accepted>>

(* INSERT ... ON CONFLICT DO NOTHING waits for whoever wrote the alias; if *)
(* that has committed it for another asset, nothing is written or said.    *)
Writable(w, x) == Seen(w, x) = NoOne

InsertAlias(w) ==
    /\ txn[w].at = "insert"
    /\ LET x == txn[w].alias
       IN  /\ ~LockedAlias(w, x)
           /\ Update(w, [txn[w] EXCEPT
                 !.at = "alias", !.wanted = @ \ {x}, !.alias = NoOne,
                 !.put = IF Writable(w, x) THEN Assign(@, x, Entry(w).id) ELSE @])
    /\ UNCHANGED <<assets, holder, imports, accepted, contested>>

NextEntry(w) ==
    /\ txn[w].at = "alias" /\ txn[w].wanted = {}
    /\ Update(w, [txn[w] EXCEPT !.at = "row", !.todo = Tail(@),
                    !.declared = IF Entry(w).declares
                                   THEN Assign(@, Entry(w).id, Entry(w).aliases) ELSE @])
    /\ UNCHANGED <<assets, holder, imports, accepted, contested>>

CommitImport(w) ==
    /\ txn[w].at = "row" /\ txn[w].todo = <<>>
    /\ LET t == txn[w]
       IN  /\ assets' = (assets \ t.gone) \cup (t.rows \ t.gone)
           /\ holder' = [x \in Aliases |-> Seen(w, x)]
           /\ accepted' = [a \in AssetIds |-> IF a \in DOMAIN t.declared THEN t.declared[a]
                                            ELSE IF a \in t.gone THEN {} ELSE accepted[a]]
    /\ Update(w, NoTxn)
    /\ UNCHANGED <<imports, contested>>

\* A deadlock the database breaks, or a lost connection: everything is rolled back.
AbortImport(w) ==
    /\ txn[w] # NoTxn
    /\ Update(w, NoTxn)
    /\ UNCHANGED <<assets, holder, imports, accepted, contested>>

DeleteRowOnly(a) ==
    /\ a \in assets
    /\ \A w \in Importers : a \notin txn[w].rows
    /\ assets' = assets \ {a}
    /\ accepted' = [accepted EXCEPT ![a] = {}]
    /\ UNCHANGED <<holder, txn, imports, contested>>

\* delete_asset; its aliases go with it.
DeleteAsset(a) ==
    /\ a \in assets
    /\ \A w \in Importers : a \notin txn[w].rows
    /\ assets' = assets \ {a}
    /\ holder' = [x \in Aliases |-> IF holder[x] = a THEN NoOne ELSE holder[x]]
    /\ accepted' = [accepted EXCEPT ![a] = {}]
    /\ UNCHANGED <<txn, imports, contested>>

ImportNext ==
    \/ \E w \in Importers, f \in Files, replace \in BOOLEAN : BeginImport(w, f, replace)
    \/ \E w \in Importers :
          \/ UpsertRow(w) \/ RefuseFile(w) \/ CheckAlias(w) \/ InsertAlias(w)
          \/ NextEntry(w) \/ CommitImport(w) \/ AbortImport(w)
    \/ \E a \in AssetIds : DeleteAsset(a)

ImportSpec == ImportInit /\ [][ImportNext]_importVars

-----------------------------------------------------------------------------
ImportTypeOK ==
    /\ assets \subseteq AssetIds
    /\ holder \in [Aliases -> AssetIds \cup {NoOne}]
    /\ imports \in 0..MaxImports

\* An alias belongs to a declared asset: nothing resolves to a row that is gone.
AliasesResolve == \A x \in Aliases : holder[x] \in assets \cup {NoOne}

(* apply_asset_import: what an accepted file declared is what the registry *)
(* resolves, for each of its assets, until the next import of that asset,  *)
(* except an alias that two imports were inserting at the same time.       *)
AcceptedAliasesResolve ==
    \A a \in AssetIds : \A x \in accepted[a] \ contested : holder[x] = a

(* _write_aliases calls a conflict an error and not a last-write-wins, and *)
(* says that it inserts plainly so that the unique violation is reported:  *)
(* then an alias an import was told it has is the asset's, always.         *)
NoAliasIsDropped == \A a \in AssetIds : \A x \in accepted[a] : holder[x] = a

(* The alias table resolves to assets that are there, as the accepted      *)
(* files said.                                                             *)
RegistryResolves == ImportTypeOK /\ AliasesResolve /\ AcceptedAliasesResolve
=============================================================================
