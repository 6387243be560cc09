-------------------------- MODULE MCAdministration --------------------------
(***************************************************************************)
(* The administrator's side of the console on a small instance: accounts,  *)
(* the secrets vault, the indicator feeds, the asset registry's imports,   *)
(* the backfills, the content packs, the data-model registry's caches and  *)
(* what the database keeps of that registry.                               *)
(* They share no state, so a behaviour is about one of them, named by      *)
(* `focus`; the others keep their first state.                             *)
(***************************************************************************)
EXTENDS Accounts, SecretsVault, IndicatorFeeds, HistoryBackfill, RegistryImport, ContentPacks,
        DataModels

VARIABLE focus

SmallFeeds == <<"feed1", "feed2">>

Asset(id, aliases) == [id |-> id, declares |-> TRUE, aliases |-> aliases]
Unaliased(id) == [id |-> id, declares |-> FALSE, aliases |-> {}]

SmallFiles ==
    {<<Asset("db1", {"10.0.0.1"}), Asset("web1", {"10.0.0.2"})>>,
     <<Asset("web1", {"10.0.0.1"})>>,
     <<Unaliased("db1"), Asset("web1", {"10.0.0.1", "10.0.0.2"})>>}

PackRule(x, text, models) == [item |-> x, text |-> text, binds |-> models, sound |-> TRUE]
AddsTo(model, fields) == model :> [clauses |-> {"extra"}, fields |-> fields]
Nothing == [m \in {} |-> {}]
PackDoc(name, entries, cim, ctls) ==
    [name |-> name, version |-> <<1>>, requires |-> <<<<">=", <<1>>>>>>, entries |-> entries,
     cim |-> cim, controls |-> ctls]

\* Two packs with a rule and a field in common, one of them in a second version without them,
\* and a pack bound to a model that a release may lack.
SmallDocs ==
    {PackDoc("A", <<PackRule("r", "a1", {}), PackRule("p", "a1", {})>>, AddsTo("web", <<"f">>), {}),
     PackDoc("A", <<PackRule("p", "a2", {})>>, Nothing, {<<"T", "c", "other">>, <<"T", "d", "mine">>}),
     PackDoc("B", <<PackRule("r", "b1", {})>>, AddsTo("web", <<"f">>), {}),
     [PackDoc("B", <<PackRule("r", "a1", {"dns"})>>, Nothing, {}) EXCEPT !.requires = <<<<"<", <<2>>>>>>]}

ModelOf(names) ==
    [fields |-> {[at |-> 0, seat |-> j, name |-> names[j]] : j \in DOMAIN names}, clauses |-> {"own"}]
SmallReleases == {[m \in {"web", "dns"} |-> ModelOf(<<"u">>)], [m \in {"web"} |-> ModelOf(<<"u", "f">>)]}
ShippedControls == [k \in {<<"T", "c">>} |-> "shipped"]
ThisVersion == <<1, 2>>

Modelled(shapes, cols) == [members |-> shapes, columns |-> cols]
SmallModelFiles ==
    {("auth" :> Modelled({"login"}, "cols") @@ "web" :> Modelled({"proxy"}, "cols")),
     ("auth" :> Modelled({"login", "proxy"}, "bad"))}
SmallPackMembers == "auth" :> {"proxy"}

parts == <<accountVars, vaultVars, feedVars, backfillVars, importVars, packVars, gateVars, cimVars>>

AdminInit ==
    /\ focus \in {"accounts", "vault", "feeds", "backfill", "imports", "packs", "gates", "cim"}
    /\ AccountInit /\ VaultInit /\ FeedInit /\ BackfillInit /\ ImportInit /\ PackInit /\ GateInit /\ CimInit
    /\ focus # "feeds" => \A f \in Feeds : offered[f].list = {}
    /\ focus # "packs" => release = CHOOSE r \in Releases : TRUE
    /\ focus # "gates" => file = CHOOSE v \in Revisions : TRUE
    /\ focus # "cim" => modelsFile = CHOOSE f \in ModelFiles : TRUE

AdminNext ==
    \/ /\ focus = "accounts" /\ AccountNext
       /\ UNCHANGED <<focus, vaultVars, feedVars, backfillVars, importVars, packVars, gateVars, cimVars>>
    \/ /\ focus = "vault" /\ VaultNext
       /\ UNCHANGED <<focus, accountVars, feedVars, backfillVars, importVars, packVars, gateVars, cimVars>>
    \/ /\ focus = "feeds" /\ FeedNext
       /\ UNCHANGED <<focus, accountVars, vaultVars, backfillVars, importVars, packVars, gateVars, cimVars>>
    \/ /\ focus = "backfill" /\ BackfillNext
       /\ UNCHANGED <<focus, accountVars, vaultVars, feedVars, importVars, packVars, gateVars, cimVars>>
    \/ /\ focus = "imports" /\ ImportNext
       /\ UNCHANGED <<focus, accountVars, vaultVars, feedVars, backfillVars, packVars, gateVars, cimVars>>
    \/ /\ focus = "packs" /\ PackNext
       /\ UNCHANGED <<focus, accountVars, vaultVars, feedVars, backfillVars, importVars, gateVars, cimVars>>
    \/ /\ focus = "gates" /\ GateNext
       /\ UNCHANGED <<focus, accountVars, vaultVars, feedVars, backfillVars, importVars, packVars, cimVars>>
    \/ /\ focus = "cim" /\ CimNext
       /\ UNCHANGED <<focus, accountVars, vaultVars, feedVars, backfillVars, importVars, packVars, gateVars>>

AdminSpec == AdminInit /\ [][AdminNext]_<<focus, parts>>
=============================================================================
