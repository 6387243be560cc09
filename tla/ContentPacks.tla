---------------------------- MODULE ContentPacks ----------------------------
(***************************************************************************)
(* app/contentpack.py: a pack is validated, planned against a snapshot of  *)
(* the database and applied in one transaction (db.apply_content_pack);    *)
(* its data models and controls take effect at the next start, when        *)
(* cim/registry.py and compliance.py lay the installed packs over what     *)
(* ships.                                                                  *)
(*                                                                         *)
(* A document is [name, version, requires, entries, cim, controls]: an     *)
(* entry [item, text, binds, sound] is a parser or a rule and the data     *)
(* models it binds, cim maps a model to what the pack adds to it, a         *)
(* [clauses, fields], a control is <<topic, id, name>>.  A model's fields  *)
(* are records [at, seat, name], in the order of <<at, seat>>: `at' is 0   *)
(* for a field that ships and the installation's time for a pack's.  Who   *)
(* wrote an item last is a history variable.                               *)
(***************************************************************************)
EXTENDS Integers, Sequences, SequencesExt

CONSTANTS Items, PackDocs,
          Releases,      \* what may ship: model -> [fields, clauses]
          BaseControls,  \* [topic, id] -> name
          PackRequests,  \* the console's requests that may overlap
          AppVersion, ByHand, NoPlan,
          MaxPackWrites

\* cim/registry.py refuses a models.yaml with two fields of one name in a model.
ASSUME PackAssumption ==
    /\ MaxPackWrites \in Nat
    /\ \A models \in Releases : \A m \in DOMAIN models : \A f, g \in models[m].fields :
          f.at = 0 /\ (f.name = g.name => f = g)

VARIABLES objects,       \* item -> text: custom_parsers and custom_rules
          installs,      \* content_packs: name -> [doc, at], `at' being installed_at
          release, compiled, controls,   \* models.yaml, the registry, compliance.MAP
          planned,       \* request -> the plan it made
          writer,        \* item -> the pack or ByHand that last had it written
          stale,         \* a plan was applied that another write had overtaken
          blind,         \* a plan was made beside a row that no longer parses
          packWrites

packVars == <<objects, installs, release, compiled, controls, planned, writer, stale, blind, packWrites>>

-----------------------------------------------------------------------------
(* Versions: numbers padded with zeros to one length.                      *)
Component(v, i) == IF i \in DOMAIN v THEN v[i] ELSE 0

VersionCmp(a, b) ==
    LET differ == {i \in DOMAIN a \cup DOMAIN b : Component(a, i) # Component(b, i)}
        first == CHOOSE i \in differ : \A j \in differ : i <= j
    IN  IF differ = {} THEN 0 ELSE IF Component(a, first) < Component(b, first) THEN -1 ELSE 1

\* satisfies: every part of the constraint, a pair <<operator, version>>.
Satisfies(actual, constraint) ==
    \A part \in ToSet(constraint) :
        LET c == VersionCmp(actual, part[2])
        IN  CASE part[1] = ">=" -> c >= 0
              [] part[1] = ">" -> c > 0
              [] part[1] = "<=" -> c <= 0
              [] part[1] = "<" -> c < 0
              [] part[1] = "==" -> c = 0

-----------------------------------------------------------------------------
(* pack_from_dict: what a document must be, known models being a set that  *)
(* is empty when the registry could not be read.                           *)
EntryAccepted(e, known) == e.sound /\ (known # {} => e.binds \subseteq known)
CimAccepted(m, c, known) == (known # {} => m \in known) /\ (c.clauses # {} \/ c.fields # <<>>)

DocAccepted(doc, known) ==
    /\ \A i \in DOMAIN doc.entries : EntryAccepted(doc.entries[i], known)
    /\ \A i, j \in DOMAIN doc.entries : doc.entries[i].item = doc.entries[j].item => i = j
    /\ \A m \in DOMAIN doc.cim : CimAccepted(m, doc.cim[m], known)
    /\ doc.entries # <<>> \/ DOMAIN doc.cim # {} \/ doc.controls # {}

ItemsOf(doc) == {doc.entries[i].item : i \in DOMAIN doc.entries}
TextIn(doc, x) == doc.entries[CHOOSE i \in DOMAIN doc.entries : doc.entries[i].item = x].text

-----------------------------------------------------------------------------
(* snapshot: the rows that still parse, and who owns each item by them.    *)
Installed(known) == [n \in {m \in DOMAIN installs : DocAccepted(installs[m].doc, known)} |-> installs[n]]
Known == DOMAIN compiled

\* The packs are read in the order of installed_at: the last to list an item owns it.
OwnerAmong(packs, x) ==
    LET listing == {n \in DOMAIN packs : x \in ItemsOf(packs[n].doc)}
    IN  IF listing = {} THEN ByHand ELSE CHOOSE n \in listing : \A m \in listing : packs[m].at <= packs[n].at

Conflict(x, doc, overwrite, packs) ==
    x \in DOMAIN objects /\ OwnerAmong(packs, x) # doc.name /\ ~overwrite

\* A release that drops an item leaves it behind.
DroppedKept(doc, packs) == {}

\* What the installed version carries and this one does not.
Dropped(doc, packs) ==
    IF doc.name \in DOMAIN packs THEN ItemsOf(packs[doc.name].doc) \ ItemsOf(doc) ELSE {}

\* plan_install; an item whose text is already there is unchanged and not written.
InstallPlan(doc, overwrite) ==
    LET packs == Installed(Known)
    IN  [doc |-> doc, removes |-> FALSE, wide |-> overwrite,
         refused |-> ~Satisfies(AppVersion, doc.requires) \/ \E x \in ItemsOf(doc) : Conflict(x, doc, overwrite, packs),
         puts |-> {x \in ItemsOf(doc) : x \in DOMAIN objects => objects[x] # TextIn(doc, x)},
         drops |-> Dropped(doc, packs), at |-> packWrites]

\* Everything the pack lists, whoever has taken it over.
UninstallAll(doc, packs) == ItemsOf(doc)
UninstallDrops(doc, packs) == {x \in ItemsOf(doc) : OwnerAmong(packs, x) \in {ByHand, doc.name}}

UninstallPlan(doc) ==
    [doc |-> doc, removes |-> TRUE, wide |-> FALSE, refused |-> FALSE, puts |-> {},
     drops |-> UninstallDrops(doc, Installed(Known)), at |-> packWrites]

-----------------------------------------------------------------------------
(* The overlay of the installed packs over what ships.                     *)
\* What a pack installed at `at' adds to model m.
FieldsOf(pack, m) ==
    {[at |-> pack.at, seat |-> j, name |-> pack.doc.cim[m].fields[j]] : j \in DOMAIN pack.doc.cim[m].fields}

\* merge_cim: every pack's clauses and fields appended to the model they extend.
MergedCim(models, packs) ==
    [m \in DOMAIN models |->
       LET adding == {n \in DOMAIN packs : m \in DOMAIN packs[n].doc.cim}
       IN  [clauses |-> models[m].clauses \cup UNION {packs[n].doc.cim[m].clauses : n \in adding},
            fields |-> models[m].fields \cup UNION {FieldsOf(packs[n], m) : n \in adding}]]

\* A field a model already has is added a second time.
AddsFieldsAgain(model) == TRUE

AddsNewFields(model) == \A f, g \in model.fields : f.name = g.name => f = g

\* overlay_registry: the packs are parsed against the models that ship, which stay
\* as they are when merge_cim raises.
OverlayOf(models) ==
    LET packs == Installed(DOMAIN models)
        merged == MergedCim(models, packs)
        raises == \/ \E n \in DOMAIN packs : ~(DOMAIN packs[n].doc.cim \subseteq DOMAIN models)
                  \/ \E m \in DOMAIN models : ~AddsNewFields(merged[m])
    IN  IF raises THEN models ELSE merged

\* merge_compliance: an id the topic already has keeps its name.
ControlsWith(additions) ==
    LET Key(c) == <<c[1], c[2]>>
        new == {c \in additions : Key(c) \notin DOMAIN BaseControls}
    IN  [k \in DOMAIN BaseControls \cup {Key(c) : c \in new} |->
           IF k \in DOMAIN BaseControls THEN BaseControls[k] ELSE (CHOOSE c \in new : Key(c) = k)[3]]

-----------------------------------------------------------------------------
PackInit ==
    /\ objects = [x \in {} |-> ByHand] /\ writer = objects /\ installs = objects
    /\ release \in Releases /\ compiled = release /\ controls = BaseControls
    /\ planned = [r \in PackRequests |-> NoPlan]
    /\ stale = FALSE /\ blind = FALSE /\ packWrites = 0

Sees == blind' = (blind \/ DOMAIN Installed(Known) # DOMAIN installs)

\* install up to its plan: parse, then the snapshot.
PlanImport(r) ==
    \E doc \in PackDocs, overwrite \in BOOLEAN :
        /\ planned[r] = NoPlan /\ DocAccepted(doc, Known)
        /\ planned' = [planned EXCEPT ![r] = InstallPlan(doc, overwrite)]
        /\ Sees
        /\ UNCHANGED <<objects, installs, release, compiled, controls, writer, stale, packWrites>>

PlanUninstall(r) ==
    \E n \in DOMAIN Installed(Known) :
        /\ planned[r] = NoPlan
        /\ planned' = [planned EXCEPT ![r] = UninstallPlan(installs[n].doc)]
        /\ Sees
        /\ UNCHANGED <<objects, installs, release, compiled, controls, writer, stale, packWrites>>

\* apply_plan raises on a problem or a conflict.
RefusePlan(r) ==
    /\ planned[r] # NoPlan /\ planned[r].refused
    /\ planned' = [planned EXCEPT ![r] = NoPlan]
    /\ UNCHANGED <<objects, installs, release, compiled, controls, writer, stale, blind, packWrites>>

Rows(p, at) ==
    [n \in DOMAIN installs \cup {p.doc.name} |->
       IF n = p.doc.name THEN [doc |-> p.doc, at |-> at] ELSE installs[n]]

\* The row keeps the time it was first installed at.
RowsInPlace(p) ==
    Rows(p, IF p.doc.name \in DOMAIN installs THEN installs[p.doc.name].at ELSE packWrites + 1)

\* ON CONFLICT (name): installed_at is now.
RowsWith(p) == Rows(p, packWrites + 1)
RowsWithout(p) == [n \in DOMAIN installs \ {p.doc.name} |-> installs[n]]

\* db.apply_content_pack: one transaction.
ApplyPlan(r) ==
    LET p == planned[r]
    IN  /\ p # NoPlan /\ ~p.refused /\ packWrites < MaxPackWrites
        /\ objects' = [x \in (DOMAIN objects \cup p.puts) \ p.drops |->
                         IF x \in p.puts THEN TextIn(p.doc, x) ELSE objects[x]]
        /\ installs' = IF p.removes THEN RowsWithout(p) ELSE RowsWith(p)
        /\ writer' = [x \in DOMAIN objects' |->
                        IF ~p.removes /\ x \in ItemsOf(p.doc) THEN p.doc.name ELSE writer[x]]
        /\ stale' = (stale \/ p.at # packWrites)
        /\ planned' = [planned EXCEPT ![r] = NoPlan]
        /\ packWrites' = packWrites + 1
        /\ UNCHANGED <<release, compiled, controls, blind>>

\* The console's own forms: an analyst writes a parser or a rule, a pack's included.
WriteByHand ==
    \E x \in Items :
        /\ packWrites < MaxPackWrites
        /\ objects' = [y \in DOMAIN objects \cup {x} |-> IF y = x THEN ByHand ELSE objects[y]]
        /\ writer' = [y \in DOMAIN objects' |-> IF y = x THEN ByHand ELSE writer[y]]
        /\ packWrites' = packWrites + 1
        /\ UNCHANGED <<installs, release, compiled, controls, planned, stale, blind>>

DeleteByHand ==
    \E x \in DOMAIN objects :
        /\ packWrites < MaxPackWrites
        /\ objects' = [y \in DOMAIN objects \ {x} |-> objects[y]]
        /\ writer' = [y \in DOMAIN objects' |-> writer[y]]
        /\ packWrites' = packWrites + 1
        /\ UNCHANGED <<installs, release, compiled, controls, planned, stale, blind>>

\* main.lifespan, of this release or another one: the registry and the map are
\* laid out again from what is installed; the requests of before are gone.
StartUp ==
    /\ release' \in Releases
    /\ compiled' = OverlayOf(release')
    /\ LET packs == Installed(DOMAIN compiled')
       IN  controls' = ControlsWith(UNION {packs[n].doc.controls : n \in DOMAIN packs})
    /\ planned' = [r \in PackRequests |-> NoPlan]
    /\ UNCHANGED <<objects, installs, writer, stale, blind, packWrites>>

PackNext ==
    \/ \E r \in PackRequests : PlanImport(r) \/ PlanUninstall(r) \/ RefusePlan(r) \/ ApplyPlan(r)
    \/ WriteByHand \/ DeleteByHand \/ StartUp

PackSpec == PackInit /\ [][PackNext]_packVars

-----------------------------------------------------------------------------
Sound == ~stale /\ ~blind

(* While plans are applied to the database they were made from, nothing a    *)
(* pack installed outlives it: every item is an analyst's or is listed by an *)
(* installed pack, upgrades and takeovers included (contentpack.py,          *)
(* plan_install).                                                            *)
NothingIsOrphaned ==
    Sound => \A x \in DOMAIN objects : writer[x] = ByHand \/ \E n \in DOMAIN installs : x \in ItemsOf(installs[n].doc)

(* The owner of an item, which is read off the installed documents and       *)
(* stored nowhere, is the pack that had it written last, but for what an     *)
(* analyst has written since (contentpack.py, snapshot).                     *)
OwnerWroteIt == Sound => \A x \in DOMAIN objects : writer[x] \in {ByHand, OwnerAmong(installs, x)}

(* An uninstall removes nothing another pack wrote, so long as its plan is   *)
(* not overtaken (contentpack.py, plan_uninstall).                           *)
UninstallSparesOthers ==
    [][\A r \in PackRequests :
        Sound /\ ApplyPlan(r) /\ planned[r].removes /\ ~stale' =>
            \A x \in DOMAIN objects : writer[x] \notin {ByHand, planned[r].doc.name} => x \in DOMAIN objects']_packVars

(* Packs only add: a model keeps its clauses and its fields in their order,  *)
(* no two fields of a model share a name, and a control keeps its name       *)
(* (contentpack.py, merge_cim and merge_compliance).                         *)
OverlayOnlyAdds ==
    /\ DOMAIN compiled = DOMAIN release
    /\ \A m \in DOMAIN release :
          /\ release[m].clauses \subseteq compiled[m].clauses
          /\ release[m].fields = {f \in compiled[m].fields : f.at = 0}
          /\ \A f, g \in compiled[m].fields : f.name = g.name => f = g
    /\ \A k \in DOMAIN BaseControls : controls[k] = BaseControls[k]

(* An install without overwrite leaves alone what another pack owns          *)
(* (contentpack.py, plan_install).                                           *)
ImportSparesOthers ==
    [][\A r \in PackRequests :
        Sound /\ ApplyPlan(r) /\ ~planned[r].removes /\ ~planned[r].wide /\ ~stale' =>
            \A x \in DOMAIN objects :
                writer[x] \notin {ByHand, planned[r].doc.name} =>
                    x \in DOMAIN objects' /\ objects'[x] = objects[x]]_packVars

(* The items, their owners and the merged registries agree with the packs  *)
(* that are installed.                                                     *)
PacksAreAccounted == NothingIsOrphaned /\ OwnerWroteIt /\ OverlayOnlyAdds
=============================================================================
