---------------------------- MODULE MCReference ----------------------------
(***************************************************************************)
(* The algorithms without a state of their own, each over every input of a *)
(* small universe: one state holds one topic and one input.  The stages of *)
(* a query (Loql) are the one topic with steps.                            *)
(***************************************************************************)
EXTENDS Matching, EventLookups, Loql, WireFormats

VARIABLES topic, input
referenceVars == <<topic, input>>

MCEmpty == [x \in {} |-> x]
MCNetworkOf(v) == IF v = "wide" THEN 1..4 ELSE {2}

-----------------------------------------------------------------------------
(* Conditions: every tree of two levels over three selections.             *)
Leaves == {<<"sel", "a">>, <<"sel", "b">>, <<"of", "1", {"a", "b"}>>, <<"of", "all", {"a", "b"}>>}
Over(ts) == {<<"not", t>> : t \in ts} \cup {<<op, l, r>> : op \in {"and", "or"}, l \in ts, r \in ts}
Conditions == Leaves \cup Over(Leaves) \cup {<<op, l, r>> : op \in {"and", "or"}, l \in Over({<<"sel", "a">>, <<"sel", "b">>}),
                                                          r \in {<<"sel", "c">>, <<"not", <<"sel", "c">>>>}}
                 \cup {<<op, l, r>> : op \in {"and", "or"}, r \in Over({<<"sel", "a">>, <<"sel", "b">>}),
                                     l \in {<<"sel", "c">>, <<"not", <<"sel", "c">>>>}}

RECURSIVE Written(_, _), Means(_, _)
Written(t, least) ==
    LET s == CASE t[1] = "or" -> 1 [] t[1] = "and" -> 2 [] OTHER -> 3
        body == CASE t[1] = "sel" -> <<<<"word", t[2]>>>>
                  [] t[1] = "of" -> <<<<"word", t[2]>>, <<"word", "of">>, <<"prefix", t[3]>>>>
                  [] t[1] = "not" -> <<<<"word", "not">>>> \o Written(t[2], 3)
                  [] OTHER -> Written(t[2], s) \o <<<<"word", t[1]>>>> \o Written(t[3], s + 1)
    IN  IF s < least THEN <<<<"word", "(">>>> \o body \o <<<<"word", ")">>>> ELSE body

Means(t, sel) ==
    CASE t[1] = "sel" -> sel[t[2]]
      [] t[1] = "of" -> IF t[2] = "all" THEN \A n \in t[3] : sel[n] ELSE \E n \in t[3] : sel[n]
      [] t[1] = "not" -> ~Means(t[2], sel)
      [] t[1] = "and" -> Means(t[2], sel) /\ Means(t[3], sel)
      [] t[1] = "or" -> Means(t[2], sel) \/ Means(t[3], sel)

(* A condition is true when what it says is: and binds tighter than or, not  *)
(* tighter than both, and a quantifier counts its names (engine.py, _Cond).  *)
ConditionMeansItsTree ==
    topic = "condition" =>
        \A sel \in [{"a", "b", "c"} -> BOOLEAN] : EvalCondition(Written(input, 1), sel) = Means(input, sel)

-----------------------------------------------------------------------------
(* Data models: one model, and two whose names may clash.                  *)
MCStripped == [w \in {" x"} |-> "x"]
Terms2 == {[kind |-> "raw", name |-> "", paths |-> p, values |-> {"x"}] : p \in {<<"k">>, <<"k", "l">>, <<"o", "k">>}}
          \cup {[kind |-> "column", name |-> "vendor", paths |-> <<>>, values |-> {"x", "y"}]}
Model1(name, tag, clauses) ==
    [name |-> name, tag |-> tag, clauses |-> clauses, fields |-> <<[name |-> "user", kind |-> "column"], [name |-> "vendor", kind |-> "raw"]>>]
ClauseSets == {<<<<t>>>> : t \in Terms2} \cup {<<<<t, u>>>> : t, u \in Terms2} \cup {<<<<t>>, <<u>>>> : t, u \in Terms2}
Rows == [cols : [{"vendor"} -> {Nothing, <<"x">>, <<"y">>}],
         raw : UNION {[keys -> {<<"x">>, <<"z">>}] : keys \in SUBSET {"k", "l"}}]

(* A row is tagged at ingest exactly with the models whose view shows it and *)
(* a query over it finds: match.py and sql.py answer alike over columns and  *)
(* scalars of raw.                                                           *)
ViewsShowWhatIsTagged ==
    topic = "membership" => \A row \in Rows : TagsFor(<<input>>, row) = SqlTags(<<input>>, row)

Registries == {<<Model1(n, t, <<<<[kind |-> "column", name |-> "vendor", paths |-> <<>>, values |-> {"x"}]>>>>),
                 [Model1(o, u, <<<<[kind |-> "column", name |-> "vendor", paths |-> <<>>, values |-> {"y"}]>>>>)
                    EXCEPT !.fields = IF u = "f" THEN <<>> ELSE @]>> :
                  n, t, o, u \in {"a", "b", "c", "d", "f"}}

(* In a registry that loads, each name and each tag finds its own model, so  *)
(* a rule bound by either is gated on what its author meant.                 *)
NamesFindTheirModel ==
    topic = "registry" /\ Loadable(input) =>
        \A i \in DOMAIN input : \A key \in KeysOf(input[i]) :
            /\ ByName(input, key) = <<input[i]>>
            /\ GateTags(input, {key}) = {input[i].tag}

(* A view has no two columns of one name.                                    *)
ViewColumnsDiffer ==
    topic = "registry" /\ Loadable(input) =>
        \A i \in DOMAIN input : LET c == ViewColumns(input[i]) IN Len(c) = Cardinality(ToSet(c))

-----------------------------------------------------------------------------
(* Three ranges over eight addresses, in any order, overlapping or not.    *)
Ranges == {[lo |-> lo, hi |-> hi, fam |-> <<4, 4>>, payload |-> p] : lo \in {1, 2, 4}, hi \in {2, 5, 6}, p \in {"A", "B"}}
          \cup {[lo |-> 3, hi |-> 3, fam |-> <<4, 4>>, payload |-> "C"], [lo |-> 3, hi |-> 4, fam |-> <<4, 6>>, payload |-> "A"],
                [lo |-> 6, hi |-> 7, fam |-> <<4, 4>>, payload |-> "none"]}
Tables == [1..3 -> Ranges]

(* An address is given what the narrowest range that holds it says, however  *)
(* the ranges of the file overlap (csvdb.py, _flatten).                      *)
LookupIsNarrowest ==
    topic = "ranges" => \A x \in 0..8 : TableLookup(input, 4, x) = NarrowestRow(input, 4, x)

-----------------------------------------------------------------------------
(* Search trees of two nodes, addresses of four bits, IPv4 ones of two.    *)
Trees == [1..2 -> (0..4) \X (0..4)]
MCPrefix == <<1, 0>>
Bits(n) == [1..n -> {0, 1}]

(* An IPv4 address is the IPv6 address with as many zeros before it, in      *)
(* every tree, however early the tree ends (mmdb.py, _find_ipv4_start).      *)
Ipv4IsItsZeroForm ==
    topic = "tree" => \A b \in Bits(V4Bits) :
        TreeLookup(input, 6, b, 2) = TreeLookup(input, 6, Zeros(V6Bits - V4Bits) \o b, 2)

(* A mapped address finds what its IPv4 form finds, unless the tree has an   *)
(* answer of its own for it.                                                 *)
MappedFallsBack ==
    topic = "tree" => \A b \in Bits(V4Bits) :
        LET own == TreeLookup(input, 6, MCPrefix \o b, 2)
        IN  GetRecord(input, 6, MCPrefix \o b, 2) = IF own = Absent THEN GetRecord(input, 6, b, 2) ELSE own

(* Both records of a 28-bit node are read back as they were written.         *)
NodesUnpack ==
    topic = "node" => /\ Node28(Packed28(input[1], input[2]), 0) = input[1]
                      /\ Node28(Packed28(input[1], input[2]), 1) = input[2]

Nodes == {0, 1, 15, 16, 255, 256, 4095, 4096, 8191, 12288, 16383}
Sections == [1..4 -> {[type |-> "scalar", size |-> 0, to |-> 0]}
                     \cup {[type |-> "pointer", size |-> 0, to |-> t] : t \in 1..4}
                     \cup {[type |-> "array", size |-> n, to |-> 0] : n \in 1..3}]

(* A record is decoded or refused within the budget of fields, whatever its  *)
(* pointers share (mmdb.py, _decode): a small file cannot take long.         *)
WorkIsBounded ==
    topic = "section" => \A off \in 1..4 : Decode(input, off, 0, FALSE, 0).fields <= MaxFields + 1

-----------------------------------------------------------------------------
(* Registries of two assets and one identity.                              *)
Address(n, mapped) == [n |-> n, mapped |-> mapped]
Record2(enabled, level) == [enabled |-> enabled, level |-> level, labels |-> {"pci"}]
AliasMaps == UNION {[keys -> {"a", "b"}] : keys \in SUBSET {<<"ip", 2>>, <<"cidr", "wide">>, <<"hostname", "web">>}}
RegistryOf(x, y, alias, person) ==
    [assets |-> [a \in {"a", "b"} |-> Record2(a = "a" => x, "high")], people |-> [i \in {"p"} |-> Record2(y, "vip")],
     assetAlias |-> alias, personAlias |-> [k \in {person} |-> "p"]]
AssetRegistries == {RegistryOf(x, y, m, <<"sam", u>>) : x, y \in BOOLEAN, m \in AliasMaps, u \in {"jd", "corp"}}
Hosts == {Missing} \cup {[short |-> "web", domain |-> d, ip |-> Missing] : d \in {"", "corp"}}
         \cup {[short |-> "", domain |-> "", ip |-> Address(2, FALSE)]}
Users == {Missing, [kind |-> "down_level", full |-> "corp", bare |-> "jd"], [kind |-> "bare", full |-> "jd", bare |-> "jd"]}
Seen2 == [host : Hosts, src : {Missing, Address(2, TRUE), Address(3, FALSE)}, dst : {Missing, Address(2, FALSE)}, user : Users]
OfEnabled(f, records) == [k \in {x \in DOMAIN f : records[f[x]].enabled} |-> f[k]]
Without(reg) ==
    [assets |-> [a \in {x \in DOMAIN reg.assets : reg.assets[x].enabled} |-> reg.assets[a]],
     people |-> [i \in {x \in DOMAIN reg.people : reg.people[x].enabled} |-> reg.people[i]],
     assetAlias |-> OfEnabled(reg.assetAlias, reg.assets), personAlias |-> OfEnabled(reg.personAlias, reg.people)]

(* A disabled record is as if it were not there: its aliases resolve to      *)
(* nothing and never hide a wider network or the bare host name.             *)
DisabledIsAbsent ==
    topic = "assets" =>
        \A evt \in Seen2 : Resolve(evt, IndexOf(input)) = Resolve(evt, IndexOf(Without(input)))

\* What a second registry differs in.
Changed(reg) ==
    {reg, [reg EXCEPT !.people["p"].level = "low"], [reg EXCEPT !.assets["a"].labels = {}],
     [reg EXCEPT !.assets["a"].enabled = ~@], [reg EXCEPT !.personAlias = MCEmpty],
     [reg EXCEPT !.assetAlias = [k \in DOMAIN @ |-> "b"]]}

(* Two registries with one fingerprint store the same context, so rows need  *)
(* not be derived again (db.py, asset_status).                               *)
FingerprintCoversContext ==
    topic = "assets" =>
        \A other \in Changed(input) :
            Fingerprint(IndexOf(input)) = Fingerprint(IndexOf(other)) =>
                \A evt \in Seen2 : Resolve(evt, IndexOf(input)) = Resolve(evt, IndexOf(other))

GeoAnswers == [country : {Missing, "IN", "DE"}, asn : {Missing, "AS1", "AS2"}]
GeoSources == UNION {[d -> GeoAnswers] : d \in {{}, {2}}} \cup {Unreadable}
ScopeLabel(n) == IF n = 2 THEN "private" ELSE "public"

(* A source that cannot be read takes nothing from the others, and a source  *)
(* fills only what those before it left open (geo.py, the layered lookup).   *)
BrokenSourceIsSkipped ==
    topic = "geo" =>
        LET sound == SelectSeq(input, LAMBDA s : s # Unreadable)
            whole == GeoLookup(input, 2)
            first == GeoLookup(SubSeq(input, 1, 1), 2)
        IN  /\ whole = GeoLookup(sound, 2)
            /\ first.country # Missing => whole.country = first.country
            /\ GeoResolve([src |-> Address(2, TRUE), dst |-> Missing], input, ScopeLabel).labels = {<<"src", "private">>}

-----------------------------------------------------------------------------
(* Query text.                                                             *)
Words1 == {<<"field", "f">>, <<"lit", "v">>}
Values1 == Words1 \cup {<<"+", l, r>> : l, r \in Words1} \cup {<<"*", l, r>> : l, r \in Words1} \cup {<<"neg", w>> : w \in Words1}
Sums == Values1 \cup {<<op, l, r>> : op \in {"+", "-", "*"}, l \in Values1, r \in Words1}
             \cup {<<op, l, r>> : op \in {"+", "-", "*"}, l \in Words1, r \in Values1} \cup {<<"call", "len", <<v>>>> : v \in Values1}
Tests == {<<op, l, r>> : op \in {"=", "<", "like"}, l \in Words1, r \in Sums} \cup {<<"in", w, <<v, <<"lit", "v">>>>>> : w \in Words1, v \in Values1}
Few == {<<"=", <<"field", "f">>, <<"lit", "v">>>>, <<"call", "len", <<<<"field", "f">>>>>>}
Clauses == {<<op, l, r>> : op \in {"and", "or"}, l, r \in Few} \cup {<<"not", t>> : t \in Few}
QueryTrees == Sums \cup Tests \cup Clauses \cup {<<op, l, r>> : op \in {"and", "or"}, l, r \in Clauses \cup Few} \cup {<<"not", t>> : t \in Clauses}
MCArity == [f \in {"len", "coalesce"} |-> IF f = "len" THEN "1" ELSE "any"]

(* An expression parses to the tree it was written from, with and without    *)
(* the `and`s that may be left out (parser.py, _and).                        *)
ParsedAsWritten ==
    topic = "query" =>
        LET toks == Shown(input, 1)
            whole == ParseExpr(toks, FALSE)
            short == ParseExpr(WithoutAnd(toks), FALSE)
        IN  whole.ok /\ whole.tree = input /\ short.ok /\ short.tree = input

Group(n, body) == [i \in 1..n |-> Tok("LP", "(")] \o body \o [i \in 1..n |-> Tok("RP", ")")]
Atom1 == <<Tok("ID", "f")>>

(* Only nesting counts against the cap: any number of groups may follow one  *)
(* another, and no expression deeper than the cap gets through.              *)
OnlyNestingCounts ==
    topic = "nesting" =>
        /\ ParseExpr(FlattenSeq([k \in 1..input |-> Group(1, Atom1) \o <<Tok("KW", "and")>>]) \o Atom1, FALSE).ok
        /\ ParseExpr(Group(input, Atom1), FALSE).ok = (input < MaxNesting)
        /\ ParseExpr([k \in 1..input |-> Tok("KW", "not")] \o Atom1, FALSE).ok = (input < MaxNesting)

Pipelines == [prefix : {"", "web"}, predicate : {"", "word"},
              commands : UNION {[1..n -> {<<"datamodel", "web">>, <<"where", "x">>}] : n \in 0..3}]

(* A data model is the source of a query or the query is refused: it never   *)
(* replaces a search's terms, a stage or another model.                      *)
ModelIsTheSource ==
    topic = "pipeline" =>
        LET q == ParseQuery(input.prefix, input.predicate, input.commands)
            asked == SelectSeq(input.commands, LAMBDA c : c[1] = "datamodel")
        IN  q.ok => /\ q.stages[1].predicate = input.predicate
                    /\ Len(asked) <= 1 /\ (asked # <<>> => input.commands[1] = asked[1] /\ input.prefix = "")
                    /\ (q.stages[1].model # "") = (asked # <<>> \/ input.prefix # "")

-----------------------------------------------------------------------------
(* Flow packets: up to two records of two fields, sets of two templates, a *)
(* stream of two messages and a tail cut anywhere, and an exporter's clock.*)
FlowField(ie, length) == [ie |-> ie, length |-> length]
FlowLayouts == {<<FlowField(1, 2)>>, <<FlowField(1, Varying)>>, <<FlowField(1, 1), FlowField(2, Varying)>>,
                <<FlowField(1, Varying), FlowField(2, Varying)>>, <<FlowField(1, Varying), FlowField(2, 2)>>}
BytesOf(n) == [i \in 1..n |-> (i + n) % 2]
LengthsOf(f) == IF f.length = Varying THEN 0..5 ELSE {f.length}
FlowSets ==
    UNION {{[fields |-> l, records |-> r, pad |-> p] :
              r \in UNION {[1..n -> {v \in [DOMAIN l -> 0..5] : \A i \in DOMAIN l : v[i] \in LengthsOf(l[i])}] : n \in 1..2},
              p \in 0..LeastLen(l) - 1} : l \in FlowLayouts}

RecordBytes(fields, lengths) ==
    FlattenSeq([i \in DOMAIN fields |-> FieldBytes(fields[i], BytesOf(lengths[i]))])
RecordValues(fields, lengths) ==
    SelectSeq([i \in DOMAIN fields |-> <<fields[i].ie, BytesOf(lengths[i])>>], LAMBDA v : v[2] # <<>>)

(* A data set is read back as its records, long values and padding included, *)
(* and nothing is made of the padding (netflow.py, _read_record).            *)
RecordsReadBack ==
    topic = "flowset" =>
        LET body == FlattenSeq([i \in DOMAIN input.records |-> RecordBytes(input.fields, input.records[i])])
        IN  DecodeDataSet(body \o [i \in 1..input.pad |-> 0], input.fields, 9) =
                [i \in DOMAIN input.records |-> RecordValues(input.fields, input.records[i])]

TaughtFields == {<<FlowField(1, 2)>>, <<FlowField(1, 3), FlowField(2, 11)>>, <<FlowField(1, 0)>>,
                 <<FlowField(1, Varying), FlowField(Enterprise + 2, 1)>>}
Taught == (UNION {[1..n -> TaughtFields] : n \in 1..3}) \X BOOLEAN \X {0, 1}
SpecWords(f, ipfix) == IF ipfix /\ f.ie >= Enterprise THEN <<f.ie, f.length, 0, 7>> ELSE <<f.ie, f.length>>
TemplateWords(id, fields, ipfix) ==
    <<id, Len(fields)>> \o FlattenSeq([i \in DOMAIN fields |-> SpecWords(fields[i], ipfix)])
PlainIe(f, ipfix) == [f EXCEPT !.ie = IF ipfix /\ @ >= Enterprise THEN @ - Enterprise ELSE @]

(* Every usable template of a set is learned, in spite of those before it    *)
(* that are too long or empty, and one cut short is not                      *)
(* (netflow.py, _learn_templates).                                           *)
TemplatesReadBack ==
    topic = "teaching" =>
        LET defs == input[1] ipfix == input[2]
            words == FlattenSeq([i \in DOMAIN defs |-> TemplateWords(FirstDataId + i, defs[i], ipfix)])
            kept == Len(defs) - input[3]
            usable == SelectSeq([i \in 1..kept |-> i], LAMBDA i : RecordLen(defs[i]) \in {-1} \cup 1..MaxTemplateLen)
        IN  LearnedFrom(SubSeq(words, 1, Len(words) - input[3]), ipfix, FALSE).templates =
                [i \in DOMAIN usable |-> <<FirstDataId + usable[i], [j \in DOMAIN defs[usable[i]] |-> PlainIe(defs[usable[i]][j], ipfix)]>>]

(* An options template is never taken for one shorter or longer than its     *)
(* scopes and option counts say, in either protocol's way of counting.        *)
OptionsReadBack ==
    topic = "teaching" =>
        \A scopes \in 1..Len(input[1]) :
            LET fields == [i \in DOMAIN input[1] |-> input[1][i][1]] ipfix == input[2] n == Len(fields)
                counts == IF ipfix THEN <<n, scopes>> ELSE <<4 * scopes, 4 * (n - scopes)>>
                words == <<FirstDataId>> \o counts \o FlattenSeq([i \in 1..n |-> SpecWords(fields[i], ipfix)])
            IN  LearnedFrom(words \o <<0, 0, 0>>, ipfix, TRUE).templates = <<<<FirstDataId, [i \in 1..n |-> PlainIe(fields[i], ipfix)]>>>>

StreamMessages == {<<IpfixVersion, HeaderSize + n>> \o [i \in 1..n |-> IpfixVersion] : n \in 0..2}
Streams == (UNION {[1..n -> StreamMessages] : n \in 1..2}) \X {<<>>, <<IpfixVersion>>, <<IpfixVersion, HeaderSize + 1>>} \X SUBSET (1..7)
Chunks(s, cuts) ==
    LET ends == SelectSeq([i \in 1..Len(s) |-> i], LAMBDA c : c \in cuts \/ c = Len(s))
    IN  [i \in DOMAIN ends |-> SubSeq(s, IF i = 1 THEN 1 ELSE ends[i - 1] + 1, ends[i])]

(* However TCP cuts a stream, the messages are those that were sent, and the *)
(* backlog of a sound stream never reaches the limit it is reset at.         *)
ChunksDoNotMatter ==
    topic = "stream" =>
        LET got == ReceivedAll(Chunks(FlattenSeq(input[1]) \o input[2], input[3]))
        IN  got.messages = input[1] /\ got.rest = input[2]

Clocks == [export : {3, 8}, up : 0..9, first : 0..9, last : 0..9, own : {NoTime, 5}]
UptimeWrap == 6

(* A flow is never stamped outside the window of sane times, and one whose   *)
(* exporter's uptime did not wrap during it is stamped with its own times.   *)
TimesAreTrue ==
    topic = "clock" /\ input.first <= input.last /\ input.last <= input.up =>
        LET rec == [start |-> input.own, end |-> NoTime, first |-> input.first % UptimeWrap, last |-> input.last % UptimeWrap]
            t == StampTimes(rec, input.export - (input.up % UptimeWrap), input.export)
            Then(at) == input.export - (input.up - at)
        IN  /\ t.start \in MinTime..MaxTime /\ t.end \in MinTime..MaxTime /\ (t.duration # NoTime => t.duration >= 0)
            /\ input.last \div UptimeWrap = input.up \div UptimeWrap /\ Then(input.last) >= MinTime => t.end = Then(input.last)
            /\ input.own # NoTime => t.start = input.own

-----------------------------------------------------------------------------
(* HEC bodies: three envelopes, apart or in an array, one of them damaged. *)
Member(value) == <<"q", "w", "q", ":">> \o value
Quoted(content) == <<"q">> \o content \o <<"q">>
EnvelopeTexts == {<<"{">> \o Member(v) \o <<"}">> :
                    v \in {Quoted(<<>>), Quoted(<<"{">>), Quoted(<<"}", ",">>), <<"{", "}">>, <<"[", "{">> \o Member(Quoted(<<"w">>)) \o <<"}", "]">>}}
BodyForms == {"bare", "comma", "array"}
JoinedBody(texts, form) ==
    LET gap == IF form = "bare" THEN <<>> ELSE <<",", " ">>
        all == FlattenSeq([i \in DOMAIN texts |-> IF i = 1 THEN texts[i] ELSE gap \o texts[i]])
    IN  IF form = "array" THEN <<"[">> \o all \o <<"]">> ELSE all
HecBodies == (UNION {[1..n -> EnvelopeTexts] : n \in 1..4}) \X BodyForms
Damaged == UNION {{SubSeq(e, 1, i) : i \in 1..Len(e) - 1} \cup {SubSeq(e, 1, i - 1) \o SubSeq(e, i + 1, Len(e)) : i \in DOMAIN e} : e \in EnvelopeTexts}
DamagedBodies == EnvelopeTexts \X Damaged \X EnvelopeTexts \X {"bare", "comma"}

(* Envelopes are read back as they were sent, back to back, separated or in  *)
(* an array, whatever braces and commas their strings hold; a body over the  *)
(* limit is seen to be over it (hec.py, split_hec_envelopes).                *)
EnvelopesReadBack ==
    topic = "hec_body" =>
        LET got == SplitEnvelopes(JoinedBody(input[1], input[2]))
        IN  IF Len(input[1]) > EnvelopeLimit THEN Len(got) = EnvelopeLimit + 1 ELSE got = input[1]

(* One corrupt envelope costs one envelope: those before and after it are    *)
(* read (hec.py, split_hec_envelopes).                                       *)
CorruptCostsItself ==
    topic = "hec_damage" =>
        LET got == SplitEnvelopes(JoinedBody(<<input[1], input[2], input[3]>>, input[4]))
        IN  Len(got) <= EnvelopeLimit => got # <<>> /\ got[1] = input[1] /\ got[Len(got)] = input[3]

MCExact == [s \in {"json"} |-> "generic_json"]
MCWithin == <<<<{"bro:sysmon"}, "sysmon">>>>
MCPrefixed == <<<<{"cef"}, "cef">>, <<{"bro", "bro:sysmon"}, "zeek_json">>, <<{"nutanix"}, "nutanix">>>>
HecEnvelopeSet ==
    {e \in [shape : {"object", "string"}, blank : BOOLEAN, json : BOOLEAN, fields : BOOLEAN,
            sourcetype : {"json", "cef", "bro", "bro:sysmon", "nutanix", "other", Blank3}, time : {Blank3, "t"}] :
        (e.shape = "object" => ~e.blank /\ e.json) /\ (e.blank => ~e.json)}

(* Nothing is routed to a parser that cannot read it: no JSON to a parser of *)
(* text, no text to one of JSON, and nothing that carries an event or fields *)
(* is passed over; a record keeps the time of its envelope                   *)
(* (hec.py, envelope_entry).                                                 *)
NothingUnreadable ==
    topic = "hec_envelope" =>
        LET e == EnvelopeEntry(input)
        IN  /\ e = NoEntry <=> input.blank /\ ~input.fields
            /\ e.line = "text" => e.fmt \notin NeedsJson
            /\ e.line \in {"json", "record"} => e.fmt \notin NeedsText
            /\ e.line = "record" => e.time = input.time

HecLines == (UNION {[1..n -> [blank : BOOLEAN, json : BOOLEAN]] : n \in 0..3}) \X {"cef", "bro", "nutanix", "other"}

(* A body is one batch a format, each with its envelopes in their order, and *)
(* every line of a raw body that is not blank is in one.                     *)
GroupsKeepEvents ==
    topic = "hec_raw" =>
        LET texts == SelectSeq(input[1], LAMBDA l : ~l.blank)
            other == [shape |-> "object", blank |-> FALSE, json |-> TRUE, fields |-> FALSE, sourcetype |-> "bro", time |-> Blank3]
            entries == [i \in 1..Len(texts) + 1 |->
                          EnvelopeEntry(IF i > Len(texts) THEN other
                                        ELSE RawEnvelopes(input[1], [sourcetype |-> input[2], time |-> Blank3])[i])]
            groups == GroupEntries(entries)
        IN  /\ \A i, j \in DOMAIN groups : groups[i].fmt = groups[j].fmt => i = j
            /\ \A i \in DOMAIN groups : groups[i].lines = SelectSeq(entries, LAMBDA e : e.fmt = groups[i].fmt)
            /\ \A i \in DOMAIN entries : \E g \in DOMAIN groups : groups[g].fmt = entries[i].fmt

-----------------------------------------------------------------------------
(* Syslog streams: up to three messages, each counted or on a line of its  *)
(* own, cut anywhere, and one that was never framed.                       *)
MCDetects == [b \in {"CEF"} |-> "cef"]
CountOf(n) == IF n < 10 THEN <<CHOOSE d \in DOMAIN Digits : Digits[d] = n>> ELSE <<"1", "0">>
CountedTexts == {<<"<", "x">>, <<"<", "nl", "x">>, <<"<", "9", " ", "<", "x", "x", "x", "x", "x", "x">>}
LineTexts == {<<"<", "x">>, <<"3", " ", "x">>, <<"CEF", "x">>, <<"bad">>, <<>>}
SyslogSent == {<<"counted", t>> : t \in CountedTexts} \cup {<<"line", t>> : t \in LineTexts}
FramedAs(m) == IF m[1] = "line" THEN Append(m[2], "nl") ELSE CountOf(Len(m[2])) \o <<" ">> \o m[2]
StreamOf(sent) == FlattenSeq([i \in DOMAIN sent |-> FramedAs(sent[i])])
SyslogStreams == (UNION {[1..n -> SyslogSent] : n \in 1..2}) \X SUBSET {1, 2, 3, 4, 5, 6, 8, 11, 13}
Reads(s, cuts) ==
    LET ends == SelectSeq([i \in 1..Len(s) |-> i], LAMBDA c : c \in cuts \/ c = Len(s))
    IN  [i \in DOMAIN ends |-> SubSeq(s, IF i = 1 THEN 1 ELSE ends[i - 1] + 1, ends[i])]
Submits(sent) == FlattenSeq([i \in DOMAIN sent |-> IngestMessage(sent[i][2], {<<"bad">>})])

(* However TCP cuts a stream, and whichever framing each message has, what   *)
(* is submitted is what was sent, in order; a message that cannot be parsed  *)
(* costs itself (syslog.py, iter_tcp_messages and _handle_tcp).              *)
SyslogReadsBack ==
    topic = "syslog" =>
        LET got == HandleTcp(Reads(StreamOf(input[1]), input[2]), {<<"bad">>})
        IN  got.submitted = Submits(input[1]) /\ got.rest = <<>>

RunawaySent == (1..2 * MaxMsg + 1) \X SyslogSent

(* A sender that never framed its stream holds no more than the limit and    *)
(* one read, and the messages after its next newline are read again.         *)
RunawayRecovers ==
    topic = "runaway" =>
        LET noise == [i \in 1..input[1] |-> <<"x">>]
            whole == HandleTcp(noise \o <<<<"nl">>>> \o <<FramedAs(input[2])>>, {<<"bad">>})
            got == HandleTcp(noise, {})
        IN  /\ Len(got.rest) <= MaxMsg
            /\ IsSuffix(Submits(<<input[2]>>), whole.submitted) /\ whole.rest = <<>>

-----------------------------------------------------------------------------
ExprOf(plain, atoms) == [plain |-> plain, atoms |-> atoms]
Name1(n) == <<"name", n>>
MCAliases == [n \in {"_time"} |-> "event_time"]
MCBaseCols == <<"event_time", "vendor", "user_name">>
MCModelCols == <<"event_time", "vendor", "user">>
MCPassthru == <<"raw", "search_tsv">>
MCLists == {<<>>, <<"key">>, <<"_time">>, <<"user_name", "event_time">>, <<"key", "vendor">>}
MCExprs == {ExprOf(TRUE, <<Name1("_time")>>), ExprOf(TRUE, <<Name1("key")>>), ExprOf(FALSE, <<<<"word", "w">>>>),
            ExprOf(FALSE, <<Name1("key"), <<"bound", "v">>, <<"bound", "t">>, Name1("_time")>>)}
MCRenamings == {<<<<n, l>>>> : n \in Names, l \in Labels} \cup {<<<<"_time", "vendor">>, <<"vendor", "event_time">>>>}
Agg(a, l) == [arg |-> a, label |-> l]
MCAggLists == {<<Agg(a, l)>> : a \in {"key", NoColumn}, l \in Labels}
              \cup {<<Agg("key", l), Agg("_time", "raw")>> : l \in Labels}

ReferenceInit == topic = "none" /\ input = 0 /\ LoqlInit

Pick(name, inputs) ==
    /\ topic = "none" /\ ~model
    /\ topic' = name /\ input' \in inputs
    /\ UNCHANGED loqlVars

Compile == topic \in {"none", "loql"} /\ topic' = "loql" /\ LoqlNext /\ UNCHANGED input

ReferenceNext ==
    \/ Pick("condition", Conditions) \/ Pick("ranges", Tables) \/ Pick("node", Nodes \X Nodes) \/ Pick("tree", Trees)
    \/ Pick("registry", Registries) \/ Pick("section", Sections) \/ Pick("assets", AssetRegistries)
    \/ Pick("query", QueryTrees) \/ Pick("nesting", 1..12) \/ Pick("pipeline", Pipelines)
    \/ Pick("membership", {Model1("a", "b", c) : c \in ClauseSets})
    \/ Pick("geo", UNION {[1..n -> GeoSources] : n \in 1..2})
    \/ Pick("flowset", FlowSets) \/ Pick("teaching", Taught) \/ Pick("stream", Streams) \/ Pick("clock", Clocks)
    \/ Pick("hec_body", HecBodies) \/ Pick("hec_damage", DamagedBodies) \/ Pick("hec_envelope", HecEnvelopeSet) \/ Pick("hec_raw", HecLines)
    \/ Pick("syslog", SyslogStreams) \/ Pick("runaway", RunawaySent)
    \/ Compile

ReferenceSpec == ReferenceInit /\ [][ReferenceNext]_<<loqlVars, referenceVars>>

(* Rules match and queries are read as they are written, and a data model  *)
(* answers alike in Python and in SQL.                                     *)
MatchingIsTrue ==
    /\ ConditionMeansItsTree /\ ViewsShowWhatIsTagged
    /\ NamesFindTheirModel /\ ViewColumnsDiffer
    /\ ParsedAsWritten /\ OnlyNestingCounts /\ ModelIsTheSource

(* A lookup answers what its source says: ranges, MaxMind trees, assets    *)
(* and identities.                                                         *)
LookupsAreTrue ==
    /\ LookupIsNarrowest /\ Ipv4IsItsZeroForm /\ MappedFallsBack /\ NodesUnpack /\ WorkIsBounded
    /\ DisabledIsAbsent /\ FingerprintCoversContext /\ BrokenSourceIsSkipped

(* What was sent is what is read, however it was cut, counted, wrapped or  *)
(* damaged.                                                                *)
WireReadsBack ==
    /\ RecordsReadBack /\ TemplatesReadBack /\ OptionsReadBack /\ ChunksDoNotMatter /\ TimesAreTrue
    /\ EnvelopesReadBack /\ CorruptCostsItself /\ NothingUnreadable /\ GroupsKeepEvents
    /\ SyslogReadsBack /\ RunawayRecovers
=============================================================================
