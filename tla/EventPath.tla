----------------------------- MODULE EventPath -----------------------------
(***************************************************************************)
(* app/pipeline.py write_stream: the way of one event from a parser to its *)
(* row.  Time, the custom parsers (app/custom_parser.py), the ingest       *)
(* actions, CIM tags, detection rules, threat intelligence                 *)
(* (app/threatintel/matcher.py), suppression (app/triage/suppression.py),  *)
(* and the flush: rows, alerts, entity baselines (app/risk.py).            *)
(*                                                                         *)
(* An event is [cols, raw, marks, time].  A step that can raise may do so  *)
(* FaultBound times; each stage catches its own exceptions.                *)
(***************************************************************************)
EXTENDS IngestActions

CONSTANTS Deliveries,     \* the events of one stream
          ActionFiles,    \* what LoadActions reads
          ParserDefs,     \* custom parsers, in order
          KvPairs,        \* word of a key-value text -> its key and value
          DetectionRules, \* [id, enabled, ...] as MatchRule takes them
          Models,         \* the CIM registry
          Iocs,           \* indicator words, and networks by name
          Suppressions,   \* in order: partial functions from criteria to words
          Chunk, FaultBound

VARIABLES stage, taken, evt, flat, step, touched, secrets, tags,
          chunk, pending, stored, alerts, baselines, dropped, hits, faults

vars == <<stage, taken, evt, flat, step, touched, secrets, tags,
          chunk, pending, stored, alerts, baselines, dropped, hits, faults>>

Actions == LoadActions(ActionFiles).rules
Stale == [stale |-> Nothing]
Word == DOMAIN HashOf
WellFormed(e) ==
    /\ e = [cols |-> e.cols, raw |-> e.raw, marks |-> e.marks, time |-> e.time]
    /\ Maskable \subseteq DOMAIN e.cols /\ e.cols \in [DOMAIN e.cols -> Seq(Word)]
    /\ e.raw \in [DOMAIN e.raw -> Seq(Word)]

InetWords == UNION {Networks[n] : n \in DOMAIN Networks}

ColumnsFit(e) ==
    /\ \A c \in InetCols : e.cols[c] = Nothing \/ e.cols[c][1] \in InetWords
    /\ \A c \in IntCols : e.cols[c] = Nothing \/ e.cols[c][1] \in DOMAIN Numbers

\* What a document that is kept names: texts, and what fits a typed column (_mask_from
\* reads a replacement again as the column's type).
DocumentFits(doc) ==
    /\ {doc.order, doc.source, doc.rank} \subseteq Int
    /\ doc.action = "mask" =>
          /\ doc.spec.fields \in Seq(Maskable) /\ {doc.spec.address, doc.spec.number} \subseteq Seq(Word)
          /\ doc.spec.address = Nothing \/ doc.spec.address[1] \in InetWords
          /\ doc.spec.number = Nothing \/ doc.spec.number[1] \in DOMAIN Numbers
    /\ doc.action = "route" => doc.spec.set \in [DOMAIN doc.spec.set -> Seq(Word)] /\ doc.spec.index \in Seq(Word)

ASSUME PathAssumption ==
    /\ Chunk \in Nat \ {0} /\ FaultBound \in Nat /\ IsFiniteSet(DetectionRules)
    /\ Redacted \in Word /\ HashOf \in [Word -> Word] /\ PseudoOf \in [Word -> Word \cap InetWords]
    /\ {"user_name", "message"} \subseteq TextCols /\ (TextCols \cup {"vendor", "product", "log_type"}) \cap Typed = {}
    /\ InetCols \cap IntCols = {}
    /\ Places(ActionFiles) \subseteq Nat \X Nat /\ IsFiniteSet(Places(ActionFiles))
    /\ \A p \in KeptPlaces(ActionFiles) : DocumentFits(ActionFiles[p[1]][p[2]])
    /\ DOMAIN ParserDefs \subseteq Nat
    /\ \A i \in DOMAIN ParserDefs : ParserDefs[i].declared \in [DOMAIN ParserDefs[i].declared -> Seq(Word)]
    /\ \A w \in DOMAIN KvPairs : KvPairs[w][2] \in Seq(Word)
    /\ Len(Deliveries) \in Nat /\ DOMAIN Deliveries = 1..Len(Deliveries)
    /\ \A k \in DOMAIN Deliveries : WellFormed(Deliveries[k]) /\ ColumnsFit(Deliveries[k])

NoEvent == [cols |-> <<>>, raw |-> <<>>, marks |-> {}, time |-> "none"]
Unresolved == {"unresolved"}
Raise == faults < FaultBound /\ faults' = faults + 1

-----------------------------------------------------------------------------
(* custom_parser.py: the first definition that matches fills the columns.  *)
ParserMatches(d, raw) == d.key \in DOMAIN raw /\ d.word \in ToSet(raw[d.key])

\* extract_kv: the pairs of one field's text become keys of their own.
Extracted(d, raw) ==
    LET pairs == IF d.kv \in DOMAIN raw THEN {KvPairs[w] : w \in ToSet(raw[d.kv]) \cap DOMAIN KvPairs} ELSE {}
    IN  [k \in DOMAIN raw \cup {p[1] : p \in pairs} |->
            IF k \in DOMAIN raw THEN raw[k] ELSE (CHOOSE p \in pairs : p[1] = k)[2]]

\* map_fields: a column the definition declares is overwritten unless the record
\* maps it; others are filled only when empty.
ParserFill(d, e) ==
    LET rec == Extracted(d, e.raw)
        Sources(c) == {k \in DOMAIN d.map \cap DOMAIN rec : d.map[k] = c /\ rec[k] # Nothing}
        mapped == {c \in DOMAIN e.cols : Sources(c) # {}}
        Value(c) == rec[CHOOSE k \in Sources(c) : TRUE]
        declared == DOMAIN d.declared
    IN  [e EXCEPT !.cols = [c \in DOMAIN @ |->
            IF c \in mapped /\ (c \in declared \/ @[c] = Nothing) THEN Value(c)
            ELSE IF c \in declared \ mapped THEN d.declared[c]
            ELSE @[c]]]

\* apply: a definition that raises is passed over.
ParserApply(e, broken) ==
    LET usable == {i \in DOMAIN ParserDefs : ParserMatches(ParserDefs[i], e.raw) /\ ParserDefs[i].id \notin broken}
    IN  IF usable = {} THEN e ELSE ParserFill(ParserDefs[CHOOSE i \in usable : \A j \in usable : i <= j], e)

(* matcher.py: the addresses and words an event shows, and what they hit.  *)
Observables(e) ==
    UNION {ToSet(e.cols[c]) : c \in DOMAIN e.cols \cap {"src_ip", "dst_ip", "host_name", "app",
                                                       "user_name", "rule_name", "message"}}
    \cup UNION {ToSet(e.raw[k]) : k \in DOMAIN e.raw} \cup e.marks

IocHits(e) == {i \in Iocs : \/ i \in Observables(e)
                            \/ /\ i \in DOMAIN Networks
                               /\ \E w \in Observables(e) : w \notin Iocs /\ w \in Networks[i]}

(* suppression.py: every criterion given must match; the first rule wins.  *)
SuppressionMatches(s, alert) ==
    /\ DOMAIN s # {}
    /\ \A k \in DOMAIN s :
          \/ k = "src_ip" /\ s[k] \in DOMAIN Networks /\ \E w \in ToSet(alert[k]) : w \in Networks[s[k]]
          \/ alert[k] = <<s[k]>>

SuppressedBy(alert) == SelectInSeq(Suppressions, LAMBDA s : SuppressionMatches(s, alert))

\* alert_from_match and ti_alert: the event's columns and its identity; `at' notes
\* the event.
AlertFor(rule, e) ==
    [rule_id |-> <<rule>>, at |-> taken, vendor |-> e.cols.vendor, user_name |-> e.cols.user_name,
     src_ip |-> e.cols.src_ip, message |-> e.cols.message, dedup |-> Identity(e), status |-> "open"]

\* emit: the alert is stored either way.
Emitted(rule, e) ==
    LET alert == AlertFor(rule, e)
    IN  IF SuppressedBy(alert) = 0 THEN alert ELSE [alert EXCEPT !.status = "suppressed"]

EventEntities(e) ==
    {<<c, e.cols[c]>> : c \in {x \in {"user_name", "host_name", "src_ip"} \cap DOMAIN e.cols : e.cols[x] # Nothing}}

EventLinks(e) ==
    {<<p[1], e.cols[p[1]], p[2], e.cols[p[2]]>> :
        p \in {q \in {<<"user_name", "src_ip">>, <<"user_name", "host_name">>, <<"host_name", "dst_ip">>} :
                 /\ {q[1], q[2]} \subseteq DOMAIN e.cols
                 /\ e.cols[q[1]] # Nothing /\ e.cols[q[2]] # Nothing}}

-----------------------------------------------------------------------------
Init ==
    /\ stage = "next" /\ taken = 0 /\ evt = NoEvent /\ flat = Stale /\ step = 1
    /\ touched = {} /\ secrets = {} /\ tags = Unresolved
    /\ chunk = <<>> /\ pending = <<>> /\ stored = <<>> /\ alerts = {} /\ baselines = {}
    /\ dropped = {} /\ hits = 0 /\ faults = 0

\* The next event, with the fallback time if it has none.
Take ==
    /\ stage = "next" /\ taken < Len(Deliveries)
    /\ taken' = taken + 1
    /\ evt' = LET e == Deliveries[taken + 1]
              IN  IF e.time = "none" THEN [e EXCEPT !.time = "fallback", !.marks = @ \cup {"_parse_note"}] ELSE e
    /\ stage' = "fill" /\ flat' = Stale /\ step' = 1 /\ touched' = {} /\ secrets' = {} /\ tags' = Unresolved
    /\ UNCHANGED <<chunk, pending, stored, alerts, baselines, dropped, hits, faults>>

\* custom_parser.apply; a definition may raise, and is skipped.
Fill ==
    /\ stage = "fill"
    /\ \/ evt' = ParserApply(evt, {}) /\ faults' = faults
       \/ Raise /\ \E i \in DOMAIN ParserDefs : evt' = ParserApply(evt, {ParserDefs[i].id})
    /\ stage' = "act"
    /\ UNCHANGED <<taken, flat, step, touched, secrets, tags, chunk, pending, stored, alerts, baselines, dropped, hits>>

Acting == stage = "act" /\ step <= Len(Actions)
Seen == IF flat = Stale THEN FlattenEvent(evt) ELSE flat
EngineTags == IF tags = Unresolved THEN TagsFor(Models, evt) ELSE tags

Matches(a) == a.enabled /\ MatchRule(a.rule, Seen, EngineTags)

\* By the number of events seen, as a sampler usually does.
SampledAtIntervals(a) == a.action = "sample" /\ taken % a.spec.amount # 0

SampledOut(a) == a.action = "sample" /\ ~SampleKeeps(evt, a.spec)

Skip ==
    /\ Acting
    /\ LET a == Actions[step]
       IN  /\ ~Matches(a) \/ (a.action = "sample" /\ ~SampledOut(a))
           /\ flat' = IF a.enabled THEN Seen ELSE flat
    /\ step' = step + 1
    /\ UNCHANGED <<stage, taken, evt, touched, secrets, tags, chunk, pending, stored, alerts, baselines, dropped,
                   hits, faults>>

\* A terminal rule: the event is counted and goes no further.
Discard ==
    /\ Acting
    /\ LET a == Actions[step]
       IN  Matches(a) /\ (a.action = "drop" \/ SampledOut(a))
    /\ dropped' = dropped \cup {taken}
    /\ stage' = "next"
    /\ UNCHANGED <<taken, evt, flat, step, touched, secrets, tags, chunk, pending, stored, alerts, baselines, hits, faults>>

\* A mask or a route: the flattened event is built again after a change.
Apply ==
    /\ Acting
    /\ LET a == Actions[step]
       IN  /\ a.action \in {"mask", "route"} /\ Matches(a)
           /\ evt' = Transform(a, evt)
           /\ flat' = IF evt' # evt THEN Stale ELSE Seen
           /\ secrets' = IF a.action = "mask" /\ a.spec.scrub
                           THEN secrets \cup {p[1] : p \in ToSet(Pairs(evt, a.spec)) \ {Nothing}} ELSE secrets
           /\ touched' = touched \cup {a.id}
    /\ step' = step + 1
    /\ UNCHANGED <<stage, taken, tags, chunk, pending, stored, alerts, baselines, dropped, hits, faults>>

\* Failing open, with the view built before the rule ran.
RaiseKeepingView ==
    /\ Acting /\ Raise
    /\ LET a == Actions[step]
       IN  /\ a.enabled
           /\ evt' \in {evt} \cup (IF a.action = "mask" /\ Matches(a) THEN {HalfMasked(evt, a.spec)} ELSE {})
    /\ flat' = Seen /\ step' = step + 1
    /\ UNCHANGED <<stage, taken, touched, secrets, tags, chunk, pending, stored, alerts, baselines, dropped, hits>>

\* A rule raises: the event goes on as it is, perhaps half masked.
RuleRaises ==
    /\ Acting /\ Raise
    /\ LET a == Actions[step]
       IN  /\ a.enabled
           /\ evt' \in {evt} \cup (IF a.action = "mask" /\ Matches(a) THEN {HalfMasked(evt, a.spec)} ELSE {})
    /\ flat' = Stale /\ step' = step + 1
    /\ UNCHANGED <<stage, taken, touched, secrets, tags, chunk, pending, stored, alerts, baselines, dropped, hits>>

Keep ==
    /\ stage = "act" /\ step > Len(Actions)
    /\ chunk' = Append(chunk, [at |-> taken, evt |-> evt, tags |-> Unresolved, secrets |-> secrets])
    /\ stage' = "tags"
    /\ UNCHANGED <<taken, evt, flat, step, touched, secrets, tags, pending, stored, alerts, baselines, dropped, hits, faults>>

\* Membership is resolved once; None when that raises.
Tag ==
    /\ stage = "tags"
    /\ \/ tags' = TagsFor(Models, evt) /\ faults' = faults
       \/ tags' = Unresolved /\ Raise
    /\ stage' = "detect"
    /\ UNCHANGED <<taken, evt, flat, step, touched, secrets, chunk, pending, stored, alerts, baselines, dropped, hits>>

\* The alert made from the event as it arrived.
DetectArrived ==
    /\ stage = "detect"
    /\ LET e == Deliveries[taken]
           fired == {r \in DetectionRules : r.enabled /\ MatchRule(r, FlattenEvent(e), EngineTags)}
       IN  pending' = pending \o SetToSeq({Emitted(r.id, e) : r \in fired})
    /\ stage' = "intel"
    /\ UNCHANGED <<taken, evt, flat, step, touched, secrets, tags, chunk, stored, alerts, baselines, dropped, hits, faults>>

\* evaluate_event: a rule that raises costs only itself.
Detect ==
    /\ stage = "detect"
    /\ \E failing \in SUBSET {r.id : r \in DetectionRules} :
          /\ IF failing = {} THEN faults' = faults ELSE Cardinality(failing) = 1 /\ Raise
          /\ LET fired == {r \in DetectionRules : /\ r.enabled /\ r.id \notin failing
                                                  /\ MatchRule(r, FlattenEvent(evt), EngineTags)}
                 news == {Emitted(r.id, evt) : r \in fired}
             IN  /\ pending' = pending \o SetToSeq(news)
                 /\ hits' = hits + Cardinality({x \in news : x.status = "suppressed"})
    /\ stage' = "intel"
    /\ UNCHANGED <<taken, evt, flat, step, touched, secrets, tags, chunk, stored, alerts, baselines, dropped>>

\* One event more than a chunk is to hold.
ChunkOverfull == Len(chunk) > Chunk

ChunkFull == Len(chunk) >= Chunk

\* The match may raise: the event is then stored without that alert.
Intel ==
    /\ stage = "intel"
    /\ \/ /\ pending' = IF IocHits(evt) = {} THEN pending ELSE Append(pending, Emitted("ti-ioc-match", evt))
          /\ hits' = IF pending' # pending /\ Last(pending').status = "suppressed" THEN hits + 1 ELSE hits
          /\ faults' = faults
       \/ Raise /\ UNCHANGED <<pending, hits>>
    /\ chunk' = [chunk EXCEPT ![Len(chunk)].tags = tags]
    /\ stage' = IF ChunkFull THEN "flush" ELSE "next"
    /\ UNCHANGED <<taken, evt, flat, step, touched, secrets, tags, stored, alerts, baselines, dropped>>

\* The last chunk left behind when it is not full.
FinishShort ==
    /\ stage = "next" /\ taken = Len(Deliveries) /\ stage' = "done"
    /\ UNCHANGED <<taken, evt, flat, step, touched, secrets, tags, chunk, pending, stored, alerts, baselines, dropped,
                   hits, faults>>

Finish ==
    /\ stage = "next" /\ taken = Len(Deliveries)
    /\ stage' = IF chunk # <<>> THEN "flush" ELSE "done"
    /\ UNCHANGED <<taken, evt, flat, step, touched, secrets, tags, chunk, pending, stored, alerts, baselines, dropped,
                   hits, faults>>

\* None counted as "belongs to nothing".
TagsAsGiven(c) == IF c.tags = Unresolved THEN {} ELSE c.tags

\* _cim_tags: a None is derived again from the row.
RowTags(c) == IF c.tags = Unresolved THEN TagsFor(Models, c.evt) ELSE c.tags

\* insert_events, insert_alerts, bump_suppressions and the baselines.
Flush ==
    /\ stage = "flush"
    /\ \E lost \in SUBSET DOMAIN chunk :
          /\ IF lost = {} THEN faults' = faults
             ELSE Cardinality(lost) = 1 /\ Raise /\ \A i \in lost : chunk[i].tags = Unresolved
          /\ stored' = stored \o [i \in DOMAIN chunk |->
                [at |-> chunk[i].at, evt |-> chunk[i].evt, dedup |-> Identity(chunk[i].evt),
                 tags |-> IF i \in lost THEN Unresolved ELSE RowTags(chunk[i]), secrets |-> chunk[i].secrets]]
    /\ alerts' = alerts \cup ToSet(pending)
    /\ baselines' = baselines \cup UNION {EventEntities(chunk[i].evt) \cup EventLinks(chunk[i].evt) : i \in DOMAIN chunk}
    /\ chunk' = <<>> /\ pending' = <<>> /\ hits' = 0
    /\ stage' = IF taken = Len(Deliveries) THEN "done" ELSE "next"
    /\ UNCHANGED <<taken, evt, flat, step, touched, secrets, tags, dropped>>

Next == Take \/ Fill \/ Skip \/ Discard \/ Apply \/ RuleRaises \/ Keep \/ Tag \/ Detect \/ Intel \/ Finish \/ Flush

\* One thread runs the stream to its end.
Spec == Init /\ [][Next]_vars /\ WF_vars(Next)

-----------------------------------------------------------------------------
PathTypeOK ==
    /\ stage \in {"next", "fill", "act", "tags", "detect", "intel", "flush", "done"}
    /\ taken \in 0..Len(Deliveries) /\ step \in 1..(Len(Actions) + 1)
    /\ dropped \subseteq 1..taken /\ faults \in 0..FaultBound /\ hits \in Nat
    /\ Len(chunk) <= Chunk

\* The words rules put in the place of others.
MaskWords(a) == ToSet(a.spec.address) \cup ToSet(a.spec.number)
RouteWords(a) == ToSet(a.spec.index) \cup UNION {ToSet(a.spec.set[c]) : c \in DOMAIN a.spec.set}

Replacements ==
    {w \in Word : \/ w = Redacted
                  \/ \E v \in Word : w \in {HashOf[v], PseudoOf[v]}
                  \/ \E a \in ToSet(Actions) : \/ a.action = "mask" /\ w \in MaskWords(a)
                                               \/ a.action = "route" /\ w \in RouteWords(a)}

Shows(word, x) == \E i \in DOMAIN x : x[i] = word \/ (word \in LongWords /\ word \in Embeds[x[i]])

Hides(e, word) ==
    /\ \A c \in TextCols : ~Shows(word, e.cols[c])
    /\ \A k \in DOMAIN e.raw \ NumericKeys : ~Shows(word, e.raw[k])

\* What stands in for a value holds no other one (a replacement is the operator's text).
ReplacementsTellNothing == \A r \in Replacements : Embeds[r] \cap LongWords \subseteq Replacements

\* What a definition reads into a typed column is of its type; map_fields does not see to it.
ParsersFit ==
    \A k \in DOMAIN Deliveries : \A i \in DOMAIN ParserDefs : ColumnsFit(ParserFill(ParserDefs[i], Deliveries[k]))

(* A value a rule has masked is nowhere in the row and its alerts: not in a  *)
(* text column, not in a string of the raw record, and not inside a longer   *)
(* word when it is long enough to tell (ingest_actions.py, apply_mask).  A   *)
(* word that rules themselves put in is no secret, masked again or not.      *)
MaskedValuesAreGone ==
    \A i \in DOMAIN stored : \A w \in stored[i].secrets \ Replacements :
        /\ Hides(stored[i].evt, w)
        /\ \A a \in alerts : a.at = stored[i].at => ~Shows(w, a.user_name) /\ ~Shows(w, a.message)

(* Rules match what the rules before them have left, never a view of the     *)
(* event built before a change (ingest_actions.py, decide).                  *)
MatchesSeeTheMask == stage = "act" /\ flat # Stale => flat = FlattenEvent(evt)

(* A typed column holds a value of its type, whatever rules ran: a text in   *)
(* one would abort the insert of its whole batch (ingest_actions.py).        *)
TypedColumnsStayTyped == \A i \in DOMAIN stored : ColumnsFit(stored[i].evt)

(* An alert carries the identity and the columns of a stored row, so that it *)
(* can be traced to its event (pipeline.py, one dedup_hash for both).        *)
AlertsNameTheRow ==
    \A a \in alerts : \E i \in DOMAIN stored :
        /\ a.at = stored[i].at /\ a.dedup = stored[i].dedup
        /\ a.user_name = stored[i].evt.cols.user_name /\ a.src_ip = stored[i].evt.cols.src_ip

(* The tags stored are those the row itself derives, or none are known: a    *)
(* failed derivation is never stored as "belongs to no model" (db._cim_tags).*)
StoredTagsAreDerivable ==
    \A i \in DOMAIN stored : stored[i].tags \in {TagsFor(Models, stored[i].evt), Unresolved}

(* The same record delivered twice meets the same fate when nothing fails:   *)
(* both dropped, or both stored under one identity, which the database then  *)
(* keeps once (ingest_actions.py, sample_bucket; normalize.dedup_hash).      *)
SameBytesSameFate ==
    \A i, j \in 1..Len(Deliveries) :
        LET Settled(k) == k \in dropped \/ \E r \in DOMAIN stored : stored[r].at = k
            Fate(k) == {stored[r].dedup : r \in {x \in DOMAIN stored : stored[x].at = k}}
        IN  faults = 0 /\ Settled(i) /\ Settled(j) /\ Deliveries[i] = Deliveries[j] /\ Deliveries[i].time # "none"
                => Fate(i) = Fate(j)

(* Every event of a stream that has begun is dropped by a rule or stored,    *)
(* whatever raises on its way (pipeline.write_stream fails open).            *)
EveryEventSettles ==
    []<>(taken = 0 \/ \A k \in 1..Len(Deliveries) : k \in dropped \/ \E r \in DOMAIN stored : stored[r].at = k)

(* What a stream stores is what its rules have left: masked throughout,    *)
(* typed, tagged by what it says, named alike by the row and its alerts,   *)
(* and the same for the same bytes.                                        *)
StreamIsFaithful ==
    /\ PathTypeOK
    /\ MaskedValuesAreGone /\ MatchesSeeTheMask /\ TypedColumnsStayTyped
    /\ AlertsNameTheRow /\ StoredTagsAreDerivable /\ SameBytesSameFate
=============================================================================
