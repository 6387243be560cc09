--------------------------- MODULE IngestActions ---------------------------
(***************************************************************************)
(* app/ingest_actions.py: what a drop, mask, route or sample rule does to  *)
(* one event before it is stored.  Rules match with Matching!MatchRule.   *)
(*                                                                         *)
(* A word may embed a shorter one ("xjdoe" embeds "jdoe"), which a short   *)
(* value's scrub does not reach and a long value's does.                   *)
(***************************************************************************)
EXTENDS Matching

CONSTANTS TextCols, InetCols, IntCols,
          NumericKeys,   \* raw keys whose value is a JSON number, not a string
          Embeds,        \* word -> the words inside it
          LongWords,     \* words of eight characters or more
          HashOf,        \* word -> its salted hash
          PseudoOf,      \* address -> its pseudonym, an address
          PercentScale,  \* 10000 in the code: a percentage in hundredths
          Bucket(_)      \* the hash of the values a sample is keyed by

Redacted == "***"
IndexKey == "_index"

\* sort_key: order, then the file, then the id.
RunsBefore(a, b) ==
    \/ a.order < b.order
    \/ /\ a.order = b.order
       /\ \/ a.source < b.source
          \/ a.source = b.source /\ a.rank < b.rank

-----------------------------------------------------------------------------
(* A document: [action, scoped, id, order, source, rank, rule, spec, ...]; *)
(* scoped says it has a logsource or a detection.                          *)
Typed == InetCols \cup IntCols
Maskable == TextCols \cup Typed

PatternUnchecked(p) == p.target # ""

\* A substitution's text does not fit a typed column.
PatternAccepted(p) == p.target # "" /\ p.target \notin Typed

MaskAccepted(m) ==
    /\ ToSet(m.fields) \subseteq Maskable
    /\ m.fields # <<>> \/ m.rawKeys # {} \/ m.patterns # <<>>
    /\ m.mode \in {"redact", "hash"}
    /\ \A i \in DOMAIN m.patterns : PatternAccepted(m.patterns[i])

RouteAccepted(r) ==
    /\ DOMAIN r.set \subseteq {"vendor", "product", "log_type"}
    /\ DOMAIN r.set # {} \/ r.index # Nothing

SampleAccepted(s) ==
    /\ s.key \subseteq Maskable \cup {"vendor"}
    /\ \/ s.unit = "rate" /\ s.amount >= 1
       \/ s.unit = "percent" /\ s.amount > 0 /\ s.amount <= PercentScale

\* action_from_dict: a rule without a scope would match every event.
ActionAccepted(doc) ==
    /\ doc.scoped
    /\ CASE doc.action = "drop" -> TRUE
         [] doc.action = "mask" -> MaskAccepted(doc.spec)
         [] doc.action = "route" -> RouteAccepted(doc.spec)
         [] doc.action = "sample" -> SampleAccepted(doc.spec)
         [] OTHER -> FALSE

\* load_actions: files are sequences of documents, or "unreadable"; each refusal is
\* reported and costs only itself.  Equal keys stay in the order they were read in.
Readable(files) == {f \in DOMAIN files : files[f] # "unreadable"}
Places(files) == UNION {{f} \X DOMAIN files[f] : f \in Readable(files)}
KeptPlaces(files) == {p \in Places(files) : ActionAccepted(files[p[1]][p[2]])}

Precedes(files, p, q) ==
    LET a == files[p[1]][p[2]]
        b == files[q[1]][q[2]]
    IN  \/ RunsBefore(a, b)
        \/ ~RunsBefore(b, a) /\ (p[1] < q[1] \/ (p[1] = q[1] /\ p[2] < q[2]))

PlacesBefore(files, p) == {q \in KeptPlaces(files) : Precedes(files, q, p)}
PlaceOf(files, n) == CHOOSE p \in KeptPlaces(files) : Cardinality(PlacesBefore(files, p)) = n - 1

LoadActions(files) ==
    [rules |-> [n \in 1..Cardinality(KeptPlaces(files)) |-> files[PlaceOf(files, n)[1]][PlaceOf(files, n)[2]]],
     errors |-> Cardinality(Places(files) \ KeptPlaces(files)) + Cardinality(DOMAIN files \ Readable(files))]

-----------------------------------------------------------------------------
\* _mask_column: a typed column takes a value of its type or none.
MaskedText(col, x, spec) ==
    IF col \in IntCols THEN spec.number
    ELSE IF col \in InetCols THEN (IF spec.mode = "hash" THEN <<PseudoOf[x[1]]>> ELSE spec.address)
    ELSE IF spec.mode = "hash" THEN <<HashOf[x[1]]>> ELSE <<Redacted>>

\* Short values left alone, as before tokens were matched.
ScrubLongWord(w, pair) ==
    IF pair[1] \in LongWords /\ (w = pair[1] \/ pair[1] \in Embeds[w]) THEN pair[2] ELSE w

\* literal_scrubber for one masked value: whole tokens, or any part of a word when it is long.
ScrubWord(w, pair) ==
    IF w = pair[1] \/ (pair[1] \in LongWords /\ pair[1] \in Embeds[w]) THEN pair[2] ELSE w

\* One pair after the other, each on what the one before has left.
ScrubbedWord(w, pairs) ==
    LET left[n \in 0..Len(pairs)] ==
            IF n = 0 THEN w ELSE IF pairs[n] = Nothing THEN left[n - 1] ELSE ScrubWord(left[n - 1], pairs[n])
    IN  left[Len(pairs)]

ScrubText(x, pairs) == [i \in DOMAIN x |-> ScrubbedWord(x[i], pairs)]

\* Regular expressions, as the words they match anywhere in a text.
PatternText(x, words) == [i \in DOMAIN x |-> IF ({x[i]} \cup Embeds[x[i]]) \cap words # {} THEN Redacted ELSE x[i]]

TargetWords(patterns, target) == {p.word : p \in {q \in ToSet(patterns) : q.target = target}}

\* (original, replacement) for each column masked; an erased number or address
\* is replaced elsewhere by the placeholder.
MaskedPair(evt, spec, c) ==
    LET new == MaskedText(c, evt.cols[c], spec)
    IN  <<evt.cols[c][1], IF new = Nothing THEN Redacted ELSE new[1]>>

\* A column without a value has none.
Pairs(evt, spec) ==
    [i \in DOMAIN spec.fields |->
        IF evt.cols[spec.fields[i]] = Nothing THEN Nothing ELSE MaskedPair(evt, spec, spec.fields[i])]

MaskColumns(evt, spec) ==
    [evt EXCEPT !.cols = [c \in DOMAIN @ |->
        IF c \in ToSet(spec.fields) /\ @[c] # Nothing THEN MaskedText(c, @[c], spec) ELSE @[c]]]

MaskRawKeys(evt, spec) ==
    [evt EXCEPT !.raw = [k \in DOMAIN @ |->
        IF k \in spec.rawKeys /\ @[k] # Nothing
          THEN <<IF spec.mode = "hash" THEN HashOf[@[k][1]] ELSE Redacted>> ELSE @[k]]]

\* Every pattern, in its column or in a string of raw.
Substitute(evt, patterns) ==
    [evt EXCEPT
        !.cols = [c \in DOMAIN @ |-> PatternText(@[c], TargetWords(patterns, c))],
        !.raw = [k \in DOMAIN @ |->
            IF k \in NumericKeys \cup DOMAIN evt.cols THEN @[k] ELSE PatternText(@[k], TargetWords(patterns, k))]]

\* scrub: the masked values in the other text columns and in every string of raw,
\* and the column patterns in every string of raw.
Scrub(evt, pairs, spec) ==
    LET columnWords == UNION {TargetWords(spec.patterns, c) : c \in DOMAIN evt.cols}
    IN  [evt EXCEPT
            !.cols = [c \in DOMAIN @ |-> IF c \in TextCols THEN ScrubText(@[c], pairs) ELSE @[c]],
            !.raw = [k \in DOMAIN @ |-> IF k \in NumericKeys THEN @[k]
                                        ELSE PatternText(ScrubText(@[k], pairs), columnWords)]]

\* What has changed when a mask raises before its scrub.
HalfMasked(evt, spec) == MaskRawKeys(MaskColumns(evt, spec), spec)

ApplyMask(evt, spec) ==
    LET masked == Substitute(HalfMasked(evt, spec), spec.patterns)
    IN  IF spec.scrub THEN Scrub(masked, Pairs(evt, spec), spec) ELSE masked

\* vendor, product and log_type; a wanted index is stamped into raw.
ApplyRoute(evt, spec) ==
    LET stamped == IF spec.index = Nothing THEN evt.raw
                   ELSE [k \in DOMAIN evt.raw \cup {IndexKey} |->
                           IF k = IndexKey THEN spec.index ELSE evt.raw[k]]
    IN  [evt EXCEPT !.cols = [c \in DOMAIN @ |-> IF c \in DOMAIN spec.set THEN spec.set[c] ELSE @[c]],
                    !.raw = stamped]

-----------------------------------------------------------------------------
\* dedup_hash: the vendor, the time and the raw record, stamps included.
Identity(evt) == [vendor |-> evt.cols.vendor, time |-> evt.time, raw |-> evt.raw, marks |-> evt.marks]

SampleBucket(evt, key) ==
    Bucket(IF key # {} THEN [c \in key |-> evt.cols[c]] ELSE Identity(evt))

\* One in `amount`, or `amount` hundredths of a percent.
SampleKeeps(evt, spec) ==
    IF spec.unit = "rate" THEN SampleBucket(evt, spec.key) % spec.amount = 0
    ELSE SampleBucket(evt, spec.key) % PercentScale < spec.amount

\* _stamp: the rule's id is recorded in raw once.
Stamp(before, after, a) ==
    IF a.stamp /\ after # before THEN [after EXCEPT !.marks = @ \cup {a.id}] ELSE after

Transform(a, evt) ==
    IF a.action = "mask" THEN Stamp(evt, ApplyMask(evt, a.spec), a)
    ELSE IF a.action = "route" THEN Stamp(evt, ApplyRoute(evt, a.spec), a)
    ELSE evt
=============================================================================
