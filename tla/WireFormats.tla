----------------------------- MODULE WireFormats -----------------------------
(***************************************************************************)
(* How what arrives is read: what the receivers cut into messages, records *)
(* and envelopes (syslog over TCP, flow packets, HEC bodies), and the text *)
(* of a query.                                                             *)
(***************************************************************************)
EXTENDS Integers, Sequences, SequencesExt, FiniteSets

-----------------------------------------------------------------------------
(***************************************************************************)
(* How the syslog receiver cuts a TCP stream into messages and what becomes *)
(* of each (receivers/syslog.py).  A byte is a digit, " ", "<", "nl" or any *)
(* other word.                                                             *)
(***************************************************************************)
CONSTANTS
    MaxMsg,         \* _MAX_MSG
    ParserFormats,  \* PARSERS
    SyslogFormat,   \* the setting: a format or "auto"
    Detects         \* what detect_format recognises: first byte -> format

Digits == [d \in {"0", "1", "2", "3", "9"} |-> CASE d = "0" -> 0 [] d = "1" -> 1 [] d = "2" -> 2 [] d = "3" -> 3 [] OTHER -> 9]

\* _OCTET_RE: the length of the digits before a space, or 0.
DigitRun(buffer) ==
    LET runs == {n \in 1..Len(buffer) - 1 : buffer[n + 1] = " " /\ \A i \in 1..n : buffer[i] \in DOMAIN Digits}
    IN  IF runs = {} THEN 0 ELSE CHOOSE n \in runs : TRUE

Count(buffer, n) == FoldLeft(LAMBDA sum, d : 10 * sum + Digits[d], 0, SubSeq(buffer, 1, n))

\* Whatever follows the count.
IsCountedByNumber(buffer) == DigitRun(buffer) > 0

\* A count, and a priority right after it.
IsCounted(buffer) ==
    LET n == DigitRun(buffer) IN n > 0 /\ Len(buffer) > n + 1 /\ buffer[n + 2] = "<"

\* Where the first message of a buffer starts and ends and the next begins; <<>> if it is not all there.
FirstMessage(buffer) ==
    IF IsCounted(buffer)
    THEN LET start == DigitRun(buffer) + 1
             end == start + Count(buffer, start - 1)
         IN  IF Len(buffer) < end THEN <<>> ELSE <<start + 1, end, end + 1>>
    ELSE LET ends == {i \in 1..Len(buffer) : buffer[i] = "nl"}
         IN  IF ends = {} THEN <<>>
             ELSE LET i == CHOOSE j \in ends : \A k \in ends : j <= k IN <<1, i - 1, i + 1>>

RECURSIVE IterTcpMessages(_)
IterTcpMessages(buffer) ==
    LET m == FirstMessage(buffer)
    IN  IF m = <<>> THEN [messages |-> <<>>, rest |-> buffer]
        ELSE LET later == IterTcpMessages(SubSeq(buffer, m[3], Len(buffer)))
             IN  [later EXCEPT !.messages = <<SubSeq(buffer, m[1], m[2])>> \o @]

\* resolve_format: <<>> when a configured format does not exist.
ResolveFormat(text) ==
    IF SyslogFormat # "auto" THEN IF SyslogFormat \in ParserFormats THEN <<SyslogFormat>> ELSE <<>>
    ELSE <<IF text[1] \in DOMAIN Detects THEN Detects[text[1]] ELSE "generic_syslog">>

Blank2 == {" ", "nl"}
RECURSIVE Trimmed(_)
Trimmed(raw) ==
    IF raw # <<>> /\ Head(raw) \in Blank2 THEN Trimmed(Tail(raw))
    ELSE IF raw # <<>> /\ Last(raw) \in Blank2 THEN Trimmed(Front(raw)) ELSE raw

\* ingest_message: nothing of a blank message, and nothing of one its parser cannot read.
IngestMessage(raw, unparsable) ==
    LET text == Trimmed(raw)
    IN  IF text = <<>> THEN <<>> ELSE IF ResolveFormat(text) = <<>> \/ text \in unparsable THEN <<>>
        ELSE <<<<text, ResolveFormat(text)[1]>>>>

Buffered(buffer, data) == buffer \o data

\* A backlog above the limit stays.
KeepBacklog(rest) == rest

\* A sender that never frames its stream.
DropBacklog(rest) == IF Len(rest) > MaxMsg THEN <<>> ELSE rest

\* _handle_tcp: what one connection submits, read by read.
HandleTcp(reads, unparsable) ==
    FoldLeft(LAMBDA got, data :
               LET cut == IterTcpMessages(Buffered(got.rest, data))
               IN  [submitted |-> got.submitted \o FlattenSeq([i \in DOMAIN cut.messages |-> IngestMessage(cut.messages[i], unparsable)]),
                    rest |-> DropBacklog(cut.rest)],
             [submitted |-> <<>>, rest |-> <<>>], reads)

-----------------------------------------------------------------------------
(***************************************************************************)
(* app/receivers/netflow.py: how the bytes of a flow packet are read.      *)
(*                                                                         *)
(* A data set is a sequence of bytes, a template set one of 16-bit words;  *)
(* a field is [ie, length], its length Varying when each record says it.   *)
(* An offset counts what has been read.                                    *)
(***************************************************************************)
CONSTANTS Varying,            \* 0xFFFF as a field's length
          Escape, ByteBase,   \* 255 and 256
          Enterprise,         \* 0x8000: the element is followed by a vendor
          FirstDataId,        \* 256
          MaxTemplateFields, MaxTemplateLen,
          IpfixVersion, HeaderSize, MaxBacklog,
          MinTime, MaxTime,
          NoTime              \* None

-----------------------------------------------------------------------------
(* Data records.                                                           *)
Short == [at |-> 0, len |-> -1]

\* The escaped length read as one byte.
SpanUnescaped(body, i, f) ==
    IF f.length # Varying THEN [at |-> i, len |-> f.length]
    ELSE IF i >= Len(body) THEN Short
    ELSE [at |-> i + 1, len |-> body[i + 1]]

\* Where the field at offset i begins and how long it is.
Span(body, i, f) ==
    IF f.length # Varying THEN [at |-> i, len |-> f.length]
    ELSE IF i >= Len(body) THEN Short
    ELSE IF body[i + 1] # Escape THEN [at |-> i + 1, len |-> body[i + 1]]
    ELSE IF i + 3 > Len(body) THEN Short
    ELSE [at |-> i + 3, len |-> body[i + 2] * ByteBase + body[i + 3]]

\* _read_record: the raw values, an empty one being left out, and the offset after them.
ReadRecord(body, start, fields) ==
    FoldLeft(LAMBDA r, f :
               LET s == Span(body, r.at, f)
               IN  IF ~r.ok \/ s.len < 0 \/ s.at + s.len > Len(body) THEN [r EXCEPT !.ok = FALSE]
                   ELSE [ok |-> TRUE, at |-> s.at + s.len,
                         values |-> IF s.len = 0 THEN r.values
                                    ELSE Append(r.values, <<f.ie, SubSeq(body, s.at + 1, s.at + s.len)>>)],
             [ok |-> TRUE, at |-> start, values |-> <<>>], fields)

RECURSIVE RecordsFrom(_, _, _, _)
RecordsFrom(body, i, fields, budget) ==
    LET r == ReadRecord(body, i, fields)
    IN  IF budget = 0 \/ i >= Len(body) \/ ~r.ok \/ r.at <= i THEN <<>>
        ELSE <<r.values>> \o RecordsFrom(body, r.at, fields, budget - 1)

\* _decode_data_set
DecodeDataSet(body, fields, budget) == RecordsFrom(body, 0, fields, budget)

\* What an exporter writes: a value below the escape has a one-byte length.
FieldBytes(f, value) ==
    IF f.length # Varying THEN value
    ELSE IF Len(value) < Escape THEN <<Len(value)>> \o value
    ELSE <<Escape, Len(value) \div ByteBase, Len(value) % ByteBase>> \o value

\* The shortest record of a template.
LeastLen(fields) == FoldLeft(LAMBDA n, f : n + IF f.length = Varying THEN 1 ELSE f.length, 0, fields)

-----------------------------------------------------------------------------
(* Template sets.                                                          *)
RecordLen(fields) ==
    IF \E i \in DOMAIN fields : fields[i].length = Varying THEN -1
    ELSE FoldLeft(LAMBDA n, f : n + f.length, 0, fields)

RECURSIVE ReadSpecs(_, _, _, _, _)
\* _read_field_specs: the fields, the offset, and whether all of them were there.
ReadSpecs(body, i, count, ipfix, fields) ==
    LET vendor == ipfix /\ body[i + 1] >= Enterprise
        width == IF vendor THEN 4 ELSE 2
        ie == IF vendor THEN body[i + 1] - Enterprise ELSE body[i + 1]
    IN  IF count = 0 THEN [fields |-> fields, at |-> i, complete |-> TRUE]
        ELSE IF i + 2 > Len(body) \/ i + width > Len(body) THEN [fields |-> fields, at |-> i, complete |-> FALSE]
        ELSE ReadSpecs(body, i + width, count - 1, ipfix, Append(fields, [ie |-> ie, length |-> body[i + 2]]))

NothingLearned == [templates |-> <<>>, malformed |-> 0]
Learned(l, id, fields) == [l EXCEPT !.templates = Append(@, <<id, fields>>)]
Malformed(l) == [l EXCEPT !.malformed = @ + 1]

RECURSIVE TemplatesFrom(_, _, _, _)
\* A template too long ends the set.
TemplatesUntilLong(body, i, ipfix, l) ==
    LET specs == ReadSpecs(body, i + 2, body[i + 2], ipfix, <<>>)
    IN  IF i + 2 > Len(body) \/ body[i + 1] < FirstDataId THEN l
        ELSE IF body[i + 2] \notin 1..MaxTemplateFields \/ ~specs.complete
                \/ RecordLen(specs.fields) \notin ({-1} \cup 1..MaxTemplateLen) THEN Malformed(l)
        ELSE TemplatesFrom(body, specs.at, ipfix, Learned(l, body[i + 1], specs.fields))

\* _learn_templates: an impossible count ends the set, an unusable length only the template.
TemplatesFrom(body, i, ipfix, l) ==
    LET specs == ReadSpecs(body, i + 2, body[i + 2], ipfix, <<>>)
    IN  IF i + 2 > Len(body) \/ body[i + 1] < FirstDataId THEN l
        ELSE IF body[i + 2] \notin 1..MaxTemplateFields \/ ~specs.complete THEN Malformed(l)
        ELSE TemplatesFrom(body, specs.at, ipfix,
                IF RecordLen(specs.fields) \in {-1} \cup 1..MaxTemplateLen
                  THEN Learned(l, body[i + 1], specs.fields) ELSE Malformed(l))

RECURSIVE OptionsFrom(_, _, _, _)
\* Version 9 counts taken for specifiers.
OptionsInSpecifiers(body, i, ipfix, l) ==
    LET total == body[i + 2] + body[i + 3]
        specs == ReadSpecs(body, i + 3, IF ipfix THEN body[i + 2] ELSE total, ipfix, <<>>)
    IN  IF i + 3 > Len(body) \/ body[i + 1] < FirstDataId THEN l
        ELSE IF total \notin 1..MaxTemplateLen \/ ~specs.complete THEN Malformed(l)
        ELSE OptionsFrom(body, specs.at, ipfix, Learned(l, body[i + 1], specs.fields))

\* _learn_options_v9 counts bytes of specifiers, _learn_options_ipfix specifiers.
OptionsFrom(body, i, ipfix, l) ==
    LET total == body[i + 2] + body[i + 3]
        usable == IF ipfix THEN body[i + 2] \in 1..MaxTemplateFields /\ body[i + 3] <= body[i + 2]
                  ELSE /\ total \in 1..MaxTemplateLen /\ total \div 4 <= MaxTemplateFields
                       /\ body[i + 2] % 4 = 0 /\ body[i + 3] % 4 = 0
        specs == ReadSpecs(body, i + 3, IF ipfix THEN body[i + 2] ELSE total \div 4, ipfix, <<>>)
    IN  IF i + 3 > Len(body) \/ body[i + 1] < FirstDataId THEN l
        ELSE IF ~usable \/ ~specs.complete THEN Malformed(l)
        ELSE OptionsFrom(body, specs.at, ipfix, Learned(l, body[i + 1], specs.fields))

LearnedFrom(body, ipfix, options) ==
    IF options THEN OptionsFrom(body, 0, ipfix, NothingLearned) ELSE TemplatesFrom(body, 0, ipfix, NothingLearned)

-----------------------------------------------------------------------------
(* IPFIX over TCP: messages <<version, length, ...>> in a stream.          *)
RECURSIVE Framed(_, _)
Framed(messages, buffer) ==
    IF Len(buffer) < HeaderSize THEN [messages |-> messages, rest |-> buffer]
    ELSE IF buffer[1] # IpfixVersion \/ buffer[2] < HeaderSize THEN [messages |-> messages, rest |-> <<>>]
    ELSE IF Len(buffer) < buffer[2] THEN [messages |-> messages, rest |-> buffer]
    ELSE Framed(Append(messages, SubSeq(buffer, 1, buffer[2])), SubSeq(buffer, buffer[2] + 1, Len(buffer)))

\* What is left of a chunk is forgotten.
ReceivedAfresh(stream, chunk) ==
    LET next == Framed(<<>>, chunk) IN [messages |-> stream.messages \o next.messages, rest |-> next.rest]

\* _handle_tcp: one chunk more.
Received(stream, chunk) ==
    LET next == Framed(<<>>, stream.rest \o chunk)
    IN  [messages |-> stream.messages \o next.messages,
         rest |-> IF Len(next.rest) > MaxBacklog THEN <<>> ELSE next.rest]

ReceivedAll(chunks) == FoldLeft(Received, [messages |-> <<>>, rest |-> <<>>], chunks)

-----------------------------------------------------------------------------
(* The times of a flow.                                                    *)
\* _abs_epoch: the record's own clock, else the exporter's uptime since its boot.
AbsEpoch(own, switched, boot) ==
    IF own # NoTime THEN own ELSE IF switched # NoTime /\ boot # NoTime THEN boot + switched ELSE NoTime

SaneAsIs(epoch, fallback) == epoch

Sane(epoch, fallback) ==
    IF epoch = NoTime \/ epoch \in MinTime..MaxTime THEN epoch
    ELSE IF fallback \in MinTime..MaxTime THEN fallback ELSE NoTime

StampTimes(rec, boot, export) ==
    LET start == Sane(AbsEpoch(rec.start, rec.first, boot), export)
        end == Sane(AbsEpoch(rec.end, rec.last, boot), export)
    IN  [start |-> start, end |-> end,
         duration |-> IF start # NoTime /\ end # NoTime /\ end >= start THEN end - start ELSE NoTime]

-----------------------------------------------------------------------------
(***************************************************************************)
(* app/hec.py: how a request body is split into envelopes and what becomes *)
(* of one.  A body is a sequence of tokens: the JSON punctuation, the quote*)
(* "q", and words, which are text inside a string and nothing outside one. *)
(* An envelope is [shape, blank, sourcetype, fields, time]: the kind of its*)
(* event and whether anything is in it.                                    *)
(***************************************************************************)
CONSTANTS EnvelopeLimit,    \* MAX_ENVELOPES
          JsonDepth,        \* _MAX_JSON_DEPTH
          NeedsText, NeedsJson,
          Exact,            \* sourcetype -> format
          Within,           \* <<sourcetypes that contain the needle, format>>, in order
          Prefixed,         \* <<sourcetypes that begin so, format>>, in order
          Available,        \* formats that have a parser
          NoFormat          \* None

-----------------------------------------------------------------------------
(* JSON: a value at position i ends before End; 0 is a ValueError.         *)
ByteAt(t, i) == IF i \in DOMAIN t THEN t[i] ELSE "end"

StringEnd(t, i) ==
    LET quotes == {j \in i + 1..Len(t) : t[j] = "q"}
    IN  IF ByteAt(t, i) # "q" \/ quotes = {} THEN 0 ELSE 1 + CHOOSE j \in quotes : \A k \in quotes : j <= k

RECURSIVE ValueEnd(_, _), MembersEnd(_, _), ItemsEnd(_, _)
ValueEnd(t, i) ==
    CASE ByteAt(t, i) = "q" -> StringEnd(t, i)
      [] ByteAt(t, i) = "{" -> IF ByteAt(t, i + 1) = "}" THEN i + 2 ELSE MembersEnd(t, i + 1)
      [] ByteAt(t, i) = "[" -> IF ByteAt(t, i + 1) = "]" THEN i + 2 ELSE ItemsEnd(t, i + 1)
      [] OTHER -> 0

MembersEnd(t, i) ==
    LET k == StringEnd(t, i)
        v == IF k # 0 /\ ByteAt(t, k) = ":" THEN ValueEnd(t, k + 1) ELSE 0
    IN  IF v = 0 THEN 0 ELSE IF ByteAt(t, v) = "}" THEN v + 1 ELSE IF ByteAt(t, v) = "," THEN MembersEnd(t, v + 1) ELSE 0

ItemsEnd(t, i) ==
    LET v == ValueEnd(t, i)
    IN  IF v = 0 THEN 0 ELSE IF ByteAt(t, v) = "]" THEN v + 1 ELSE IF ByteAt(t, v) = "," THEN ItemsEnd(t, v + 1) ELSE 0

RECURSIVE ObjectsIn(_, _)
\* The objects of the array whose items begin at i.
ObjectsIn(t, i) ==
    LET v == ValueEnd(t, i)
    IN  (IF ByteAt(t, i) = "{" THEN <<SubSeq(t, i, v - 1)>> ELSE <<>>)
        \o (IF v # 0 /\ ByteAt(t, v) = "," THEN ObjectsIn(t, v + 1) ELSE <<>>)

\* util._exceeds_json_depth: brackets outside strings.
Depth(t) ==
    FoldLeft(LAMBDA s, c : IF c = "q" THEN [s EXCEPT !.quoted = ~@]
                           ELSE IF s.quoted THEN s
                           ELSE IF c \in {"{", "["} THEN [s EXCEPT !.now = @ + 1, !.most = IF s.now + 1 > @ THEN s.now + 1 ELSE @]
                           ELSE IF c \in {"}", "]"} /\ s.now > 0 THEN [s EXCEPT !.now = @ - 1] ELSE s,
             [quoted |-> FALSE, now |-> 0, most |-> 0], t).most

RECURSIVE SplitFrom(_, _, _)
\* The first error ends the body.
SplitToError(t, i, out) ==
    LET v == ValueEnd(t, i)
    IN  IF i > Len(t) \/ Len(out) >= EnvelopeLimit + 1 THEN out
        ELSE IF t[i] \in {" ", ","} THEN SplitFrom(t, i + 1, out)
        ELSE IF v = 0 THEN out
        ELSE SplitFrom(t, v, out \o (IF t[i] = "{" THEN <<SubSeq(t, i, v - 1)>>
                                     ELSE IF t[i] = "[" THEN ObjectsIn(t, i + 1) ELSE <<>>))

\* Bytes that do not decode are skipped to the next brace.
SplitFrom(t, i, out) ==
    LET v == ValueEnd(t, i)
        braces == {j \in i + 1..Len(t) : t[j] = "{"}
    IN  IF i > Len(t) \/ Len(out) >= EnvelopeLimit + 1 THEN out
        ELSE IF t[i] \in {" ", ","} THEN SplitFrom(t, i + 1, out)
        ELSE IF v = 0 THEN IF braces = {} THEN out ELSE SplitFrom(t, CHOOSE j \in braces : \A k \in braces : j <= k, out)
        ELSE SplitFrom(t, v, out \o (IF t[i] = "{" THEN <<SubSeq(t, i, v - 1)>>
                                     ELSE IF t[i] = "[" THEN ObjectsIn(t, i + 1) ELSE <<>>))

\* No more than the limit.
SplitToLimit(t) ==
    LET out == IF Depth(t) > JsonDepth THEN <<>> ELSE SplitFrom(t, 1, <<>>)
    IN  SubSeq(out, 1, IF Len(out) > EnvelopeLimit THEN EnvelopeLimit ELSE Len(out))

\* split_hec_envelopes, one over the limit as _parse_envelopes asks.
SplitEnvelopes(t) ==
    IF Depth(t) > JsonDepth THEN <<>>
    ELSE LET out == SplitFrom(t, 1, <<>>)
         IN  SubSeq(out, 1, IF Len(out) > EnvelopeLimit + 1 THEN EnvelopeLimit + 1 ELSE Len(out))

-----------------------------------------------------------------------------
(* Routing.                                                                *)
Blank3 == "blank"

\* format_for_sourcetype
FormatFor(sourcetype, default) ==
    LET inside == SelectSeq(Within, LAMBDA p : sourcetype \in p[1])
        leading == SelectSeq(Prefixed, LAMBDA p : sourcetype \in p[1])
        fmt == IF sourcetype \in DOMAIN Exact THEN Exact[sourcetype]
               ELSE IF inside # <<>> THEN inside[1][2]
               ELSE IF leading # <<>> THEN leading[1][2] ELSE NoFormat
    IN  IF sourcetype = Blank3 \/ fmt = NoFormat \/ fmt \notin Available THEN default ELSE fmt

NoEntry == [fmt |-> NoFormat, line |-> "none", time |-> Blank3]

\* Text goes to the parser its sourcetype names.
EntryByName(env) ==
    LET mapped == FormatFor(env.sourcetype, NoFormat)
        line == IF env.json THEN "json" ELSE "text"
    IN  IF env.shape = "object" THEN [fmt |-> FormatFor(env.sourcetype, "generic_json"), line |-> "record", time |-> env.time]
        ELSE IF env.blank THEN IF env.fields THEN [fmt |-> "generic_json", line |-> "record", time |-> env.time] ELSE NoEntry
        ELSE IF mapped # NoFormat THEN [fmt |-> mapped, line |-> line, time |-> Blank3]
        ELSE [fmt |-> "generic_json", line |-> "record", time |-> env.time]

\* envelope_entry: an object becomes a JSON record; text goes verbatim to a parser
\* that can read it, else into a record too.
EnvelopeEntry(env) ==
    LET named == FormatFor(env.sourcetype, "generic_json")
        mapped == FormatFor(env.sourcetype, NoFormat)
        readable == IF env.json THEN mapped \notin NeedsText ELSE mapped \notin NeedsJson
        record == [fmt |-> "generic_json", line |-> "record", time |-> env.time]
    IN  IF env.shape = "object" THEN [record EXCEPT !.fmt = IF named \in NeedsText THEN "generic_json" ELSE named]
        ELSE IF env.blank THEN IF env.fields THEN record ELSE NoEntry
        ELSE IF mapped # NoFormat /\ readable
          THEN [fmt |-> mapped, line |-> IF env.json THEN "json" ELSE "text", time |-> Blank3]
        ELSE record

\* raw_envelopes: the lines that are not blank, with the metadata of the query string.
RawEnvelopes(lines, params) ==
    LET texts == SelectSeq(lines, LAMBDA l : ~l.blank)
        taken == SubSeq(texts, 1, IF Len(texts) > EnvelopeLimit + 1 THEN EnvelopeLimit + 1 ELSE Len(texts))
    IN  [i \in DOMAIN taken |-> [shape |-> "string", blank |-> FALSE, json |-> taken[i].json, fields |-> FALSE,
                                 sourcetype |-> params.sourcetype, time |-> params.time]]

\* A batch for each run of one format.
GroupRuns(entries) ==
    FoldLeft(LAMBDA groups, e :
               IF e.fmt = NoFormat THEN groups
               ELSE IF groups # <<>> /\ Last(groups).fmt = e.fmt
                 THEN [groups EXCEPT ![Len(groups)].lines = Append(@, e)]
               ELSE Append(groups, [fmt |-> e.fmt, lines |-> <<e>>]),
             <<>>, entries)

\* group_envelopes: one batch a format, in the order of the first envelope of each.
GroupEntries(entries) ==
    FoldLeft(LAMBDA groups, e :
               IF e.fmt = NoFormat THEN groups
               ELSE IF \E i \in DOMAIN groups : groups[i].fmt = e.fmt
                 THEN [i \in DOMAIN groups |-> IF groups[i].fmt = e.fmt THEN [groups[i] EXCEPT !.lines = Append(@, e)] ELSE groups[i]]
               ELSE Append(groups, [fmt |-> e.fmt, lines |-> <<e>>]),
             <<>>, entries)

-----------------------------------------------------------------------------
(***************************************************************************)
(* app/loql/parser.py: how a query is read, the recursive descent from     *)
(* tokens to an expression, and the rules that place a data model in a     *)
(* pipeline.                                                               *)
(*                                                                         *)
(* A token is <<kind, text>>.  A level takes the tokens, the place and the *)
(* depth reached so far and whether this is the search stage, where a bare *)
(* word is a full-text term; it answers [ok, tree, i, depth].              *)
(***************************************************************************)
CONSTANTS MaxNesting,  \* 80 in the code
          Arity        \* function -> how many arguments, or "any"

Tok(kind, val) == <<kind, val>>
Eof == Tok("EOF", "")
At(toks, i) == IF i \in DOMAIN toks THEN toks[i] ELSE Eof
Refused1(r) == [r EXCEPT !.ok = FALSE]
Parsed(tree, i, d) == [ok |-> TRUE, tree |-> tree, i |-> i, depth |-> d]
Comparisons1 == {"=", "<", ">"}

StartsAtom(t) ==
    \/ t[1] \in {"NUM", "STR", "LP", "ID"}
    \/ t[1] = "KW" /\ t[2] \in {"not", "true", "null"}

\* Parse is a call of one level by another, by the name of the level.
RECURSIVE Parse(_, _, _, _, _), OrTail(_, _, _), AndTail(_, _, _), AddTail(_, _), TermTail(_, _),
          ParseArgs(_, _, _), ValueList(_, _, _)

\* The tail of a level: what follows a parsed left operand joins it.
Joined(op, left, right) == IF left.ok THEN [right EXCEPT !.tree = <<op, left.tree, right.tree>>] ELSE left
Expect(r, kind, toks) == IF r.ok /\ At(toks, r.i)[1] = kind THEN [r EXCEPT !.i = @ + 1] ELSE Refused1(r)

-----------------------------------------------------------------------------
ParsePrimary(toks, i, d) ==
    LET t == At(toks, i)
        call == ParseArgs(toks, i + 2, d)
    IN  CASE t[1] \in {"NUM", "STR"} -> Parsed(<<"lit", t[2]>>, i + 1, d)
          [] t[1] = "KW" /\ t[2] \in {"true", "null"} -> Parsed(<<"lit", t[2]>>, i + 1, d)
          [] t[1] = "LP" -> Expect(Parse("or", toks, i + 1, d, FALSE), "RP", toks)
          [] t[1] = "ID" /\ At(toks, i + 1)[1] = "LP" ->
               IF t[2] \in DOMAIN Arity /\ call.ok /\ Arity[t[2]] \in {"any", ToString(Len(call.tree))}
                 THEN [call EXCEPT !.tree = <<"call", t[2], @>>] ELSE Refused1(call)
          [] t[1] \in {"ID", "KW"} /\ At(toks, i + 1)[1] # "LP" /\ t[2] \notin {"true", "null"} ->
               Parsed(<<"field", t[2]>>, i + 1, d)
          [] OTHER -> Refused1(Parsed(<<>>, i, d))

\* _func_call: the arguments up to the closing parenthesis.
ParseArgs(toks, i, d) ==
    IF At(toks, i)[1] = "RP" THEN Parsed(<<>>, i + 1, d)
    ELSE LET arg == Parse("or", toks, i, d, FALSE)
             rest == ParseArgs(toks, arg.i + 1, arg.depth)
         IN  IF ~arg.ok THEN arg
             ELSE IF At(toks, arg.i)[1] = "COMMA" /\ At(toks, arg.i + 1)[1] # "RP"
               THEN [rest EXCEPT !.tree = <<arg.tree>> \o @]
               ELSE Expect([arg EXCEPT !.tree = <<@>>], "RP", toks)

ParseFactor(toks, i, d) ==
    IF At(toks, i) = Tok("OP", "-")
      THEN LET r == Parse("factor", toks, i + 1, d, FALSE) IN [r EXCEPT !.tree = <<"neg", @>>]
      ELSE ParsePrimary(toks, i, d)

TermTail(toks, left) ==
    IF left.ok /\ At(toks, left.i) = Tok("OP", "*")
      THEN TermTail(toks, Joined("*", left, Parse("factor", toks, left.i + 1, left.depth, FALSE))) ELSE left

ParseTerm(toks, i, d) == TermTail(toks, Parse("factor", toks, i, d, FALSE))

AddTail(toks, left) ==
    IF left.ok /\ At(toks, left.i) \in {Tok("OP", "+"), Tok("OP", "-")}
      THEN AddTail(toks, Joined(At(toks, left.i)[2], left, Parse("term", toks, left.i + 1, left.depth, FALSE)))
      ELSE left

ParseAdditive(toks, i, d) == AddTail(toks, Parse("term", toks, i, d, FALSE))

\* _rhs: in a search a bare word is a value, elsewhere a field.
SearchValue(toks, i, d) ==
    IF At(toks, i)[1] \in {"STR", "NUM", "ID", "KW"} THEN Parsed(<<"lit", At(toks, i)[2]>>, i + 1, d)
    ELSE Refused1(Parsed(<<>>, i, d))

Rhs(toks, i, d, fts) == IF fts THEN SearchValue(toks, i, d) ELSE Parse("additive", toks, i, d, FALSE)

ValueList(toks, item, fts) ==
    IF item.ok /\ At(toks, item.i)[1] = "COMMA"
      THEN LET next == Rhs(toks, item.i + 1, item.depth, fts)
           IN  ValueList(toks, [next EXCEPT !.tree = Append(item.tree, @)], fts)
      ELSE Expect(item, "RP", toks)

InList(toks, left, fts) ==
    LET first == Rhs(toks, left.i + 2, left.depth, fts)
        all == ValueList(toks, [first EXCEPT !.tree = <<@>>], fts)
    IN  IF At(toks, left.i + 1)[1] # "LP" THEN Refused1(left) ELSE [all EXCEPT !.tree = <<"in", left.tree, @>>]

\* A bare word or number in a search is a full-text term.
FullText(r) == IF r.tree[1] \in {"field", "lit"} THEN [r EXCEPT !.tree = <<"fts", @[2]>>] ELSE r

ParseComparison(toks, i, d, fts) ==
    LET left == Parse("additive", toks, i, d, FALSE)
        t == At(toks, left.i)
    IN  IF ~left.ok THEN left
        ELSE IF (t[1] = "OP" /\ t[2] \in Comparisons1) \/ t = Tok("KW", "like")
          THEN Joined(t[2], left, Rhs(toks, left.i + 1, left.depth, fts))
        ELSE IF t = Tok("KW", "in") THEN InList(toks, left, fts)
        ELSE IF fts THEN FullText(left) ELSE left

\* _descend: the cap on nesting.
Descends(d) == d + 1 <= MaxNesting

ParseNot(toks, i, d, fts) ==
    LET r == Parse("not", toks, i + 1, d + 1, fts)
    IN  IF At(toks, i) # Tok("KW", "not") THEN ParseComparison(toks, i, d, fts)
        ELSE IF ~Descends(d) THEN Refused1(Parsed(<<>>, i, d))
        ELSE [r EXCEPT !.tree = <<"not", @>>, !.depth = @ - 1]

\* Without the implicit AND, as before.
AndTailExplicit(toks, left, fts) ==
    IF left.ok /\ At(toks, left.i) = Tok("KW", "and")
      THEN AndTail(toks, Joined("and", left, Parse("not", toks, left.i + 1, left.depth, fts)), fts) ELSE left

AndTail(toks, left, fts) ==
    IF left.ok /\ At(toks, left.i) = Tok("KW", "and")
      THEN AndTail(toks, Joined("and", left, Parse("not", toks, left.i + 1, left.depth, fts)), fts)
    ELSE IF left.ok /\ StartsAtom(At(toks, left.i))
      THEN AndTail(toks, Joined("and", left, Parse("not", toks, left.i, left.depth, fts)), fts)
      ELSE left

ParseAnd(toks, i, d, fts) == AndTail(toks, Parse("not", toks, i, d, fts), fts)

OrTail(toks, left, fts) ==
    IF left.ok /\ At(toks, left.i) = Tok("KW", "or")
      THEN OrTail(toks, Joined("or", left, Parse("and", toks, left.i + 1, left.depth, fts)), fts) ELSE left

\* The depth given back is not taken off again.
ParseOrLeaking(toks, i, d, fts) ==
    IF Descends(d) THEN OrTail(toks, Parse("and", toks, i, d + 1, fts), fts)
    ELSE Refused1(Parsed(<<>>, i, d))

ParseOr(toks, i, d, fts) ==
    IF Descends(d) THEN [OrTail(toks, Parse("and", toks, i, d + 1, fts), fts) EXCEPT !.depth = @ - 1]
    ELSE Refused1(Parsed(<<>>, i, d))

Parse(level, toks, i, d, fts) ==
    CASE level = "or" -> ParseOr(toks, i, d, fts)
      [] level = "and" -> ParseAnd(toks, i, d, fts)
      [] level = "not" -> ParseNot(toks, i, d, fts)
      [] level = "additive" -> ParseAdditive(toks, i, d)
      [] level = "term" -> ParseTerm(toks, i, d)
      [] level = "factor" -> ParseFactor(toks, i, d)

\* An expression that takes every token.
ParseExpr(toks, fts) ==
    LET r == Parse("or", toks, 1, 0, fts) IN IF r.ok /\ At(toks, r.i) = Eof THEN r ELSE Refused1(r)

-----------------------------------------------------------------------------
(* parse: a query is a source and its stages; `datamodel` is only a source.*)
(* A stage is <<command, argument>>, a search's argument "" when empty.    *)
\* Any leading search taken for an empty one.
SourceReplacedAnyway(stages, name) == Len(stages) = 1 /\ stages[1].model = ""

SourceReplaceable(stages, name) ==
    Len(stages) = 1 /\ stages[1].model = "" /\ stages[1].predicate = ""

AddStage(q, stage) ==
    IF ~q.ok THEN q
    ELSE IF stage[1] # "datamodel" THEN [q EXCEPT !.stages = Append(@, [command |-> stage[1], model |-> "", predicate |-> stage[2]])]
    ELSE IF SourceReplaceable(q.stages, stage[2]) THEN [q EXCEPT !.stages[1].model = stage[2], !.stages[1].predicate = ""]
    ELSE [q EXCEPT !.ok = FALSE]

\* `from datamodel:Name` and what is left of the first pipe, then the commands.
ParseQuery(prefix, predicate, commands) ==
    FoldLeft(AddStage, [ok |-> TRUE, stages |-> <<[command |-> "search", model |-> prefix, predicate |-> predicate]>>], commands)

-----------------------------------------------------------------------------
(* The way back, from a tree to its text with no parenthesis to spare.     *)
Binds == [or |-> 1, and |-> 2, not |-> 3, in |-> 4]
Strength(t) ==
    CASE t[1] \in DOMAIN Binds -> Binds[t[1]]
      [] t[1] \in Comparisons1 \cup {"like"} -> 4
      [] t[1] \in {"+", "-"} -> 5
      [] t[1] = "*" -> 6
      [] t[1] = "neg" -> 7
      [] OTHER -> 8

RECURSIVE Shown(_, _), ShownList(_)
ShownList(ts) == IF ts = <<>> THEN <<>>
                 ELSE Shown(ts[1], 1) \o (IF Len(ts) = 1 THEN <<>> ELSE <<Tok("COMMA", ",")>> \o ShownList(Tail(ts)))

\* `least` is the weakest operator that needs no parentheses here.
Shown(t, least) ==
    LET s == Strength(t)
        Infix(op, l, r) == Shown(t[2], l) \o <<op>> \o Shown(t[3], r)
        body == CASE t[1] \in {"or", "and", "like"} -> Infix(Tok("KW", t[1]), IF s = 4 THEN 5 ELSE s, s + 1)
                  [] t[1] \in Comparisons1 -> Infix(Tok("OP", t[1]), 5, 5)
                  [] t[1] \in {"+", "-", "*"} -> Infix(Tok("OP", t[1]), s, s + 1)
                  [] t[1] = "not" -> <<Tok("KW", "not")>> \o Shown(t[2], 3)
                  [] t[1] = "neg" -> <<Tok("OP", "-")>> \o Shown(t[2], 7)
                  [] t[1] = "in" -> Shown(t[2], 5) \o <<Tok("KW", "in"), Tok("LP", "(")>>
                                    \o ShownList(t[3]) \o <<Tok("RP", ")")>>
                  [] t[1] = "call" -> <<Tok("ID", t[2]), Tok("LP", "(")>> \o ShownList(t[3]) \o <<Tok("RP", ")")>>
                  [] t[1] = "lit" -> <<Tok("STR", t[2])>>
                  [] t[1] \in {"field", "fts"} -> <<Tok("ID", t[2])>>
    IN  IF s < least THEN <<Tok("LP", "(")>> \o body \o <<Tok("RP", ")")>> ELSE body

\* Every `and` left out that the next token lets one leave out.
WithoutAnd(toks) ==
    LET kept == {i \in DOMAIN toks : ~(toks[i] = Tok("KW", "and") /\ StartsAtom(At(toks, i + 1)) /\ At(toks, i + 1)[1] # "LP")}
    IN  [k \in 1..Cardinality(kept) |-> toks[CHOOSE i \in kept : Cardinality({j \in kept : j < i}) = k - 1]]
=============================================================================
