------------------------------ MODULE Matching -------------------------------
(***************************************************************************)
(* How an event is matched: by detection rules and ingest actions, and by  *)
(* the data models of the CIM.                                             *)
(***************************************************************************)
EXTENDS Integers, Sequences, FiniteSets, SequencesExt, FiniteSetsExt, TLC

-----------------------------------------------------------------------------
(***************************************************************************)
(* app/detection/engine.py: the Sigma subset that detection rules and      *)
(* ingest actions share.                                                   *)
(*                                                                         *)
(* An event is [cols, raw, marks]: normalized columns and jsonb keys, each *)
(* mapped to a text, which is a sequence of words; the empty text stands   *)
(* for None and for "".  A field of a rule is [field, mods, expected], and *)
(* a selection is [fields, any]: an AND of fields, or a list, an OR.       *)
(***************************************************************************)
CONSTANTS FieldAliases,   \* rule field -> the column it means
          ProductVendors, \* logsource product -> vendors it covers
          Variants,       \* modifier -> word -> the words it stands for
          Networks,       \* network word -> the addresses in it
          Numbers         \* numeric word -> its number

Nothing == <<>>

\* flatten_event: columns first; a raw key never clobbers a column that is set.
FlattenEvent(evt) ==
    [k \in {c \in DOMAIN evt.cols : evt.cols[c] # Nothing} \cup DOMAIN evt.raw |->
        IF k \in DOMAIN evt.cols /\ evt.cols[k] # Nothing THEN evt.cols[k] ELSE evt.raw[k]]

Lookup(flat, name) ==
    IF name \in DOMAIN flat THEN flat[name]
    ELSE IF name \in DOMAIN FieldAliases /\ FieldAliases[name] \in DOMAIN flat
      THEN flat[FieldAliases[name]] ELSE Nothing

-----------------------------------------------------------------------------
MatchNumeric(x, e, op) ==
    /\ Len(x) = 1 /\ x[1] \in DOMAIN Numbers /\ e \in DOMAIN Numbers
    /\ LET a == Numbers[x[1]]
           b == Numbers[e]
       IN  \/ op = "lt" /\ a < b
           \/ op = "lte" /\ a <= b
           \/ op = "gt" /\ a > b
           \/ op = "gte" /\ a >= b

MatchCidr(x, e) == Len(x) = 1 /\ e \in DOMAIN Networks /\ x[1] \in Networks[e]

ExpandExpected(e, mods) ==
    LET used == mods \cap DOMAIN Variants
    IN  IF used = {} THEN {e} ELSE UNION {Variants[v][e] : v \in used}

MatchScalar(x, e, mods) ==
    IF "cidr" \in mods THEN MatchCidr(x, e)
    ELSE IF e = "null" THEN x = Nothing
    ELSE /\ x # Nothing
         /\ IF "contains" \in mods THEN e \in ToSet(x)
            ELSE IF "startswith" \in mods THEN e = Head(x)
            ELSE IF "endswith" \in mods THEN e = Last(x)
            ELSE x = <<e>>

\* `all` asks for every expected value; without it one is enough.
Combine(mods, expected, Holds(_)) ==
    IF "all" \in mods THEN \A e \in expected : Holds(e) ELSE \E e \in expected : Holds(e)

Comparisons == {"lt", "lte", "gt", "gte"}

EvalField(flat, f) ==
    LET x == Lookup(flat, f.field)
        Compared(e) == \E op \in f.mods \cap Comparisons : MatchNumeric(x, e, op)
        Plain(e) == \E w \in ExpandExpected(e, f.mods) : MatchScalar(x, w, f.mods)
        Same(e) == x # Nothing /\ Lookup(flat, e) = x
    IN  IF "exists" \in f.mods THEN (x # Nothing) = ("true" \in f.expected)
        ELSE IF "fieldref" \in f.mods THEN \E e \in f.expected : Same(e)
        ELSE IF f.mods \cap Comparisons # {} THEN Combine(f.mods, f.expected, Compared)
        ELSE Combine(f.mods, f.expected, Plain)

\* A bare string in a list is a keyword: it may be in any value.
KeywordMatch(flat, word) == \E k \in DOMAIN flat : word \in ToSet(flat[k])

EvalSelection(flat, sel) ==
    IF sel.any THEN \/ \E f \in sel.fields : EvalField(flat, f)
                    \/ \E w \in sel.keywords : KeywordMatch(flat, w)
               ELSE \A f \in sel.fields : EvalField(flat, f)

-----------------------------------------------------------------------------
(* The condition: a recursive descent over its tokens, here the function    *)
(* `at' from a level of binding and a token to [val, i], the value and the *)
(* next token.  Both operands of `or` and `and` are always read, so that   *)
(* the tokens of the second are consumed.  A name with a star is the token *)
(* <<"prefix", names it covers>>; others are <<"word", itself>>.           *)
End == <<"end", "">>
Peek(toks, i) == IF i \in DOMAIN toks THEN toks[i] ELSE End
IsWord(tok, w) == tok = <<"word", w>>
NumberWords == {"1", "2", "3"}
Quantity(w) == CHOOSE n \in 1..3 : ToString(n) = w

SelectionHolds(sel, name) == name \in DOMAIN sel /\ sel[name]

QuantifyNames(qty, tok, sel) ==
    LET names == IF IsWord(tok, "them") THEN DOMAIN sel
                 ELSE IF tok[1] = "prefix" THEN tok[2] \cap DOMAIN sel
                 ELSE {tok[2]}
        hits == Cardinality({n \in names : SelectionHolds(sel, n)})
    IN  IF qty = "all" THEN names # {} /\ hits = Cardinality(names) ELSE hits >= Quantity(qty)

CondAtom(toks, sel, at, i) ==
    LET t == Peek(toks, i)
    IN  IF IsWord(t, "(")
          THEN LET inner == at[<<"or", i + 1>>]
               IN  [inner EXCEPT !.i = IF IsWord(Peek(toks, @), ")") THEN @ + 1 ELSE @]
        ELSE IF t[1] = "word" /\ t[2] \in NumberWords \cup {"all"} /\ IsWord(Peek(toks, i + 1), "of")
          THEN [val |-> QuantifyNames(t[2], Peek(toks, i + 2), sel), i |-> i + 3]
        ELSE [val |-> t[1] = "word" /\ SelectionHolds(sel, t[2]), i |-> i + 1]

CondNot(toks, sel, at, i) ==
    IF IsWord(Peek(toks, i), "not") THEN [at[<<"not", i + 1>>] EXCEPT !.val = ~@] ELSE CondAtom(toks, sel, at, i)

CondAnd(toks, at, first) ==
    IF IsWord(Peek(toks, first.i), "and") THEN [at[<<"and", first.i + 1>>] EXCEPT !.val = @ /\ first.val] ELSE first

\* A short-circuit would leave the second operand's tokens unread.
CondOrShort(toks, at, first) ==
    IF IsWord(Peek(toks, first.i), "or") /\ ~first.val
      THEN [at[<<"or", first.i + 1>>] EXCEPT !.val = @ \/ first.val] ELSE first

CondOr(toks, at, first) ==
    IF IsWord(Peek(toks, first.i), "or") THEN [at[<<"or", first.i + 1>>] EXCEPT !.val = @ \/ first.val] ELSE first

CondParse(toks, sel) ==
    LET at[x \in {"or", "and", "not"} \X (1..(Len(toks) + 1))] ==
            CASE x[1] = "or" -> CondOr(toks, at, at[<<"and", x[2]>>])
              [] x[1] = "and" -> CondAnd(toks, at, at[<<"not", x[2]>>])
              [] x[1] = "not" -> CondNot(toks, sel, at, x[2])
    IN  at[<<"or", 1>>].val

EvalCondition(toks, sel) ==
    IF toks = <<>> THEN DOMAIN sel # {} /\ \A n \in DOMAIN sel : sel[n]
                   ELSE CondParse(toks, sel)

-----------------------------------------------------------------------------
LogsourceMatches(ls, flat) ==
    LET Ok(field, want) == field \in DOMAIN flat /\ flat[field] = <<want>>
    IN  \A k \in DOMAIN ls :
          IF k = "product"
            THEN \/ Ok("product", ls[k])
                 \/ ls[k] \in DOMAIN ProductVendors /\ \E v \in ProductVendors[ls[k]] : Ok("vendor", v)
            ELSE Ok(IF k = "service" THEN "log_type" ELSE k, ls[k])

\* A rule bound to data models asks for one of them among the event's tags.
DatamodelsMatch(rule, tags) == rule.datamodels = {} \/ rule.datamodels \cap tags # {}

MatchRule(rule, flat, tags) ==
    /\ LogsourceMatches(rule.logsource, flat)
    /\ DatamodelsMatch(rule, tags)
    /\ EvalCondition(rule.condition,
                     [n \in DOMAIN rule.selections |-> EvalSelection(flat, rule.selections[n])])

-----------------------------------------------------------------------------
(***************************************************************************)
(* app/cim: the Common Information Model registry (spec.py, registry.py),  *)
(* the evaluator of membership (match.py) and its SQL counterpart and      *)
(* views (sql.py).                                                         *)
(*                                                                         *)
(* A document is a sequence of models [name, tag, clauses, fields]; a      *)
(* clause is a sequence of terms, a term [kind, name, paths, values] and a *)
(* field [name, kind].  Names are lower case.  An absent raw key is a null;*)
(* a raw key in Containers holds an object or an array.                    *)
(***************************************************************************)
CONSTANTS TermColumns,   \* columns a membership term may read
          FieldKinds,    \* what a field may be read from
          Containers,    \* raw keys whose value is not a scalar
          Stripped       \* padded word -> the word without its blanks

Identity2 == <<"id", "event_time">>
ViewPassthrough == <<"vendor", "product", "log_type", "severity", "message">>
Reserved == {"id", "event_time", "raw", "search_tsv", "cim_models"}

-----------------------------------------------------------------------------
(* registry.load: every model is valid, and every key finds one model.     *)
TermValid(t) ==
    /\ t.values # {}
    /\ \/ t.kind = "raw" /\ t.paths # <<>>
       \/ t.kind = "column" /\ t.name \in TermColumns

ClauseValid(c) == c # <<>> /\ \A i \in DOMAIN c : TermValid(c[i])

FieldValid(f) == f.name \notin Reserved /\ f.kind \in FieldKinds

ModelValid(m) ==
    /\ m.clauses # <<>> /\ \A i \in DOMAIN m.clauses : ClauseValid(m.clauses[i])
    /\ m.fields # <<>> /\ \A i \in DOMAIN m.fields : FieldValid(m.fields[i])
    /\ \A i, j \in DOMAIN m.fields : m.fields[i].name = m.fields[j].name => i = j

KeysOf(m) == {m.name, m.tag}

\* Tags alone, the check before names and tags shared a key space.
LoadableByTag(models) ==
    /\ models # <<>>
    /\ \A i \in DOMAIN models : ModelValid(models[i])
    /\ \A i, j \in DOMAIN models : i # j => models[i].tag # models[j].tag

Loadable(models) ==
    /\ models # <<>>
    /\ \A i \in DOMAIN models : ModelValid(models[i])
    /\ \A i, j \in DOMAIN models : i # j => KeysOf(models[i]) \cap KeysOf(models[j]) = {}

\* by_name: a display name wins over a tag; the first in order.
ByName(models, key) ==
    LET named == SelectSeq(models, LAMBDA m : m.name = key)
        tagged == SelectSeq(models, LAMBDA m : m.tag = key)
    IN  SubSeq(named \o tagged, 1, IF named \o tagged = <<>> THEN 0 ELSE 1)

\* _gate: the tags a rule is bound to, or nothing at all when a name is unknown.
GateTags(models, names) ==
    IF \E n \in names : ByName(models, n) = <<>> THEN {}
    ELSE {ByName(models, n)[1].tag : n \in names}

-----------------------------------------------------------------------------
(* match.py                                                                *)
TextOf(x) == [i \in DOMAIN x |-> IF x[i] \in DOMAIN Stripped THEN Stripped[x[i]] ELSE x[i]]

\* Any alternative that hits, rather than the first that holds a value.
RawAlternatives(raw, t) ==
    \E i \in DOMAIN t.paths :
        /\ t.paths[i] \in DOMAIN raw \ Containers
        /\ \E v \in t.values : TextOf(raw[t.paths[i]]) = <<v>>

\* _raw_value: the first alternative that is not null; a container has no text.
RawHit(raw, t) ==
    LET present == SelectSeq(t.paths, LAMBDA p : p \in DOMAIN raw)
    IN  /\ present # <<>>
        /\ present[1] \notin Containers
        /\ \E v \in t.values : TextOf(raw[present[1]]) = <<v>>

ColumnHit(cols, t) == \E v \in t.values : TextOf(cols[t.name]) = <<v>>

TermHit(t, evt) == IF t.kind = "raw" THEN RawHit(evt.raw, t) ELSE ColumnHit(evt.cols, t)

ModelMatches(m, evt) ==
    \E i \in DOMAIN m.clauses :
        /\ m.clauses[i] # <<>>
        /\ \A j \in DOMAIN m.clauses[i] : TermHit(m.clauses[i][j], evt)

TagsFor(models, evt) == {m.tag : m \in {n \in ToSet(models) : ModelMatches(n, evt)}}

-----------------------------------------------------------------------------
(* sql.py: the same rule as a predicate over a stored row, in the three-   *)
(* valued logic of SQL: TRUE and FALSE are {TRUE} and {FALSE}, NULL is {}. *)
SqlNot(a) == {~v : v \in a}
SqlAnd(a, b) == IF FALSE \in a \cup b THEN {FALSE} ELSE IF {} \in {a, b} THEN {} ELSE {TRUE}
SqlOr(a, b) == SqlNot(SqlAnd(SqlNot(a), SqlNot(b)))

TermSql(t, row) ==
    LET present == SelectSeq(t.paths, LAMBDA p : p \in DOMAIN row.raw)
        isNull == IF t.kind = "raw" THEN present = <<>> ELSE row.cols[t.name] = Nothing
        value == IF t.kind = "raw" THEN row.raw[present[1]] ELSE row.cols[t.name]
    IN  IF isNull THEN {} ELSE {\E v \in t.values : value = <<v>>}

ClauseSql(c, row) == FoldLeft(LAMBDA acc, t : SqlAnd(acc, TermSql(t, row)), {TRUE}, c)

MembershipSql(m, row) == FoldLeft(LAMBDA acc, c : SqlOr(acc, ClauseSql(c, row)), {FALSE}, m.clauses)

SqlTags(models, row) == {m.tag : m \in {n \in ToSet(models) : TRUE \in MembershipSql(n, row)}}

\* Passed through without a look at what the fields are called.
ViewColumnsAll(m) ==
    Identity2 \o [i \in DOMAIN m.fields |-> m.fields[i].name] \o ViewPassthrough \o <<"raw">>

\* create_view_ddl: a column of its own for each field, then the columns passed
\* through that no field has taken, then raw.
ViewColumns(m) ==
    LET own == Identity2 \o [i \in DOMAIN m.fields |-> m.fields[i].name]
    IN  own \o SelectSeq(ViewPassthrough, LAMBDA c : c \notin ToSet(own)) \o <<"raw">>
=============================================================================
