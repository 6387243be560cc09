-------------------------------- MODULE Loql ---------------------------------
(***************************************************************************)
(* The query language's compiler (app/loql/compiler.py): a pipeline        *)
(* compiled stage by stage into a chain of CTEs.  The compiler keeps a     *)
(* scope: cols, rawAvail, order, timeCols.  Beside it stands the relation  *)
(* that PostgreSQL makes of the emitted SQL, a sequence of columns         *)
(* [label, type], which the compiler never sees.                           *)
(*                                                                         *)
(* A stage the compiler refuses (LoqlError) ends the query and is no step. *)
(* A type is "ts", "agg" (an aggregate's) or "other"; a field read out of  *)
(* the raw event is (raw ->> %s), its key a parameter.                     *)
(***************************************************************************)
EXTENDS Integers, Sequences, FiniteSets, SequencesExt, FiniteSetsExt

CONSTANTS BaseCols,      \* the columns of events, in order
          ColumnAliases, \* what an analyst calls some of them
          Passthru,      \* the columns every row-level stage carries
          ModelCols,     \* the columns of a data model, in order
          Names, Labels,
          Lists,         \* of names
          Renamings,     \* lists of <<from, to>>
          AggLists,      \* lists of aggregates [arg, label]
          Exprs, MaxStages

NoColumn == "no column"
Unsorted == <<>>

Distinct(names) == \A i, j \in DOMAIN names : names[i] = names[j] => i = j
IsList(names) == names \in Seq(ToSet(names))

(* No column and no label is carried as well, and NoColumn is no identifier. *)
ASSUME LoqlAssumption ==
    /\ IsList(BaseCols) /\ IsList(ModelCols) /\ IsList(Passthru)
    /\ Distinct(BaseCols) /\ Distinct(ModelCols) /\ Distinct(Passthru)
    /\ (ToSet(BaseCols) \cup ToSet(ModelCols)) \cap ToSet(Passthru) = {}
    /\ {"raw", "search_tsv"} \subseteq ToSet(Passthru)
    /\ "event_time" \in ToSet(BaseCols) \cap ToSet(ModelCols)
    /\ \A names \in Lists : IsList(names) /\ NoColumn \notin ToSet(names)
    /\ \A pairs \in Renamings : IsList(pairs) /\ \A i \in DOMAIN pairs : pairs[i][2] # NoColumn
    /\ \A aggs \in AggLists : IsList(aggs) /\ \A i \in DOMAIN aggs : aggs[i].label # NoColumn
    /\ \A e \in Exprs :
          /\ IsList(e.atoms) /\ \A i \in DOMAIN e.atoms : e.atoms[i][1] \in {"name", "bound", "word"}
          /\ e.plain => Len(e.atoms) = 1 /\ e.atoms[1][1] = "name"
    /\ NoColumn \notin ToSet(BaseCols) \cup ToSet(ModelCols) \cup Names \cup Labels

VARIABLES cols, rawAvail, order, orderNamed, timeCols, model,
          params,                    \* in the order the compiler appends them
          placeholders, rel, below,  \* what the text says
          lastCte, ctes

scope == <<cols, rawAvail, order, orderNamed, timeCols, model>>
loqlVars == <<cols, rawAvail, order, orderNamed, timeCols, model, params, placeholders, rel, below, lastCte, ctes>>

-----------------------------------------------------------------------------
(* The relation a CTE makes of the one it reads.                           *)
TypeIn(r, c) == IF \E i \in DOMAIN r : r[i].label = c THEN r[CHOOSE i \in DOMAIN r : r[i].label = c].type ELSE "other"
Labelled(names) == [i \in DOMAIN names |-> [label |-> names[i], type |-> IF names[i] = "event_time" THEN "ts" ELSE "other"]]

RelationOf(cte, r) ==
    (IF cte.star THEN r ELSE <<>>)
    \o [i \in DOMAIN cte.items |-> [label |-> cte.items[i].label, type |-> cte.items[i].type]]
    \o (IF cte.carried THEN Labelled(Passthru) ELSE <<>>)

-----------------------------------------------------------------------------
LiveColumn(name) ==
    IF name \in ToSet(cols) THEN name
    ELSE IF name \in DOMAIN ColumnAliases /\ ColumnAliases[name] \in ToSet(cols) THEN ColumnAliases[name] ELSE NoColumn

\* A column a data model has replaced is refused, not looked up in raw.
Shadowed(name) ==
    model /\ (IF name \in DOMAIN ColumnAliases THEN ColumnAliases[name] ELSE name) \in ToSet(BaseCols)

Resolvable(name) == LiveColumn(name) # NoColumn \/ (rawAvail /\ ~Shadowed(name))

\* One term of the text: what it reads, its key if it has one, and what makes two
\* of them the same expression, the column or the placeholder.
Term(name, at) ==
    IF LiveColumn(name) # NoColumn
      THEN [reads |-> {LiveColumn(name)}, binds |-> <<>>, type |-> TypeIn(rel, LiveColumn(name)), id |-> <<"column", LiveColumn(name)>>]
      ELSE [reads |-> {"raw"}, binds |-> <<name>>, type |-> "other", id |-> <<"placeholder", ToString(at)>>]

BindsOf(terms) == FlattenSeq([i \in DOMAIN terms |-> terms[i].binds])
ReadsOf(terms) == UNION {terms[i].reads : i \in DOMAIN terms}

\* Terms in a row, the first at the given placeholder.
Terms(names, at) ==
    LET Keys(i) == Cardinality({j \in 1..(i - 1) : LiveColumn(names[j]) = NoColumn})
    IN  [i \in DOMAIN names |-> Term(names[i], at + Keys(i))]

As(term, label) == [label |-> label, type |-> term.type, reads |-> term.reads, binds |-> term.binds, id |-> term.id]
AsIs(c) == As(Term(c, 0), c)

RejectCarried(names) == rawAvail => names \cap ToSet(Passthru) = {}
TimeCol == IF LiveColumn("_time") \in timeCols THEN LiveColumn("_time") ELSE NoColumn
TimedBy(names) == {n \in ToSet(names) : LiveColumn(n) \in timeCols}
OrderReads == ToSet(order)

-----------------------------------------------------------------------------
(* Expressions: what one is made of, in the order of the text, a name, a    *)
(* literal that is bound, or a full-text word; `plain` when it is a name and *)
(* nothing else.                                                             *)
Atom(a) ==
    CASE a[1] = "name" -> [ok |-> Resolvable(a[2]), reads |-> Term(a[2], 0).reads, binds |-> Term(a[2], 0).binds]
      [] a[1] = "bound" -> [ok |-> TRUE, reads |-> {}, binds |-> <<a[2]>>]
      [] a[1] = "word" -> [ok |-> rawAvail, reads |-> {"search_tsv"}, binds |-> <<a[2]>>]

Expr(e) ==
    LET atoms == [i \in DOMAIN e.atoms |-> Atom(e.atoms[i])]
    IN  [ok |-> \A i \in DOMAIN atoms : atoms[i].ok, reads |-> ReadsOf(atoms), binds |-> BindsOf(atoms),
         type |-> IF e.plain THEN Term(e.atoms[1][2], 0).type ELSE "other"]

\* _is_time: the expression is the column.
IsTime(e) == e.plain /\ LiveColumn(e.atoms[1][2]) \in timeCols

-----------------------------------------------------------------------------
Plain(star, items, reads) ==
    [star |-> star, items |-> items, carried |-> ~star /\ rawAvail, grouped |-> FALSE, keys |-> {},
     reads |-> reads \cup ReadsOf(items) \cup (IF ~star /\ rawAvail THEN ToSet(Passthru) ELSE {})]

Grouping(items, reads, keys) ==
    [star |-> FALSE, items |-> items, carried |-> FALSE, grouped |-> TRUE, keys |-> keys,
     reads |-> reads \cup ReadsOf(items)]

\* _next: one more CTE, with its parameters as appended and as the text has them.
Emit(cte, bound, written) ==
    /\ ctes < MaxStages /\ ctes' = ctes + 1
    /\ lastCte' = cte /\ below' = rel /\ rel' = RelationOf(cte, rel)
    /\ params' = params \o bound /\ placeholders' = placeholders \o written

SetCols(names) == Distinct(names) /\ cols' = names

Filter(e) ==
    /\ Expr(e).ok
    /\ Emit(Plain(TRUE, <<>>, Expr(e).reads), Expr(e).binds, Expr(e).binds)
    /\ UNCHANGED scope

SourceRelation == Labelled(BaseCols \o Passthru)

LoqlInit ==
    /\ rawAvail = TRUE /\ order = Unsorted /\ orderNamed = FALSE /\ timeCols = {"event_time"}
    /\ model \in BOOLEAN /\ cols = IF model THEN ModelCols ELSE BaseCols
    /\ params = IF model THEN <<"tag">> ELSE <<>>
    /\ placeholders = params
    /\ rel = Labelled(cols \o Passthru) /\ below = SourceRelation
    /\ lastCte = [star |-> FALSE, items |-> <<>>, carried |-> TRUE, grouped |-> FALSE, keys |-> {}, reads |-> ToSet(BaseCols)]
    /\ ctes = 0

Where == \E e \in Exprs : Filter(e)

\* A column overwritten where it stands, or added behind the others.
AddColumn(name, item, bound) ==
    /\ RejectCarried({name})
    /\ IF name \in ToSet(cols)
         THEN LET items == [i \in DOMAIN cols |-> IF cols[i] = name THEN item ELSE AsIs(cols[i])]
              IN  Emit(Plain(FALSE, items, {}), bound, BindsOf(items)) /\ cols' = cols
         ELSE Emit(Plain(TRUE, <<item>>, {}), bound, item.binds) /\ cols' = Append(cols, name)

\* The type of an overwritten column left as it was.
EvalTimesKept(name, e) == IF IsTime(e) THEN timeCols \cup {name} ELSE timeCols

EvalTimes(name, e) == IF IsTime(e) THEN timeCols \cup {name} ELSE timeCols \ {name}

Eval ==
    \E name \in Labels, e \in Exprs :
        /\ Expr(e).ok
        /\ AddColumn(name, [label |-> name, type |-> Expr(e).type, reads |-> Expr(e).reads, binds |-> Expr(e).binds, id |-> NoColumn],
                     Expr(e).binds)
        /\ timeCols' = EvalTimes(name, e)
        /\ UNCHANGED <<rawAvail, order, orderNamed, model>>

\* An order the analyst asked for is not dropped, it is an error.
KeepsOrder(kept) == OrderReads \subseteq ToSet(kept) \/ ~orderNamed

OrderAfter(kept) == IF OrderReads \subseteq ToSet(kept) THEN order ELSE Unsorted

Dropping(names, drop) ==
    LET f[i \in 0..Len(names)] ==
            IF i = 0 THEN <<>> ELSE IF names[i] \in drop THEN f[i - 1] ELSE Append(f[i - 1], names[i])
    IN  f[Len(names)]

Fields ==
    \E names \in Lists \ {<<>>}, remove \in BOOLEAN :
        LET drop == {IF LiveColumn(n) = NoColumn THEN n ELSE LiveColumn(n) : n \in ToSet(names)}
            keep == IF remove THEN Dropping(cols, drop)
                    ELSE [i \in DOMAIN names |-> IF LiveColumn(names[i]) = NoColumn THEN names[i] ELSE LiveColumn(names[i])]
            items == [i \in DOMAIN keep |-> As(Term(keep[i], 0), keep[i])]
        IN  /\ keep # <<>> /\ \A i \in DOMAIN keep : Resolvable(keep[i])
            /\ RejectCarried(ToSet(keep)) /\ KeepsOrder(keep)
            /\ order' = OrderAfter(keep)
            /\ Emit(Plain(FALSE, items, {}), BindsOf(items), BindsOf(items))
            /\ SetCols(keep) /\ timeCols' = timeCols \cap ToSet(keep)
            /\ UNCHANGED <<rawAvail, orderNamed, model>>

\* The column's new label: the last that is asked for.
Relabel(pairs, c) ==
    LET mine == {i \in DOMAIN pairs : LiveColumn(pairs[i][1]) = c}
    IN  IF mine = {} THEN c ELSE pairs[Max(mine)][2]

\* The sort key's old label.
ReorderNothing(pairs) == order
Reorder(pairs) == [i \in DOMAIN order |-> Relabel(pairs, order[i])]

Rename ==
    \E pairs \in Renamings :
        LET renamed == [i \in DOMAIN cols |-> Relabel(pairs, cols[i])]
            items == [i \in DOMAIN cols |-> As(Term(cols[i], 0), renamed[i])]
            sources == {LiveColumn(pairs[i][1]) : i \in DOMAIN pairs}
        IN  /\ NoColumn \notin sources /\ RejectCarried({Relabel(pairs, c) : c \in sources})
            /\ Emit(Plain(FALSE, items, {}), <<>>, BindsOf(items))
            /\ SetCols(renamed) /\ timeCols' = {Relabel(pairs, c) : c \in timeCols}
            /\ order' = Reorder(pairs)
            /\ UNCHANGED <<rawAvail, orderNamed, model>>

AllLive(names) == \A i \in DOMAIN names : LiveColumn(names[i]) # NoColumn
LiveOf(names) == [i \in DOMAIN names |-> LiveColumn(names[i])]

Sort ==
    \E names \in Lists \ {<<>>} :
        /\ AllLive(names)
        /\ order' = LiveOf(names) /\ orderNamed' = TRUE
        /\ Emit(Plain(TRUE, <<>>, ToSet(LiveOf(names))), <<>>, <<>>)
        /\ UNCHANGED <<cols, rawAvail, timeCols, model>>

Head1 == Emit(Plain(TRUE, <<>>, OrderReads), <<>>, <<>>) /\ UNCHANGED scope

Dedup ==
    \E names \in Lists \ {<<>>} :
        /\ AllLive(names)
        /\ Emit(Plain(TRUE, <<>>, OrderReads \cup ToSet(LiveOf(names))), <<>>, <<>>)
        /\ UNCHANGED scope

-----------------------------------------------------------------------------
\* An aggregate over one field, or count(*) when it has none.
AggItem(arg, label) ==
    [label |-> label, type |-> "agg", id |-> NoColumn,
     reads |-> IF arg = NoColumn THEN {} ELSE Term(arg, 0).reads,
     binds |-> IF arg = NoColumn THEN <<>> ELSE Term(arg, 0).binds]
AggItems(aggs) == [i \in DOMAIN aggs |-> AggItem(aggs[i].arg, aggs[i].label)]
AggLabels(aggs) == [i \in DOMAIN aggs |-> aggs[i].label]
AllResolvable(names) == \A i \in DOMAIN names : Resolvable(names[i])
AggsResolvable(aggs) == \A i \in DOMAIN aggs : aggs[i].arg = NoColumn \/ Resolvable(aggs[i].arg)

\* The keys of the GROUP BY appended before those of the aggregates it follows.
StatsBoundEarly(by, aggs, keys) == BindsOf(by) \o BindsOf(keys) \o BindsOf(aggs)
StatsBound(by, aggs, keys) == BindsOf(by) \o BindsOf(aggs) \o BindsOf(keys)

\* Carried columns still offered after the rows are gone.
StatsKeepingRaw == rawAvail' = rawAvail /\ orderNamed' = FALSE /\ UNCHANGED model

Aggregated == rawAvail' = FALSE /\ orderNamed' = FALSE /\ UNCHANGED model

KeyItems(by, at) == [i \in DOMAIN by |-> As(Terms(by, at)[i], by[i])]

Stats ==
    \E by \in Lists, aggs \in AggLists :
        LET items == KeyItems(by, Len(params) + 1)
            added == AggItems(aggs)
            keys == Terms(by, Len(params) + Len(BindsOf(items)) + Len(BindsOf(added)) + 1)
            names == by \o AggLabels(aggs)
        IN  /\ AllResolvable(by) /\ AggsResolvable(aggs)
            /\ Emit(Grouping(items \o added, ReadsOf(keys), {keys[i].id : i \in DOMAIN keys}),
                    StatsBound(items, added, keys), BindsOf(items) \o BindsOf(added) \o BindsOf(keys))
            /\ SetCols(names)
            /\ timeCols' = (timeCols \cap ToSet(names)) \cup TimedBy(by)
            /\ order' = Unsorted /\ Aggregated

Bucket(c, label) == [label |-> label, type |-> "ts", reads |-> {c}, binds |-> <<"span">>, id |-> <<"column", label>>]

\* The keys are the ordinals of the first items.
Timechart ==
    \E by \in {l \in Lists : Len(l) <= 1}, aggs \in AggLists :
        LET keys == <<Bucket(TimeCol, "_time")>> \o KeyItems(by, Len(params) + 2)
            items == keys \o AggItems(aggs)
        IN  /\ TimeCol # NoColumn
            /\ AllResolvable(by) /\ AggsResolvable(aggs)
            /\ Emit(Grouping(items, {}, {keys[i].id : i \in DOMAIN keys}), BindsOf(items), BindsOf(items))
            /\ SetCols(<<"_time">> \o by \o AggLabels(aggs))
            /\ timeCols' = {"_time"}
            /\ order' = <<"_time">> /\ Aggregated

Bin ==
    \E field \in {"_time", "event_time"}, label \in Labels \cup {"_time", "event_time"} :
        /\ TimeCol # NoColumn
        /\ AddColumn(label, Bucket(TimeCol, label), <<"span">>)
        /\ timeCols' = timeCols \cup {label}
        /\ UNCHANGED <<rawAvail, order, orderNamed, model>>

\* `by` is written twice: selected, and in the window that percent is taken over.
Top ==
    \E field \in Names, by \in Lists :
        LET all == <<field>> \o by
            items == KeyItems(all, Len(params) + 1)
            over == Terms(by, Len(params) + Len(BindsOf(items)) + 1)
            added == <<AggItem(NoColumn, "count"), [AggItem(NoColumn, "percent") EXCEPT !.reads = ReadsOf(over)]>>
            names == all \o <<"count", "percent">>
        IN  /\ AllResolvable(all)
            /\ Emit(Grouping(items \o added, {}, {items[i].id : i \in DOMAIN items}),
                    BindsOf(items) \o BindsOf(over), BindsOf(items) \o BindsOf(over))
            /\ SetCols(names)
            /\ timeCols' = (timeCols \cap ToSet(names)) \cup TimedBy(all)
            /\ order' = <<"count">> /\ Aggregated

LoqlNext == Where \/ Eval \/ Fields \/ Rename \/ Sort \/ Head1 \/ Dedup \/ Stats \/ Timechart \/ Bin \/ Top
LoqlSpec == LoqlInit /\ [][LoqlNext]_loqlVars

-----------------------------------------------------------------------------
Answering(r, c) == {i \in DOMAIN r : r[i].label = c}

(* The scope is the relation: what the compiler believes it can name is what *)
(* the emitted SQL has, each name once (compiler.py, _set_cols).             *)
ScopeIsTheRelation ==
    /\ Len(rel) = Cardinality({rel[i].label : i \in DOMAIN rel})
    /\ {rel[i].label : i \in DOMAIN rel} = ToSet(cols) \cup (IF rawAvail THEN ToSet(Passthru) ELSE {})

(* Every name a CTE reads, and the final SELECT and ORDER BY, is answered by *)
(* exactly one column below it: no 42702 and no 42703 at execution, which    *)
(* would read as the analyst's mistake (compiler.py, module docstring).      *)
EveryNameResolves ==
    /\ \A c \in lastCte.reads : Cardinality(Answering(below, c)) = 1
    /\ \A c \in OrderReads : Cardinality(Answering(rel, c)) = 1

(* A column compared as a time is one: nothing but a timestamp, or an        *)
(* aggregate given the name of one, is in time_cols.                         *)
TimeColsAreTimestamps == \A c \in timeCols : TypeIn(rel, c) \in {"ts", "agg"}

(* The parameters are appended in the order their placeholders stand in the  *)
(* text, so that each value is bound to its own (compiler.py, self.params).  *)
PlaceholdersInOrder == params = placeholders

(* A query means its text: every pipeline compiles to a text whose names     *)
(* resolve, whose times are times and whose values stand by their own        *)
(* placeholders (compiler.py, the scope of _Compiler.__init__).              *)
QueriesMeanTheirText == ScopeIsTheRelation /\ EveryNameResolves /\ TimeColsAreTimestamps /\ PlaceholdersInOrder

(* Fields no column exists for can be grouped by (docs/LOQL.md, "stats count *)
(* by eventName"): what a grouping selects is an aggregate or one of its     *)
(* keys, and a key read from raw is only itself under one placeholder.       *)
GroupedOrAggregated ==
    lastCte.grouped => \A i \in DOMAIN lastCte.items : lastCte.items[i].type = "agg" \/ lastCte.items[i].id \in lastCte.keys
=============================================================================
