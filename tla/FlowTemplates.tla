--------------------------- MODULE FlowTemplates ---------------------------
(***************************************************************************)
(* The template cache of the NetFlow receiver (receivers/netflow.py)       *)
(* between exporters and the datagrams that lose their way.                *)
(*                                                                         *)
(* A packet is [from, seq, sets]; a set teaches a data or an options template,  *)
(* <<"teach", id, shape>>, carries records, <<"data", id, shape>> with the *)
(* shape its exporter meant, or cannot be walked past, <<"cut">>.  An      *)
(* exporter announces a shape before it uses it.                           *)
(***************************************************************************)
EXTENDS Integers, Sequences, FiniteSets, SequencesExt

CONSTANTS Exporters, TemplateIds,
          Shapes,         \* of data templates
          OptionsShape,   \* of an options template
          MaxTemplates,   \* _MAX_TEMPLATES
          MaxPackets, MaxRedefinitions

ASSUME FlowAssumption == MaxTemplates \in Nat \ {0}

VARIABLES meant, announced,   \* [exporter, id] -> shape; the keys announced so far
          inFlight,           \* packets sent, in order
          templates,          \* TemplateCache: its keys in order, the last used last, and their shapes
          redefined, evicted, unknownDrops, optionsSkipped,
          taught,             \* key -> the shape last walked past
          used,               \* the keys in the order they were last put or found
          changed,            \* a key was taught a shape other than its last
          flowRows,               \* identities of the flows stored
          flows,              \* what was decoded: exporter, packet and place in it
          misread,            \* a data set was not decoded as it was meant
          staleShape,         \* a data set was decoded with a shape its template no longer had
          disturbed,          \* a datagram was lost, repeated or overtook another
          packets, redefinitions

flowVars == <<meant, announced, inFlight, templates, redefined, evicted, unknownDrops, optionsSkipped,
              taught, used, changed, flowRows, flows, misread, staleShape, disturbed, packets, redefinitions>>

AllShapes == Shapes \cup {OptionsShape}
TemplateKeys == Exporters \X TemplateIds

FlowInit ==
    /\ meant \in [TemplateKeys -> AllShapes] /\ announced = {}
    /\ inFlight = <<>> /\ templates = [order |-> <<>>, shape |-> [k \in {} |-> OptionsShape]]
    /\ redefined = 0 /\ evicted = 0 /\ unknownDrops = 0 /\ optionsSkipped = 0
    /\ taught = [k \in {} |-> OptionsShape] /\ used = <<>>
    /\ changed = FALSE /\ flowRows = {} /\ flows = {} /\ misread = FALSE /\ staleShape = FALSE /\ disturbed = FALSE
    /\ packets = 0 /\ redefinitions = 0

-----------------------------------------------------------------------------
(* TemplateCache.                                                          *)
\* Template ids are unique to an exporter.
KeyOfId(exporter, id) == <<CHOOSE e \in Exporters : TRUE, id>>
KeyOf(exporter, id) == <<exporter, id>>

Without1(seq, i) == SubSeq(seq, 1, i - 1) \o SubSeq(seq, i + 1, Len(seq))

\* move_to_end, for keys without repetition.
MovedToEnd(keys, key) ==
    Append(IF key \in ToSet(keys) THEN Without1(keys, CHOOSE i \in DOMAIN keys : keys[i] = key) ELSE keys, key)

Has(cache, key) == key \in DOMAIN cache.shape

\* The keys that fit.
Fitting(keys) == IF Len(keys) > MaxTemplates THEN Tail(keys) ELSE keys

Holding(cache, keys, key, shape) ==
    [order |-> keys, shape |-> [k \in ToSet(keys) |-> IF k = key THEN shape ELSE cache.shape[k]]]

\* Only a data template that changes its fields is a redefinition.
PutCountingFields(w, key, shape) ==
    LET all == MovedToEnd(w.cache.order, key)
    IN  [w EXCEPT !.cache = Holding(@, Fitting(all), key, shape),
                  !.evicted = IF Fitting(all) # all THEN @ + 1 ELSE @,
                  !.redefined = IF Has(w.cache, key) /\ w.cache.shape[key] # shape /\ shape # OptionsShape
                                  THEN @ + 1 ELSE @]

\* A key keeps the template it has.
PutOnce(w, key, shape) ==
    IF Has(w.cache, key) THEN w
    ELSE [w EXCEPT !.cache = Holding(@, Fitting(MovedToEnd(@.order, key)), key, shape)]

\* TemplateCache.put
Put(w, key, shape) ==
    LET all == MovedToEnd(w.cache.order, key)
    IN  [w EXCEPT !.cache = Holding(@, Fitting(all), key, shape),
                  !.evicted = IF Fitting(all) # all THEN @ + 1 ELSE @,
                  !.redefined = IF Has(w.cache, key) /\ w.cache.shape[key] # shape THEN @ + 1 ELSE @]

\* Found where it lies.
FoundInPlace(cache, key) == cache

\* TemplateCache.get
Found(cache, key) == [cache EXCEPT !.order = MovedToEnd(@, key)]

-----------------------------------------------------------------------------
(* _walk_sets, one set; the history beside it is by exporter and id.       *)
Teach(w, exporter, id, shape) ==
    LET mine == <<exporter, id>>
    IN  [Put(w, KeyOf(exporter, id), shape) EXCEPT
            !.changed = @ \/ (mine \in DOMAIN w.taught /\ w.taught[mine] # shape),
            !.taught = [k \in DOMAIN @ \cup {mine} |-> IF k = mine THEN shape ELSE @[k]],
            !.used = MovedToEnd(@, mine)]

\* Numbered within its data set.
FlowIndexInSet(w) == 0

\* _index numbers the flows of a packet.
FlowIndex(w) == w.count

Decode(w, exporter, id, intended) ==
    LET key == KeyOf(exporter, id)
        shape == w.cache.shape[key]
        mine == <<exporter, id>>
        flow == shape # OptionsShape
    IN  IF ~Has(w.cache, key) THEN [w EXCEPT !.unknown = @ + 1]
        ELSE [w EXCEPT !.cache = Found(@, key), !.used = MovedToEnd(@, mine),
                       !.skipped = IF flow THEN @ ELSE @ + 1,
                       !.count = IF flow THEN @ + 1 ELSE @,
                       !.rows = IF flow THEN @ \cup {<<exporter, w.seq, FlowIndex(w), shape>>} ELSE @,
                       !.flows = IF flow THEN @ \cup {<<exporter, w.seq, w.at, shape>>} ELSE @,
                       !.misread = @ \/ shape # intended,
                       !.stale = @ \/ mine \notin DOMAIN w.taught \/ shape # w.taught[mine]]

Walk(w, exporter, set) ==
    CASE set[1] = "cut" -> [w EXCEPT !.cut = TRUE]
      [] set[1] = "teach" -> Teach(w, exporter, set[2], set[3])
      [] set[1] = "data" -> Decode(w, exporter, set[2], set[3])

Begun(p) ==
    [cache |-> templates, redefined |-> redefined, evicted |-> evicted, unknown |-> unknownDrops,
     skipped |-> optionsSkipped, taught |-> taught, used |-> used, changed |-> changed,
     rows |-> flowRows, flows |-> flows, seq |-> p.seq, at |-> 0, count |-> 0,
     misread |-> misread, stale |-> staleShape, cut |-> FALSE]

\* Past the n-th set, unless one before it cannot be walked past.
PastSet(w, p, n) == IF w.cut THEN w ELSE Walk([w EXCEPT !.at = n], p.from, p.sets[n])

Walked(p) ==
    LET after[n \in 0..Len(p.sets)] == IF n = 0 THEN Begun(p) ELSE PastSet(after[n - 1], p, n)
    IN  after[Len(p.sets)]

\* ingest_packet
Ingest(p) ==
    LET w == Walked(p)
    IN  /\ templates' = w.cache /\ redefined' = w.redefined /\ evicted' = w.evicted
        /\ unknownDrops' = w.unknown /\ optionsSkipped' = w.skipped /\ taught' = w.taught
        /\ used' = w.used /\ changed' = w.changed /\ flowRows' = w.rows /\ flows' = w.flows
        /\ misread' = w.misread /\ staleShape' = w.stale

KeepsReceiver == UNCHANGED <<templates, redefined, evicted, unknownDrops, optionsSkipped, taught, used, changed,
                             flowRows, flows, misread, staleShape>>

-----------------------------------------------------------------------------
(* The exporters and the network.                                          *)
Export ==
    \E e \in Exporters, id \in TemplateIds :
        LET teach == <<"teach", id, meant[<<e, id>>]>>
            data == <<"data", id, meant[<<e, id>>]>>
        IN  \E sets \in {<<teach>>, <<teach, data, data>>, <<<<"cut">>, teach>>} \cup
                        (IF <<e, id>> \in announced THEN {<<data>>} ELSE {}) :
                /\ packets < MaxPackets /\ packets' = packets + 1
                /\ inFlight' = Append(inFlight, [from |-> e, seq |-> packets, sets |-> sets])
                /\ announced' = IF sets[1] = teach THEN announced \cup {<<e, id>>} ELSE announced
                /\ KeepsReceiver /\ UNCHANGED <<meant, disturbed, redefinitions>>

\* An exporter is set up anew.
Redefine ==
    \E key \in TemplateKeys, shape \in AllShapes :
        /\ redefinitions < MaxRedefinitions /\ redefinitions' = redefinitions + 1
        /\ shape # meant[key] /\ meant' = [meant EXCEPT ![key] = shape]
        /\ announced' = announced \ {key}
        /\ KeepsReceiver /\ UNCHANGED <<inFlight, disturbed, packets>>

Arrive ==
    \E i \in DOMAIN inFlight, again \in BOOLEAN :
        /\ Ingest(inFlight[i])
        /\ inFlight' = IF again THEN inFlight ELSE Without1(inFlight, i)
        /\ packets' = IF again THEN packets + 1 ELSE packets
        /\ again => packets < MaxPackets
        /\ disturbed' = (disturbed \/ again \/ i # 1)
        /\ UNCHANGED <<meant, announced, redefinitions>>

Vanish ==
    \E i \in DOMAIN inFlight :
        /\ inFlight' = Without1(inFlight, i) /\ disturbed' = TRUE
        /\ KeepsReceiver /\ UNCHANGED <<meant, announced, packets, redefinitions>>

FlowNext == Export \/ Redefine \/ Arrive \/ Vanish

FlowSpec == FlowInit /\ [][FlowNext]_flowVars

-----------------------------------------------------------------------------
(* Datagrams that arrive once and in order are decoded as their exporter     *)
(* meant, and dropped only once a template has been evicted: neither a       *)
(* redefinition nor another exporter's template of the same id changes a     *)
(* flow (netflow.py, TemplateCache).                                         *)
InOrderIsExact == ~disturbed => ~misread /\ (evicted = 0 => unknownDrops = 0)

(* Whatever the network does, a data set is decoded with the template of its *)
(* exporter that arrived last; a template that was replaced, by one of       *)
(* options too, never decodes again (netflow.py, TemplateCache.put).         *)
LastTaughtDecodes == ~staleShape

(* A template that changes its shape shows in the counters, whatever kinds   *)
(* the two are of (netflow.py, TemplateCache.put): exporters whose flows     *)
(* vanish behind a redefinition do not look healthy.                         *)
ChangesShow == changed => redefined + evicted > 0

(* The cache holds the templates used last and no others: one exporter that  *)
(* goes through many ids evicts what is idle, not what is in use.            *)
RecentlyUsedStay ==
    LET keep == IF Len(used) < MaxTemplates THEN used ELSE SubSeq(used, Len(used) - MaxTemplates + 1, Len(used))
    IN  templates.order = keep

(* Each flow of a packet is a row of its own, though two of them are alike   *)
(* in every byte, and a datagram delivered again adds no row while its       *)
(* template is the one it was read with (netflow.py, _index).                *)
FlowsAreRows == Cardinality(flowRows) = Cardinality(flows)

(* A flow is read with the template its exporter last taught, kept while   *)
(* it is in use, and is one row.                                           *)
FlowsAreTrue ==
    /\ InOrderIsExact /\ LastTaughtDecodes /\ ChangesShow
    /\ RecentlyUsedStay /\ FlowsAreRows
=============================================================================
