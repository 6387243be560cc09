---------------------------- MODULE MCEventPath ----------------------------
(***************************************************************************)
(* What brings events in, what is done with each before it is stored, and   *)
(* what looks at them afterwards: machines that share the store and nothing *)
(* else, so a behaviour is of the one in focus and the others rest.         *)
(***************************************************************************)
EXTENDS EventPath, FlowTemplates, SqsTransport, HecEndpoint, GeoCache, Watchers,
        ResumingCollectors

VARIABLE focus

-----------------------------------------------------------------------------
(* Four deliveries, the first two the same bytes, one without a time.      *)

MCTextCols == {"vendor", "product", "log_type", "user_name", "host_name", "app", "rule_name", "message"}
MCInetCols == {"src_ip", "dst_ip"}
MCIntCols == {"src_port"}
Column == MCTextCols \cup MCInetCols \cup MCIntCols

Words == {"okta", "acme", "auth", "audit", "jdoe", "xjdoex", "mallory99", "xmallory99", "web1", "failed", "ping",
          "10.0.0.5", "100.64.0.7", "100.64.0.9", "443", "seen", "***", "token", "h1", "h2", "h3", "main", "u=mallory99"}
MCEmbeds == [w \in Words |-> IF w = "xjdoex" THEN {"jdoe"} ELSE IF w \in {"xmallory99", "u=mallory99"} THEN {"mallory99"} ELSE {}]
MCLongWords == {"mallory99", "xmallory99"}
MCHashOf == [w \in Words |-> IF w = "jdoe" THEN "h1" ELSE IF w = "mallory99" THEN "h2" ELSE "h3"]
MCPseudoOf == [w \in Words |-> IF w = "10.0.0.5" THEN "100.64.0.7" ELSE "100.64.0.9"]
MCNumericKeys == {"port"}
MCNetworks == [w \in {"10.0.0.0/8", "100.64.0.0/10"} |->
                 IF w = "10.0.0.0/8" THEN {"10.0.0.5"} ELSE {"100.64.0.7", "100.64.0.9"}]
MCNumbers == [w \in {"443"} |-> 443]
MCBucket(x) == IF "raw" \in DOMAIN x THEN Cardinality(DOMAIN x.raw) + Cardinality(x.marks)
               ELSE IF \E c \in DOMAIN x : x[c] = <<"web1">> THEN 1 ELSE 0
MCFieldAliases == [f \in {"user"} |-> "user_name"]
MCProductVendors == [p \in {"identity"} |-> {"okta"}]
MCVariants == [v \in {} |-> <<>>]
MCKvPairs == [w \in {"u=mallory99"} |-> <<"who", <<"mallory99">>>>]
MCStripped == [w \in {} |-> w]

Cols(given) == [c \in Column |-> IF c \in DOMAIN given THEN given[c] ELSE Nothing]
Login == [cols |-> Cols([vendor |-> <<"okta">>, log_type |-> <<"auth">>, user_name |-> <<"jdoe">>,
                         src_ip |-> <<"10.0.0.5">>, src_port |-> <<"443">>, message |-> <<"jdoe", "failed">>]),
          raw |-> [actor |-> <<"jdoe">>, note |-> <<"xjdoex", "token">>, port |-> <<"443">>],
          marks |-> {}, time |-> "t1"]
Custom == [cols |-> Cols([vendor |-> <<"acme">>, host_name |-> <<"web1">>, dst_ip |-> <<"10.0.0.5">>,
                          message |-> <<"xmallory99", "failed">>]),
           raw |-> [type |-> <<"acme">>, kv |-> <<"u=mallory99">>], marks |-> {}, time |-> "none"]
Ping == [cols |-> Cols([vendor |-> <<"okta">>, log_type |-> <<"auth">>, message |-> <<"ping">>]),
         raw |-> [port |-> <<"443">>], marks |-> {}, time |-> "t2"]
MCDeliveries == <<Login, Custom, Login, Ping>>

Field(name, mods, expected) == [field |-> name, mods |-> mods, expected |-> expected]
One(f) == [a |-> [any |-> FALSE, fields |-> {f}, keywords |-> {}]]
Rule(name, ls, sel, models) ==
    [id |-> name, enabled |-> TRUE, logsource |-> ls, selections |-> sel, condition |-> <<>>, datamodels |-> models]
AnySource == [l \in {} |-> ""]
Action(name, order, act, rule, spec) ==
    [id |-> name, order |-> order, source |-> 1, rank |-> order, scoped |-> TRUE, enabled |-> TRUE, stamp |-> TRUE,
     action |-> act, rule |-> rule, spec |-> spec]
Mask(fields, mode, patterns) ==
    [fields |-> fields, rawKeys |-> {}, patterns |-> patterns, mode |-> mode, scrub |-> TRUE,
     address |-> Nothing, number |-> Nothing]

Users == Action("users", 1, "mask", Rule("users", AnySource, One(Field("user", {"exists"}, {"true"})), {}),
                Mask(<<"user_name", "src_ip">>, "redact", <<[target |-> "note", word |-> "token"]>>))
Peers == Action("peers", 2, "mask", Rule("peers", AnySource, One(Field("dst_ip", {"cidr"}, {"10.0.0.0/8"})), {}),
                Mask(<<"dst_ip", "src_port">>, "hash", <<>>))
Hidden == Action("hidden", 3, "route", Rule("hidden", AnySource, One(Field("user_name", {}, {"***"})), {}),
                 [set |-> [log_type |-> <<"audit">>], index |-> <<"main">>])
Pings == Action("pings", 4, "drop", Rule("pings", [product |-> "identity"], One(Field("message", {"contains"}, {"ping"})), {}), <<>>)
Sample == Action("sample", 5, "sample", Rule("sample", AnySource, One(Field("message", {"contains"}, {"failed"})), {}),
                 [key |-> {"host_name"}, unit |-> "rate", amount |-> 1])
Thin == Action("thin", 6, "sample", Rule("thin", AnySource, One(Field("log_type", {}, {"audit"})), {"authentication"}),
               [key |-> {}, unit |-> "rate", amount |-> 3])
Bad == [Users EXCEPT !.id = "bad", !.order = 0,
                     !.spec.fields = <<>>, !.spec.patterns = <<[target |-> "src_ip", word |-> "10.0.0.5"]>>]
MCActionFiles == << <<Hidden, Bad>>, "unreadable", <<Users, Peers, [Pings EXCEPT !.scoped = FALSE], Sample>>, <<Pings, Thin>> >>

MCParserDefs == <<[id |-> 1, key |-> "type", word |-> "acme", kv |-> "kv", map |-> [who |-> "user_name"],
                   declared |-> [product |-> <<"acme">>]]>>
MCDetectionRules == {Rule("failed", AnySource, One(Field("message", {"contains"}, {"failed"})), {}),
                     Rule("login", AnySource, One(Field("log_type", {}, {"audit"})), {"authentication"})}
MCModels == <<[tag |-> "authentication", name |-> "authentication",
               clauses |-> << <<[kind |-> "column", name |-> "log_type", paths |-> <<>>, values |-> {"auth", "audit"}]>> >>,
               fields |-> <<[name |-> "user", kind |-> "column"]>>]>>
MCIocs == {"100.64.0.0/10", "10.0.0.0/8"}
MCSuppressions == <<[rule_id |-> "failed", vendor |-> "acme"]>>

\* What the proofs about the path take as a hypothesis holds here.
ASSUME SmallPathIsProved == ReplacementsTellNothing /\ ParsersFit

-----------------------------------------------------------------------------
(* Three notifications of S3 objects, one that can never be read.          *)
Named(k) == [event |-> "created", key |-> k]
MCNotices == [m \in {"m1", "m2", "m3"} |->
   CASE m = "m1" -> [form |-> "sns", test |-> FALSE, records |-> <<Named("a"), Named("b+"), Named("folder")>>]
     [] m = "m2" -> [form |-> "bare", test |-> FALSE, records |-> <<Named("bad"), Named("c")>>]
     [] m = "m3" -> [form |-> "bare", test |-> FALSE, records |-> <<[event |-> "removed", key |-> "c"], Named("c")>>]]
Held(p, s, r) == [packing |-> p, shape |-> s, records |-> r]
MCObjects == [o \in {"a", "b ", "bad", "c"} |->
   CASE o = "a" -> Held("gzip", "wrapped", {"r1"}) [] o = "b " -> Held("plain", "lines", {"r2"})
     [] o = "c" -> Held("torn", "array", {"r4"}) [] OTHER -> Held("gzip", "array", {"r3"})]
MCUnquoted == [k \in {"a", "b+", "bad", "c"} |-> IF k = "b+" THEN "b " ELSE k]

-----------------------------------------------------------------------------
(* A body of two batches, one over the limits, one with a disabled key.    *)
MCBodies == [b \in {"two", "over", "anon"} |->
   CASE b = "two" -> [key |-> "good", size |-> "ok", groups |-> <<<<"l1", "l2">>, <<"l3">>>>]
     [] b = "over" -> [key |-> "good", size |-> "over", groups |-> <<<<"l4">>>>]
     [] b = "anon" -> [key |-> "disabled", size |-> "ok", groups |-> <<<<"l5">>>>]]

-----------------------------------------------------------------------------
(* Two geo sources, correlation rules of which the first always fails, and  *)
(* assets of which all but one failed the same check.                      *)
MCCovers == [s \in 1..2 |-> IF s = 1 THEN {"a"} ELSE {"a", "b"}]
MCRule2(threshold, distinct) == [window |-> 2, threshold |-> threshold, distinct |-> distinct]
MCCorrelationRules == [r \in {"bad", "spray"} |-> IF r = "bad" THEN MCRule2(1, FALSE) ELSE MCRule2(2, TRUE)]
MCRuleOrder == <<"bad", "spray">>
MCSkews == {-1, 0, 1}
MCCheck == [a \in Assets |-> IF a = 3 THEN "new" ELSE "old"]

-----------------------------------------------------------------------------
Machines == {"path", "flows", "sqs", "hec", "geo", "watch", "tenable", "rapid7", "falcon"}
sourceVars == <<focus, vars, flowVars, sqsVars, hecVars, geoVars, watchVars, exportVars, walkVars, streamVars>>

SourcesInit ==
    /\ focus \in Machines
    /\ Init
    /\ FlowInit
    /\ SqsInit
    /\ HecInit
    /\ GeoInit
    /\ WatchInit
    /\ ExportInit
    /\ WalkInit
    /\ StreamInit
    /\ meant = [k \in TemplateKeys |-> IF k[1] = "e2" THEN OptionsShape ELSE "a"]
    /\ focus # "geo" => geoConfigured = GeoSettings
    /\ IF focus = "watch" THEN scheduled \in {{"correlation"}, {"health"}} ELSE scheduled = {}

Rest(machine) ==
    /\ focus = machine /\ UNCHANGED focus
    /\ machine # "path" => UNCHANGED vars
    /\ machine # "flows" => UNCHANGED flowVars
    /\ machine # "sqs" => UNCHANGED sqsVars
    /\ machine # "hec" => UNCHANGED hecVars
    /\ machine # "geo" => UNCHANGED geoVars
    /\ machine # "watch" => UNCHANGED watchVars
    /\ machine # "tenable" => UNCHANGED exportVars
    /\ machine # "rapid7" => UNCHANGED walkVars
    /\ machine # "falcon" => UNCHANGED streamVars

SourcesNext ==
    \/ Rest("path") /\ Next
    \/ Rest("flows") /\ FlowNext
    \/ Rest("sqs") /\ SqsNext
    \/ Rest("hec") /\ HecNext
    \/ Rest("geo") /\ GeoNext
    \/ Rest("watch") /\ WatchNext
    \/ Rest("tenable") /\ ExportNext
    \/ Rest("rapid7") /\ WalkNext
    \/ Rest("falcon") /\ StreamNext

\* The fairness each machine has, spelled for the composition.
SourcesFairness ==
    /\ WF_vars(Rest("path") /\ Next)
    /\ WF_sqsVars(Rest("sqs") /\ Poller)
    /\ \A n \in Message3 : WF_sqsVars(Rest("sqs") /\ Reappear(n))
    /\ \A j \in Jobs : WF_watchVars(Rest("watch") /\ JobStep(j))
    /\ WF_exportVars(Rest("tenable") /\ PollStep)
    /\ WF_exportVars(Rest("tenable") /\ (ChunkReady \/ Finish2))
    /\ WF_walkVars(Rest("rapid7") /\ WalkPollStep)
    /\ WF_streamVars(Rest("falcon") /\ StreamPollStep)

SourcesSpec == SourcesInit /\ [][SourcesNext]_sourceVars /\ SourcesFairness

(* No step undoes what a later one has reached: a working index, the       *)
(* newest load, an offset.                                                 *)
NothingMovesBack == WorkingIndexStays /\ NewestLoadStays /\ OffsetsNeverMoveBack

(* Whatever fails or restarts in between, and whatever can never be read,  *)
(* the rest is worked off in the end.                                      *)
WorkGoesOn ==
    /\ EveryEventSettles /\ ReadableGetThrough /\ BadRuleCostsItself
    /\ FinishedExportsAreReleased /\ EveryScanIsStored /\ EveryRecordIsRead
=============================================================================
