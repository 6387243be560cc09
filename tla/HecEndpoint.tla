---------------------------- MODULE HecEndpoint ----------------------------
(***************************************************************************)
(* app/hec.py _handle: senders post bodies, retry what they were told to   *)
(* retry and what timed out, and a request runs on although its sender has *)
(* gone.  Each format of a body is one ingest.ingest with its own commit.  *)
(*                                                                         *)
(* A body is [key, size, groups]: what its authorization is good for, "ok",*)
(* "large" or "empty", or "over" the limit of envelopes, and the batches it*)
(* groups into, each a sequence of lines; a line in Dated has a time.      *)
(***************************************************************************)
EXTENDS Integers, Sequences, FiniteSets

CONSTANTS Bodies,       \* body -> [key, size, groups]
          Dated,        \* lines with a time of their own
          MaxPosts,     \* posts of all bodies
          StoreFaults   \* failures and crashes

ASSUME HecAssumption ==
    \A b \in DOMAIN Bodies :
        Bodies[b].groups \in Seq({Bodies[b].groups[g] : g \in DOMAIN Bodies[b].groups})

VARIABLES
    posts,      \* the requests, in order: [body, at, group, uploaded, fallback, answer]
    told,       \* body -> the code its sender has seen last, -1 for none
    heard,      \* posts whose answer reached the sender
    batches,    \* ingest_batches that are done: [lines, time]
    eventRows,  \* [line, time]
    now,        \* the wall clock
    overlapped, \* bodies posted again while a request of theirs still ran
    broken,     \* bodies whose request the process died under
    storeFaults

hecVars == <<posts, told, heard, batches, eventRows, now, overlapped, broken, storeFaults>>

Sent(b) == {i \in DOMAIN posts : posts[i].body = b}
Running == {i \in DOMAIN posts : posts[i].at \notin {"answered", "dead"}}
BodyOf(i) == Bodies[posts[i].body]
LinesOf(batch) == {batch[k] : k \in DOMAIN batch}
LinesOfBody(b) == UNION {LinesOf(Bodies[b].groups[g]) : g \in DOMAIN Bodies[b].groups}
RowLines == {r.line : r \in eventRows}

\* What senders do with a code: 8 and 9 are sent again.
Retryable == {-1, 8, 9}

HecInit ==
    /\ posts = <<>> /\ told = [b \in DOMAIN Bodies |-> -1] /\ heard = {}
    /\ batches = {} /\ eventRows = {} /\ now = 1
    /\ overlapped = {} /\ broken = {} /\ storeFaults = 0

\* A sender posts a body, or posts it again having waited for an answer or not.
Post(b) ==
    /\ Len(posts) < MaxPosts
    /\ told[b] \in Retryable
    /\ posts' = Append(posts, [body |-> b, at |-> "admit", group |-> 1, uploaded |-> 0, fallback |-> 0, answer |-> -1])
    /\ overlapped' = IF Sent(b) \cap Running # {} THEN overlapped \cup {b} ELSE overlapped
    /\ UNCHANGED <<told, heard, batches, eventRows, now, broken, storeFaults>>

Goes(i, at) == posts' = [posts EXCEPT ![i].at = at]
Answers(i, code) == posts' = [posts EXCEPT ![i].at = "answered", ![i].answer = code]
KeepsRows == UNCHANGED <<told, heard, batches, eventRows, now, overlapped, broken>>

\* _parse_envelopes: over the limit, the sender keeps its buffer and nothing is stored.
Parsed(i) ==
    IF BodyOf(i).size = "over" THEN Answers(i, 9)
    ELSE IF BodyOf(i).groups = <<>> THEN Answers(i, 12)
    ELSE Goes(i, "look")

\* _authorize, _collect and the parse.
Admission(i) ==
    LET b == BodyOf(i)
    IN  CASE b.key = "missing" -> Answers(i, 2)
          [] b.key \in {"unknown", "disabled"} -> Answers(i, 4)
          [] b.key = "good" /\ b.size = "large" -> Answers(i, 6)
          [] b.key = "good" /\ b.size = "empty" -> Answers(i, 5)
          [] OTHER -> Parsed(i)

\* The events are stored as they are parsed.
AdmitStreaming(i) ==
    /\ posts[i].at = "admit" /\ Admission(i)
    /\ eventRows' = eventRows \cup IF BodyOf(i).key # "good" THEN {}
                                   ELSE {[line |-> l, time |-> 0] : l \in LinesOfBody(posts[i].body)}
    /\ UNCHANGED <<told, heard, batches, now, overlapped, broken, storeFaults>>

\* What is refused is refused before anything is stored.
Admit(i) == posts[i].at = "admit" /\ Admission(i) /\ KeepsRows /\ UNCHANGED storeFaults

-----------------------------------------------------------------------------
(* _store: ingest.ingest for one batch after the other.                    *)
Batch3(i) == BodyOf(i).groups[posts[i].group]

\* The time of this upload.
FallbackNow(same) == now

\* The time of the newest upload of the same bytes.
FallbackOf(same) == IF same = {} THEN now ELSE (CHOOSE x \in same : \A y \in same : x.time >= y.time).time

\* find_batch_by_sha, the clock and create_batch.
Look3(i) ==
    /\ posts[i].at = "look"
    /\ posts' = [posts EXCEPT ![i].at = "write", ![i].uploaded = now,
                              ![i].fallback = FallbackOf({x \in batches : x.lines = Batch3(i)})]
    /\ now' = now + 1
    /\ UNCHANGED <<told, heard, batches, eventRows, overlapped, broken, storeFaults>>

\* write_stream commits.
Write3(i) ==
    /\ posts[i].at = "write"
    /\ eventRows' = eventRows \cup {[line |-> l, time |-> IF l \in Dated THEN 0 ELSE posts[i].fallback] :
                                        l \in LinesOf(Batch3(i))}
    /\ Goes(i, "mark") /\ UNCHANGED <<told, heard, batches, now, overlapped, broken, storeFaults>>

\* The answer is given after the first batch.
MarkFirst(i) ==
    /\ posts[i].at = "mark"
    /\ batches' = batches \cup {[lines |-> Batch3(i), time |-> posts[i].uploaded]}
    /\ Answers(i, 0)
    /\ UNCHANGED <<told, heard, eventRows, now, overlapped, broken, storeFaults>>

\* update_batch status = done, then the next batch, then Success.
Mark3(i) ==
    /\ posts[i].at = "mark"
    /\ batches' = batches \cup {[lines |-> Batch3(i), time |-> posts[i].uploaded]}
    /\ IF posts[i].group = Len(BodyOf(i).groups) THEN Answers(i, 0)
       ELSE posts' = [posts EXCEPT ![i].at = "look", ![i].group = @ + 1]
    /\ UNCHANGED <<told, heard, eventRows, now, overlapped, broken, storeFaults>>

\* A batch fails to commit, the ones before it stay: Internal server error.
StoreRaises(i) ==
    /\ posts[i].at \in {"look", "write"} /\ storeFaults < StoreFaults /\ storeFaults' = storeFaults + 1
    /\ Answers(i, 8) /\ KeepsRows

\* The process dies with every request it runs.
ServerDies ==
    /\ Running # {} /\ storeFaults < StoreFaults /\ storeFaults' = storeFaults + 1
    /\ posts' = [i \in DOMAIN posts |-> IF i \in Running THEN [posts[i] EXCEPT !.at = "dead"] ELSE posts[i]]
    /\ broken' = broken \cup {posts[i].body : i \in Running}
    /\ UNCHANGED <<told, heard, batches, eventRows, now, overlapped>>

\* The sender reads an answer, the last one it waited for.
Hear(i) ==
    /\ posts[i].at = "answered" /\ i \notin heard /\ heard' = heard \cup {i}
    /\ told' = [told EXCEPT ![posts[i].body] = posts[i].answer]
    /\ told[posts[i].body] \in Retryable
    /\ UNCHANGED <<posts, batches, eventRows, now, overlapped, broken, storeFaults>>

HecNext ==
    \/ \E b \in DOMAIN Bodies : Post(b)
    \/ \E i \in DOMAIN posts : Admit(i) \/ Look3(i) \/ Write3(i) \/ Mark3(i) \/ StoreRaises(i) \/ Hear(i)
    \/ ServerDies

HecSpec == HecInit /\ [][HecNext]_hecVars

-----------------------------------------------------------------------------
(* A sender that has been told Success may forget its buffer: every line of  *)
(* the body is stored (hec.py:606-621, 637).                                 *)
SuccessIsStored == \A b \in DOMAIN Bodies : told[b] = 0 => LinesOfBody(b) \subseteq RowLines

(* What is refused leaves nothing behind, so that sending it again, whole or *)
(* in smaller bodies, duplicates nothing (hec.py, "a partial ingest plus a   *)
(* retry would duplicate the prefix").                                       *)
RefusedLeavesNothing ==
    \A b \in DOMAIN Bodies :
        (\A i \in Sent(b) : posts[i].at = "answered" /\ posts[i].answer \in {2, 4, 5, 6, 9, 12})
            => LinesOfBody(b) \cap RowLines = {}

(* A body sent again after a failure stores each line once, those without a  *)
(* time too, although some of its batches were committed the first time:     *)
(* each is given the time of the batch it repeats.  Not so when a retry      *)
(* overtakes the request it repeats, when the process dies between a commit  *)
(* and its "done", and when the same bytes come a third time.                *)
RetryStoresOnce ==
    \A r, s \in eventRows :
        r.line = s.line /\ r # s =>
            \E b \in DOMAIN Bodies : r.line \in LinesOfBody(b) /\ (b \in overlapped \cup broken \/ Cardinality(Sent(b)) > 2)

(* What a sender is told is what became of its lines, and a retry adds     *)
(* none.                                                                   *)
AnswersAreTrue == SuccessIsStored /\ RefusedLeavesNothing /\ RetryStoresOnce
=============================================================================
