--------------------------- MODULE EventDelivery ---------------------------
(***************************************************************************)
(* What the live ingest path promises, whatever its queue, workers and     *)
(* threads do: an offered item is accepted or refused once, only accepted  *)
(* items are ever written or counted as lost, and until the service closes *)
(* every accepted item gets one of those two fates.                        *)
(***************************************************************************)
CONSTANT Item

VARIABLES
    accepted, refused,  \* the answers given to submitters
    stored,             \* accepted items that reached the events table
    reported,           \* accepted items whose loss was counted
    closed              \* the service is shutting down

vars == <<accepted, refused, stored, reported, closed>>

Init ==
    /\ accepted = {} /\ refused = {}
    /\ stored = {} /\ reported = {}
    /\ closed = FALSE

Accept(i) ==
    /\ i \notin accepted \cup refused
    /\ accepted' = accepted \cup {i}
    /\ UNCHANGED <<refused, stored, reported, closed>>

Refuse(i) ==
    /\ i \notin accepted \cup refused
    /\ refused' = refused \cup {i}
    /\ UNCHANGED <<accepted, stored, reported, closed>>

(* One transaction stores, or one failure gives up, a group of items. *)
Store(S) ==
    /\ stored' = stored \cup S
    /\ UNCHANGED <<accepted, refused, reported, closed>>

Report(S) ==
    /\ reported' = reported \cup S
    /\ UNCHANGED <<accepted, refused, stored, closed>>

Close ==
    /\ ~closed /\ closed' = TRUE
    /\ UNCHANGED <<accepted, refused, stored, reported>>

Next ==
    \/ \E i \in Item : Accept(i) \/ Refuse(i)
    \/ \E S \in SUBSET accepted : Store(S) \/ Report(S)
    \/ Close

Spec == Init /\ [][Next]_vars

(* Until the service closes, an accepted item does not wait for ever.        *)
EverySettled ==
    \A i \in Item : i \in accepted ~> i \in stored \cup reported \/ closed
=============================================================================
