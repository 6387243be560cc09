--------------------------- MODULE MCIngestQueue ---------------------------
(* The small instances of IngestQueue that TLC checks.                        *)
EXTENDS IngestQueue, TLC

CONSTANTS i1, i2, i3, s1, s2, e1, e2, e3, e4

(* Two items of one source and one of another; i3 carries two events, so a  *)
(* flush of size 2 is reached by one item or by two.                         *)
MCSourceOf == [i \in Item |-> IF i = i2 THEN s2 ELSE s1]
MCEventsOf == [i \in Item |-> CASE i = i1 -> {e1} [] i = i2 -> {e2} [] i = i3 -> {e3, e4}]

=============================================================================
