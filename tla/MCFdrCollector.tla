--------------------------- MODULE MCFdrCollector ---------------------------
(* The small instance of FdrCollector that TLC checks.                       *)
EXTENDS FdrCollector, TLC

CONSTANTS m1, m2, m3, m4

(* One message over the budget, two that fit it together but not beside the  *)
(* first, and one that names nothing.                                        *)
MCRefs == m1 :> 3 @@ m2 :> 1 @@ m3 :> 1 @@ m4 :> 0
=============================================================================
