-------------------------- MODULE MCResponseRevert --------------------------
(* The small instances of ResponseRevert that TLC checks.                    *)
EXTENDS ResponseRevert, TLC

CONSTANTS e1, e2, e3, t1, t2

(* Two temporary actions on one target and a permanent one on another.      *)
MCTargetOf == e1 :> t1 @@ e2 :> t1 @@ e3 :> t2
MCAfter == e1 :> 1 @@ e2 :> 2 @@ e3 :> 0
=============================================================================
