------------------------ MODULE MCWatermarkCollector ------------------------
(* The small instances of WatermarkCollector that TLC checks.                *)
EXTENDS WatermarkCollector, TLC

CONSTANTS r1, r2, r3, defender, route53, qualys, guardduty, gcp, cloudtrail

(* Graph alerts and incidents; FilterLogEvents; Qualys detections; findings  *)
(* sorted ascending, as Okta's and GitHub's logs; entries:list ordered       *)
(* ascending, as Entra sign-ins and Falcon incidents; LookupEvents, whose    *)
(* newest record comes first.                                                *)
AllTraits ==
    defender :> [order |-> "any", inclusive |-> FALSE, parks |-> TRUE,
                 windowEnd |-> FALSE, fallsBack |-> TRUE]
 @@ route53 :> [order |-> "any", inclusive |-> TRUE, parks |-> TRUE,
                windowEnd |-> FALSE, fallsBack |-> FALSE]
 @@ qualys :> [order |-> "any", inclusive |-> TRUE, parks |-> TRUE,
               windowEnd |-> TRUE, fallsBack |-> FALSE]
 @@ guardduty :> [order |-> "ascending", inclusive |-> TRUE, parks |-> FALSE,
                  windowEnd |-> FALSE, fallsBack |-> FALSE]
 @@ gcp :> [order |-> "ascending", inclusive |-> FALSE, parks |-> FALSE,
            windowEnd |-> FALSE, fallsBack |-> FALSE]
 @@ cloudtrail :> [order |-> "descending", inclusive |-> TRUE, parks |-> FALSE,
                   windowEnd |-> FALSE, fallsBack |-> FALSE]

MCTraits == [p \in Profile |-> AllTraits[p]]
=============================================================================
