-------------------------- MODULE MCAlertDispatch --------------------------
(* The small instance of AlertDispatch that TLC checks.                      *)
EXTENDS AlertDispatch, TLC

CONSTANTS p1, p2

(* One thread raises two alerts, another one.  The first alert of p1 is      *)
(* below the notification level; the second playbook concerns only p1.       *)
MCRaised == p1 :> 2 @@ p2 :> 1
MCQueueMax == <<1, 1>>
MCHandlerCount == <<2, 2>>
MCWanted == <<{a \in Alert : a.no = 2 \/ a.from = p2}, Alert>>
MCMatching == <<[h \in 1 .. 2 |-> Alert],
                [h \in 1 .. 2 |-> IF h = 1 THEN Alert ELSE {a \in Alert : a.from = p1}]>>
=============================================================================
