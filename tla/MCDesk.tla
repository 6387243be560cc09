------------------------------- MODULE MCDesk -------------------------------
(***************************************************************************)
(* The alert desk on a small instance: cases with the kill-chain scheduler,*)
(* and the indexes the write path reads with their reloads.  `desk` names  *)
(* which of the two a behaviour is about.                                  *)
(***************************************************************************)
EXTENDS CaseDesk, LiveIndex

VARIABLE desk

Alert(id, time, entities, tactic, level) ==
    [id |-> id, time |-> time, created |-> id, entities |-> entities,
     tactics |-> {tactic}, level |-> level]

\* One user on one host; with each end alone there is a shorter story or none.
SmallAlerts ==
    <<Alert(1, NoTime, {"user"}, <<"initial access", 2>>, 3),
      Alert(2, 2, {"user", "host"}, <<"attack.credential_access", 8>>, 2),
      Alert(3, 3, {"host"}, <<"credential access", 8>>, 4)>>

ASSUME SmallStoriesAreOfAlerts == StoriesAreOfAlerts

DeskInit == desk \in {"cases", "indexes"} /\ CaseInit /\ IndexInit
            /\ (desk = "cases" => kind = "rules")

DeskNext ==
    \/ desk = "cases" /\ CaseNext /\ UNCHANGED <<desk, indexVars>>
    \/ desk = "indexes" /\ IndexNext /\ UNCHANGED <<desk, caseVars>>

DeskSpec ==
    /\ DeskInit /\ [][DeskNext]_<<desk, caseVars, indexVars>>
    /\ WF_caseVars(desk = "cases" /\ SchedulerStep)
    /\ \A w \in Analysts : WF_caseVars(desk = "cases" /\ RequestProgress(w))
    /\ WF_indexVars(desk = "indexes" /\ Refresh)
    /\ \A w \in Reloaders : WF_indexVars(desk = "indexes" /\ (ReloadStep(w) \/ ReadFails(w)))

DeskTypeOK == CaseTypeOK /\ IndexTypeOK

(* Cases are as severe as their alerts and made once of a story, and the   *)
(* indexes the write path reads are what the tables hold, but for the      *)
(* overlaps each part names.                                               *)
DeskIsConsistent ==
    /\ DeskTypeOK
    /\ SeverityRollsUp /\ SchedulerNeverRepeats
    /\ QuietIndexIsCurrent /\ RegistryKeepsOrder

(* Neither the kill-chain scheduler nor the refresh of the indicators      *)
(* leaves work behind for good.                                            *)
DeskSettles == StoriesAreHandled /\ IndicatorsCatchUp
=============================================================================
