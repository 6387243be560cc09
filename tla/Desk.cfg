SPECIFICATION DeskSpec
\* Edits of an index are bounded: such a behaviour stops where the bound does.
CHECK_DEADLOCK FALSE
CONSTANTS
  AlertFacts <- SmallAlerts
  CaseIds = {1, 2, 3, 4, 5}
  Analysts = {analyst}
  Gap = 1
  MinTactics = 2
  MinSeverity = 3
  MaxCrashes = 1
  MaxEdits = 2
  Editors = {e1, e2}
  Refresher = timer
  MaxVersion = 3
  MaxReadFailures = 1
  MaxReloadRestarts = 1
INVARIANT
    DeskIsConsistent
PROPERTY
    DeskSettles
