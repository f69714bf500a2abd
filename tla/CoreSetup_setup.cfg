SPECIFICATION FairSpec
CONSTANTS
  FirstVersion = 1
  MaxVersion = 2
  MaxTrouble = 1
  Engines = {"absent"}
  Modes = {TRUE, FALSE}
  Apps = {a}
  CoreApps = 1
  MaxJobs = 2
  Mixed = FALSE
INVARIANTS StartsOnce
PROPERTIES GateHolds RebuildIsClean ReadyMeansCurrent SetupHeals
CHECK_DEADLOCK FALSE
