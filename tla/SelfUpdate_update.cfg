SPECIFICATION FairSpec
CONSTANTS
  MaxTrouble = 2
  MaxReboots = 1
  MaxClaims = 2
INVARIANT EndsWhole
PROPERTIES ResultIsTrue WayBackIsSafe BothEnd
CHECK_DEADLOCK FALSE
