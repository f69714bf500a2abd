SPECIFICATION LiveSpec
CONSTANTS
  base = base
  web = web
  Apps <- ThreeApps
  tool = tool
  Selections <- OneByOne
  Needs <- WebNeedsBase
  Batches = {b1}
  Owners = {o1}
  NoBatch = NoBatch
  NoOwner = NoOwner
  NoApp = NoApp
  MaxParallel = 1
  MaxRequests = 2
  MaxReorders = 1
  MaxPauses = 1
  MaxForeign = 1
  MaxCancels = 1
  MaxResets = 1
  MaxCrashes = 1
  MaxEvents = 1
INVARIANTS OneSetupPerBatch EndStatesAreTrue
PROPERTIES DependenciesFirst BatchEnds
CHECK_DEADLOCK FALSE
