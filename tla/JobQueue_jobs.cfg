CONSTANTS
  Jobs = {j1, j2}
  Callers = {a1}
  Commands = {c1}
  c1 = c1
  c2 = c2
  s1 = s1
  s2 = s2
  Services = {s1}
  ServiceOf <- SameService
  Keys = {k1}
  NoKey = NoKey
  Workers = {w1, w2}
  NoWorker = NoWorker
  NoJob = NoJob
  NoService = NoService
  Legacy = {j1}
  LeaseTicks = 1
  GiveUpTicks = 1
  DeadlineTicks = 1
  GraceTicks = 0
  MaxCommands = 2
  MaxFaults = 1
SPECIFICATION FairSpec
INVARIANTS RunsAlone OneActivePerService NothingAfterCancel
PROPERTIES CancelledNeverRestarts JobsFinish ContractSpec
CHECK_DEADLOCK FALSE
