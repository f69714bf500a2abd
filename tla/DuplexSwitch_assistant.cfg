SPECIFICATION Spec
CONSTANTS
  Chats = {"outside", "local_first", "local_only"}
  Voices = {"follows", "outside_allowed", "local_only"}
  GpuApps = {"ollama", "immich"}
  MaxAsks = 2
  MaxTrouble = 2
  MaxCuts = 1
INVARIANTS RecordsAreKept SuccessIsServed
PROPERTIES CardIsShared
CHECK_DEADLOCK FALSE
