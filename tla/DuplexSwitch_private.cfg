SPECIFICATION Spec
CONSTANTS
  Chats = {"outside_first", "local_only"}
  Voices = {"local_only"}
  GpuApps = {"ollama"}
  MaxAsks = 1
  MaxTrouble = 0
  MaxCuts = 1
INVARIANT PrivacyIsServed
CHECK_DEADLOCK FALSE
