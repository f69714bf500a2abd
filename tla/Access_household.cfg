SPECIFICATION AccessFairSpec
CONSTANTS
  Household = {"ann"}
  Akadmin = TRUE
  Owners = {}
  Runners = {"loop", "api"}
  Follow = {"copy", "calendar", "calendar_key", "voice_file"}
  Watch = {"authentik_account", "authentik_role", "chat"}
  MaxChanges = 2
  MaxSetbacks = 1
INVARIANTS TasksHaveAHold DemotionIsKept
PROPERTIES RevocationsEnd ToolsFollowTheHousehold
CHECK_DEADLOCK FALSE
