SPECIFICATION FairLife
CONSTANTS
    Apps <- LifeApps
    Conns <- LifeConns
    AppOf <- BaseTools
    Preferred = {"c1"}
    Reviewed = {"c1"}
    Needs <- OneNeed
    Users <- OneUser
    Method <- WebMethod
    Choosers = {"web"}
    FirstStart = {"web"}
    FolderOf <- NewFolder
    Actions = {"install", "retry_setup", "start", "stop", "reset", "restart", "uninstall", "uninstall_delete_data", "prepare", "enable", "disable", "update", "switch"}
    MaxAsks = 3
    MaxMishaps = 1
PROPERTIES ReportsAreTrue DataKeepsItsRelease ToolsAreRight
CHECK_DEADLOCK FALSE
