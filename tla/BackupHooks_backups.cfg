SPECIFICATION Spec
CONSTANTS
    Schedules = {"weekly", "daily"}
    Default = "weekly"
    MaxBackups = 2
    MaxAsks = 2
    MaxChanges = 1
    MaxTrouble = 1
    MaxRestarts = 1
PROPERTIES CopiedAtRest AppsComeBack ScheduleFollows
CHECK_DEADLOCK FALSE
