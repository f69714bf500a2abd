SPECIFICATION Spec
CONSTANTS
  Events = {e1}
  Calendars = {c1, c2}
  Default = c1
  NoCalendar = NoCalendar
  NoEvent = NoEvent
  MaxVersions = 3
  MaxFaults = 2
INVARIANTS NoTextLost
PROPERTIES ConflictsWait
CHECK_DEADLOCK FALSE
