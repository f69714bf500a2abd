SPECIFICATION Spec
CONSTANTS
  Folders = {f1, f2}
  MaxJobs = 4
PROPERTIES ChangesCanBeUndone PutBackIsExact SuccessIsWhole
CHECK_DEADLOCK FALSE
