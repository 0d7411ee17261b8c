SPECIFICATION ShellSpec
CONSTANTS
  MaxJobs = 3
  None = None
INVARIANT OneOperationAtATime
CHECK_DEADLOCK FALSE
