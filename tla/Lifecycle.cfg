SPECIFICATION FairSpec
CONSTANTS
  Procs = {1, 2}
  None = None
  MaxHups = 1
INVARIANTS LeavesNothing Undisturbed
PROPERTIES StopLeadsToEnd
CHECK_DEADLOCK FALSE
