SPECIFICATION FairSpec
CONSTANTS
  Total <- MCTotal
  Window <- MCWindow
  HalfClosers = {"client"}
  Id = Id  Ok = Ok  No = No  Nothing = Nothing
INVARIANTS InOrder LeavesOnePump
PROPERTIES AllArrives EndsReachBoth
CONSTRAINT Explored
CHECK_DEADLOCK FALSE
