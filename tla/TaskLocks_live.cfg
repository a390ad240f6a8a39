CONSTANTS
  Job = {j1, j2}
  Key = {1, 2, 3}
  Request <- ServerRequests
  MaxRetries = 1
  Nobody = Nobody
SPECIFICATION FairSpec
INVARIANTS
  TypeOK
  SharedKeyExclusion
  SomeoneWins
  OverlapNeverBothSucceed
  NoStrayLease
PROPERTIES
  TasksWearDown
  EveryTaskEnds
  
CHECK_DEADLOCK FALSE
