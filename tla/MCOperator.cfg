CONSTANTS
  Names = {f1}
  NoName = NoName
  Mins = {0, 2}
  Scales = {0, 3}
  Limits <- Tried
SPECIFICATION FairSpec
INVARIANTS
  TypeOK
PROPERTIES
  NoRollback
  ReplicasKept
  DeployedEventually
CHECK_DEADLOCK FALSE
