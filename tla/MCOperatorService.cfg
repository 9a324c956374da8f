CONSTANTS
  Names = {f1}
  NoName = NoName
  Mins = {0, 2}
  Scales = {0, 3}
  Limits <- OneError
SPECIFICATION FairSpec
PROPERTIES
  ServiceFollows
CHECK_DEADLOCK FALSE
