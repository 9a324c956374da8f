CONSTANTS
  W = 2
  L = 5
  Clients = {c1, c2, c3, c4, c5}
  NoPos = NoPos
SPECIFICATION Spec
INVARIANTS
  TypeOK
  NoLeakNoDoubleGrant
  ReleaseNeverPanics
PROPERTIES
  BypassBounded
  PoolSpec
