CONSTANTS
  W = 2
  L = 2
  g1 = g1
  u1 = u1
  d1 = d1
  d2 = d2
  p1 = p1
  p2 = p2
  p3 = p3
  Keys = {d1, d2}
  Gpus = {g1}
  Devices = {u1}
  NoGpu = NoGpu
  NoRequest = NoRequest
  NoUUID = NoUUID
  NoKey = NoKey
  NoPod = NoPod
  Whole = 10
  MaxTasks = 1
  Pods = {p1, p2}
  Owner <- OneEach
  Clusters <- Newcomers
  Bounds <- OneStart
  PoolOpen = TRUE
SPECIFICATION Spec
INVARIANTS
  FullPoolRefused
CHECK_DEADLOCK FALSE
