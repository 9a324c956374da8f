CONSTANTS
  p1 = p1
  p2 = p2
  n1 = n1
  n2 = n2
  g1 = g1
  g2 = g2
  g3 = g3
  Pods = {p1, p2}
  Nodes = {n1, n2}
  NodeStates = {"absent", "ready", "tainted"}
  GPUIDs = {g1, g2}
  PodSpec <- ShareAndPlain
  NodeSpec <- CpuOrGpuShort
  NoNode = NoNode
  NoId = NoId
  FreshId = FreshId
  MaxPatchErrors = 1
  MaxLostReplies = 1
  MaxNodeChanges = 1
  MaxRestarts = 1
SYMMETRY GpuSymmetry
SPECIFICATION Spec
INVARIANTS
  TypeOK
  NoLostPod
  OneToken
  QueueConsistent
PROPERTIES
  PlacedOnce
  PlacedWhereItFits
