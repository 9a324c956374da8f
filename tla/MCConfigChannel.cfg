\* One client over two connections; the second process of the device manager
\* does not know the GPU.
CONSTANTS
  MaxConns = 2
  MaxLists = 3
  PodManagers <- ThreePods
  Listed <- Lists
  Unknown = {2}
SPECIFICATION FairSpec
INVARIANTS
  TypeOK
  Delivered
PROPERTIES
  FilesForward
  CommonKept
  ReadyAgain
  DeadNoticed
  ConfigArrives
