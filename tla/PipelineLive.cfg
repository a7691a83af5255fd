CONSTANTS
  CPUs = {c1}
  ForwardLimit = 8
  Tids = {}
  NoTid = NoTid
  NoTask = NoTask
  Bodies <- MCBodies
  MaxAttempts = 2
  MaxNesting = 2
  MaxStateLosses = 0
  RingCapacity = 2
SPECIFICATION FairSpec
CHECK_DEADLOCK FALSE
PROPERTIES
  FinishReached
