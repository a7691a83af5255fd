CONSTANTS
  CPUs = {c1, c2}
  ForwardLimit = 8
  Tids = {}
  NoTid = NoTid
  NoTask = NoTask
  Bodies <- MCBodies
  MaxAttempts = 1
  MaxNesting = 1
  MaxStateLosses = 1
  RingCapacity = 2
SPECIFICATION Spec
CHECK_DEADLOCK FALSE
SYMMETRY Symmetry
PROPERTIES
  LossBarrier
  ImplementsLossyStream
