CONSTANTS
  CPUs = {c1}
  ForwardLimit = 8
  Tids = {}
  NoTid = NoTid
  NoTask = NoTask
  Bodies <- MCBodies
  MaxAttempts = 3
  MaxNesting = 2
  MaxStateLosses = 0
  RingCapacity = 3
SPECIFICATION Spec
CHECK_DEADLOCK FALSE
INVARIANTS
  BackpressureContract
