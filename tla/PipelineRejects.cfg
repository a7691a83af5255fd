CONSTANTS
  CPUs = {c1}
  ForwardLimit = 8
  Tids = {}
  NoTid = NoTid
  NoTask = NoTask
  Bodies <- MCAllBodies
  MaxAttempts = 2
  MaxNesting = 2
  MaxStateLosses = 1
  RingCapacity = 2
SPECIFICATION Spec
CHECK_DEADLOCK FALSE
INVARIANTS
  TaintJustified
