CONSTANTS
  CPUs = {c1}
  ForwardLimit = 5
  Tids = {}
  NoTid = NoTid
  NoTask = NoTask
  MaxEmitted = 14
  MaxDisorder = 3
SPECIFICATION Spec
CHECK_DEADLOCK FALSE
INVARIANTS
  WrappedGapsExact
  WrappedEstimateExact
  ReorderingNeverTaints
