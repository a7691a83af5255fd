CONSTANTS
  CPUs = {c1}
  ForwardLimit = 64
  Tids = {t1, t2}
  NoTid = NoTid
  NoTask = NoTask
  Target = t1
  NoCall = NoCall
  NoStorage = NoStorage
  Syscalls = {"io", "clone", "exec"}
  Selected = {"io"}
  FollowForks = TRUE
  ElidePlain = TRUE
  DeferUnmatchedExits = TRUE
  MaxCalls = 4
  MaxLosses = 0
SPECIFICATION Spec
CHECK_DEADLOCK FALSE
INVARIANTS
  PendingOwned
