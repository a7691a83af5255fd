CONSTANTS
  CPUs = {c1}
  ForwardLimit = 64
  Tids = {t1, t2, t3}
  NoTid = NoTid
  NoTask = NoTask
  Target = t1
  NoCall = NoCall
  NoStorage = NoStorage
  Syscalls = {"clone", "exec"}
  Selected = {"exec"}
  FollowForks = FALSE
  ElidePlain = TRUE
  DeferUnmatchedExits = TRUE
  MaxCalls = 4
  MaxLosses = 0
SPECIFICATION Spec
CHECK_DEADLOCK FALSE
PROPERTIES
  ExecTrackingSurvives
