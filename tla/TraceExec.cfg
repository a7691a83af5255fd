CONSTANTS
  CPUs = {c1}
  ForwardLimit = 64
  Tids = {t1, t2}
  NoTid = NoTid
  NoTask = NoTask
  Target = t1
  NoCall = NoCall
  NoStorage = NoStorage
  Syscalls = {"plain", "io", "clone", "exec"}
  Selected = {"plain", "io", "clone", "exec"}
  FollowForks = FALSE
  ElidePlain = TRUE
  DeferUnmatchedExits = TRUE
  MaxCalls = 3
  MaxLosses = 1
SPECIFICATION Spec
CHECK_DEADLOCK FALSE
INVARIANTS
  OnlyMarkersWait
  ResumedIffUnfinished
  UnfinishedQueued
  PendingOwned
PROPERTIES
  ExecTrackingSurvives
