CONSTANTS
  CPUs = {c1}
  ForwardLimit = 4
  Tids = {t1, t2}
  NoTid = NoTid
  NoTask = NoTask
  Target = t1
  NoCall = NoCall
  NoStorage = NoStorage
  Syscalls = {"io", "clone", "exit"}
  Selected = {"io", "clone", "exit"}
  FollowForks = TRUE
  ElidePlain = TRUE
  DeferUnmatchedExits = TRUE
  MaxCalls = 3
  MaxLosses = 2
SPECIFICATION Spec
CHECK_DEADLOCK FALSE
INVARIANTS
  TypeOK
  PairSound
  TrustedPaired
  QuiescentSound
