SPECIFICATION Spec
CONSTANTS
  Ext <- MCExt
  Enabled = {"base", "mid", "top", "opt"}
  Deps <- MCDeps
  OptDeps <- MCOptDeps
  Priority <- MCPriority
  Stopper = {s1, s2}
  Waiter = {w1, w2}
  Service = {"service"}
  Envs <- MCOneBoot
  s1 = s1
  s2 = s2
  w1 = w1
  w2 = w2
CHECK_DEADLOCK FALSE
INVARIANT FailedBootCleansUp
