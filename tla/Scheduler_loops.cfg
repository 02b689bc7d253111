SPECIFICATION Spec
CONSTANTS
  Host = {h1, h2}
  Users = {{h1, h2}}
  Loop = {l1, l2}
  Job = {once}
  OneShot = {once}
  Broken = {}
  MaxRuns = 2
  NoLoop = NoLoop
  h1 = h1
  h2 = h2
  once = once
INVARIANT OneLoop
