SPECIFICATION FairSpec
CONSTANTS
  Host = {h1, h2}
  Users = {{h1}, {h1, h2}}
  Loop = {l1, l2}
  Job = {once, every}
  OneShot = {once}
  Broken = {every}
  MaxRuns = 2
  NoLoop = NoLoop
INVARIANTS LoopIsTracked JobsKept DroppedByNextTick
PROPERTY SchedulerProgresses
