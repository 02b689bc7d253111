SPECIFICATION Spec
CONSTANTS
  Host = {h1}
  Users = {{h1}}
  Loop = {l1}
  Job = {once, every}
  OneShot = {once}
  Broken = {every}
  MaxRuns = 2
  NoLoop = NoLoop
INVARIANT CancelledStaysOut
