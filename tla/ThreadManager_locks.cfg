SPECIFICATION PoolSpec
CONSTANTS
  Job = {j1, j2}
  Closer = {c1, c2}
  Waiting = {c1}
  MaxWorkers = 1
  Free = Free
  j1 = j1
  j2 = j2
  c1 = c1
  c2 = c2
INVARIANT NoCircularWait
