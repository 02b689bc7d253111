CONSTANTS
  NoTask = NoTask
  Task = {t1}
  Critical = {t1}
  Async = {}
  Caller = {c1}
  Operations = {"shutdown"}
  MaxRetained = 1
  BackgroundWorkers = 1
  CriticalWorkers = 1
SPECIFICATION Spec
PROPERTIES
  CriticalGetsGrace
