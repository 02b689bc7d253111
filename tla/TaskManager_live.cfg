SPECIFICATION FairSpec
CONSTANTS
  Task = {t1, t2}
  Critical = {t1}
  Async = {t2}
  Caller = {c1}
  Operations = {"cancel", "cancel_all", "shutdown", "stop_loop"}
  MaxRetained = 0
  BackgroundWorkers = 1
  CriticalWorkers = 1
  NoTask = NoTask
PROPERTIES CallersReturn TasksSettle
