SPECIFICATION Spec
CONSTANTS
  Task = {t1, t2, t3}
  Critical = {}
  Async = {}
  Caller = {c1}
  Operations = {"cancel", "cancel_all", "shutdown"}
  MaxRetained = 1
  BackgroundWorkers = 1
  CriticalWorkers = 1
  NoTask = NoTask
SYMMETRY TaskSymmetry
INVARIANTS TypeOK LiveTaskTracked FinishedOnce RetentionBounded InFlightConserved
PROPERTIES TerminalStays NothingTakenAfterShutdown
