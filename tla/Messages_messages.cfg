SPECIFICATION MCSpec
CONSTANTS
    Handlers = {h1, h2}  Callers = {c1, c2}  Workers = {w1}
    MaxRetries = 1  MaxEmits = 1  MaxWrappers = 2
    Buses = {b1}  Broker = broker  StopMarker = 0
    Capacity = 1  MaxMessages = 2  MaxCalls = 3
    Dispatchers = {t1, t2}  Middlewares = 1  MaxCaptures = 10
    Recorders = {t1, t2}  Clients = {k1}  RingCapacity = 1  MaxRows = 2
    Job = {j1, j2, j3}  Closer = {c1, c2}  Waiting = {c1}  MaxWorkers = 1  Free = Free
    Part = {"delivery", "ipc", "capture", "stream", "wire", "pool"}
INVARIANTS DeliveredOnce MappedIsSubscribed ReceivedInOrder UnclosedAreOpen
           ParentsRecovered NoSilentGap WireIsFaithful PoolTypeOK InFlightCounts
PROPERTIES KeepsPromise StopEndsLoop NoneTakenAfterShutdown PoolSettles
CHECK_DEADLOCK FALSE
