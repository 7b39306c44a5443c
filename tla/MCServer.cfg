\* ParkTable: three entries, two zones, deadlines one or two ticks away, two ticks.  TcpPool: two
\* threads, three contexts.  TcpWorker: two descriptors and contexts, two connections with two
\* requests.  ControlClients: two descriptors, three clients with two lines between them, two views.
\* RrlTable: two threads, a window of one second, five checks in four ticks.  ResponseCache: two
\* workers, two entries, three words, three stores.  AnswerCache: two workers, two new versions, two reloads.
SPECIFICATION MCSpec
CONSTANTS
  z1 = z1 z2 = z2 u1 = u1 u2 = u2 x1 = x1 x2 = x2 t1 = t1 t2 = t2
  Cap = 3 Zones = {z1, z2} Timeouts = {1, 2} INT64_MAX = 9 MaxNow = 2
  PoolUsers = {u1, u2} PoolSize = 3 MaxGen = 6
  Fds = {1, 2} Ctxs = {x1, x2} Quota = 1 TransfersOut = 1 IoQueue = 1 MaxConn = 2 MaxInput = 2
  NoCtx = NoCtx
  CtlFds = {1, 2} ParkMax = 2 ReqMax = 2 RingMax = 3 DbViews = 2 MaxClients = 3 MaxLines = 2
  RrlThreads = {t1, t2} Responses <- MCResponses Exempt = {} RateOf <- MCRates
  WindowTicks = 2 TICKS = 2 Ways = 2 MaxClock = 4 MaxChecks = 5
  RcWorkers = {t1, t2} Bodies <- MCBodies RcEntries = 2 RcWords = 3 MaxStores = 3 MaxLookups = 1
  AcWorkers = {t1, t2} MaxPublish = 2 MaxReload = 2
INVARIANTS TableSound PoolExact Attended   
PROPERTIES ExpireComplete ServiceComplete
CHECK_DEADLOCK FALSE
