\* ConfigReload: two readers, four signals, two commands.  NotifyQueue: two zones, a ring of one.
\* NotifyTable: three keys, one of them TCP only, a table of two places, one TCP exchange, one
\* NOTIFY a second.  ProgramZone: two threads, a queue of two, four queries, dead after two failures.
SPECIFICATION MCFairSpec
CONSTANTS
  i1 = i1 i2 = i2 IoThreads = {i1, i2} QueueCapacity = 2 MaxFailures = 2 PzQueries = 4
  c1 = c1 c2 = c2 k1 = k1 k2 = k2 k3 = k3
  CfgReaders = {c1, c2} MaxSignals = 4 MaxCommands = 2
  NZones = 2 NrnRing = 1 SweepSlice = 1 PopMax = 1 MaxChanges = 3
  NKeys = {k1, k2, k3} PendMax = 2 TcpMax = 1 MaxSends = 2 Rate = 1 TcpOnly = {k1} MaxNotify = 3
INVARIANTS ConfigStable NotifySound PipeInOrder
PROPERTIES   ExchangesEnd
CHECK_DEADLOCK FALSE
