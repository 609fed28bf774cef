\* PostgreSQL: two workers, two newsrooms (SQLite: as MCQueues gives it).
\* Heartbeats of live workers arrive; a worker that stops ends no run after
\* it released the job.
CONSTANTS
  JobIds = {1, 2}
  Tenants = {1, 2}
  Works = {"tick", "collect", "draft"}
  TenantOfWork <- MCTenantOfWork
  PriorityOf <- MCPriorityOf
  Collections = {"tick", "collect"}
  w1 = w1
  w2 = w2
  s1 = s1
  s2 = s2
  Workers = {w1, w2}
  Slots = {s1, s2}
  WorkerOf <- MCWorkerOf
  NoSlot = NoSlot
  NoJob = NoJob
  PerTenant = 2
  FirstAttempts = 2
  MaxTransient = 3
  Sqlite = FALSE
  MayStall = FALSE
  ExitOverlap = FALSE
  MaySuspend = FALSE
  MaxFaults = 2
SPECIFICATION QueuesSpec
INVARIANTS
  TypeOK
  RowIsOwn
  NoClash
  OneAtATime
PROPERTIES
  EndedStays
  ImplementsBoard
CHECK_DEADLOCK FALSE
