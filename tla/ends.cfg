\* The queue: every fault the code meets: heartbeats lost by live workers, runs that end
\* while their process leaves, tenants suspended.
CONSTANTS
  JobIds = {1, 2}
  Tenants = {1}
  Works = {"collect"}
  TenantOfWork <- MCTenantOfWorkOne
  PriorityOf <- MCPriorityOfOne
  Collections = {"collect"}
  w1 = w1
  w2 = w2
  s1 = s1
  s2 = s2
  Workers = {w1, w2}
  Slots = {s1, s2}
  WorkerOf <- MCWorkerOf
  NoSlot = NoSlot
  NoJob = NoJob
  PerTenant = 2
  FirstAttempts = 1
  MaxTransient = 2
  Sqlite = FALSE
  MayStall = TRUE
  ExitOverlap = TRUE
  MaySuspend = TRUE
  MaxFaults = 2
  f1 = f1
  r1 = r1
  d1 = d1
SPECIFICATION EndsSpec
PROPERTIES
  EveryJobEnds
  
CHECK_DEADLOCK FALSE
