------------------------------ MODULE JobQueue ------------------------------
(***************************************************************************)
(* The durable queue of background work of the Editor Mode                 *)
(* (editor-mode/src/editor/queue.py, and the SQL functions claim_job and   *)
(* requeue_stale of migrations 0011 and 0021).                             *)
(*                                                                         *)
(* The table editor.jobs is the variable jobs: one record per row.  A      *)
(* worker is a process with several slots (the threads of Worker._loop);   *)
(* a slot claims a row, runs its handler while a second thread refreshes   *)
(* the row's heartbeat, and writes the end of the run.  Workers crash,     *)
(* are restarted, stall, and lose the write of a run's end.                *)
(*                                                                         *)
(* Time is abstracted: a running row's heartbeat is fresh (younger than    *)
(* STALE_SECONDS) or stale, a queued row is due or still waits run_after.  *)
(* Every action that touches the table is one transaction of the code.     *)
(***************************************************************************)
EXTENDS Naturals, FiniteSets, FiniteSetsExt, TLC

CONSTANTS
  JobIds,          \* row ids, in the order they are given
  Tenants,         \* tenant ids (ordered, claim_job breaks ties by tenant_id)
  Works,           \* a (tenant, kind, subject): what a row asks for
  TenantOfWork,    \* [Works -> Tenants]
  PriorityOf,      \* [Works -> Nat]: PRIORITY_PERSON or PRIORITY_TICK
  Collections,     \* the works of kind tick or collect
  Workers, Slots,
  WorkerOf,        \* [Slots -> Workers]
  NoSlot, NoJob,
  PerTenant,       \* rows of a tenant that run at once
  FirstAttempts,   \* max_attempts of a new row (3)
  MaxTransient,    \* MAX_TRANSIENT_ATTEMPTS (8)
  Sqlite,          \* one tenant, one worker process, one row at a time
  MayStall,        \* heartbeats of a live worker may fail past STALE_SECONDS
  ExitOverlap,     \* a thread may end its run while its process is leaving
  MaySuspend,      \* billing may suspend and reactivate tenants
  MaxFaults        \* bound: restarts, crashes, stalls and lost writes

ASSUME JobQueueAssumption ==
  /\ JobIds \subseteq Nat
  /\ Tenants \subseteq Nat
  /\ Works # {}
  /\ TenantOfWork \in [Works -> Tenants]
  /\ PriorityOf \in [Works -> Nat]
  /\ Collections \subseteq Works
  /\ WorkerOf \in [Slots -> Workers]
  /\ NoSlot \notin Slots
  /\ NoJob \notin JobIds
  /\ PerTenant \in Nat \ {0}
  /\ FirstAttempts \in Nat \ {0}
  /\ MaxTransient \in Nat
  /\ MaxFaults \in Nat
  /\ {Sqlite, MayStall, ExitOverlap, MaySuspend} \subseteq BOOLEAN

VARIABLES
  jobs,     \* the table: [JobIds -> Row]
  since,    \* <<j, k>>: row k was claimed after row j (started_at)
  hold,     \* [Slots -> the Job value the thread runs]
  state,    \* [Workers -> "up" | "stopping" | "leaving" | "down"]
  left,     \* [Slots -> the Job a leaving worker listed and has not released]
  active,   \* tenants with tenants.active
  faults    \* how many faults happened (bounds the model)

vars == <<jobs, since, hold, state, left, active, faults>>

-----------------------------------------------------------------------------
Statuses == {"absent", "queued", "running", "done", "failed"}

Row == [status : Statuses, work : Works, attempts : Nat, max : Nat,
        worker : Slots \cup {NoSlot}, beat : {"none", "fresh", "stale"},
        due : BOOLEAN]

NoRow == [status |-> "absent", work |-> CHOOSE w \in Works : TRUE,
          attempts |-> 0, max |-> 0, worker |-> NoSlot, beat |-> "none",
          due |-> FALSE]

Idle == [job |-> NoJob, attempts |-> 0]

Is(j, status) == jobs[j].status = status
Ended(j) == jobs[j].status \in {"done", "failed"}
TenantOf(j) == TenantOfWork[jobs[j].work]
Busy(s) == hold[s].job # NoJob

\* A slot whose process still runs and has not given the row back.
Attached(s) == /\ Busy(s)
               /\ \/ state[WorkerOf[s]] \in {"up", "stopping"}
                  \/ left[s] # Idle

\* What may not run together: the same work, or two readings of one
\* tenant's sources (tick and collect).
SameWork(v, w) == \/ v = w
                  \/ /\ {v, w} \subseteq Collections
                     /\ TenantOfWork[v] = TenantOfWork[w]

FreshlyRunning(j) == Is(j, "running") /\ jobs[j].beat = "fresh"

Fault == faults < MaxFaults /\ faults' = faults + 1

-----------------------------------------------------------------------------
(* Queueing and claiming *)

NewRow(w) == [status |-> "queued", work |-> w, attempts |-> 0,
              max |-> FirstAttempts, worker |-> NoSlot, beat |-> "none",
              due |-> TRUE]

\* enqueue: the same work already waiting is not queued twice.
Enqueue(w) ==
  /\ \A j \in JobIds : ~(Is(j, "queued") /\ jobs[j].work = w)
  /\ \E j \in JobIds :
       /\ Is(j, "absent")
       /\ \A k \in JobIds : k < j => ~Is(k, "absent")
       /\ jobs' = [jobs EXCEPT ![j] = NewRow(w)]
  /\ UNCHANGED <<since, hold, state, left, active, faults>>

RunningOf(t) == {j \in JobIds : FreshlyRunning(j) /\ TenantOf(j) = t}

\* Slips of the WHERE clause of claim_job: one row of the same (kind, subject)
\* at a time but the tick beside a collection; no count of the tenant's
\* running rows; failed rows retried.
ClaimableBesideReading(j) ==
  /\ Is(j, "queued") /\ jobs[j].due
  /\ TenantOf(j) \in active
  /\ Cardinality(RunningOf(TenantOf(j))) < PerTenant
  /\ \A k \in JobIds : FreshlyRunning(k) => jobs[k].work # jobs[j].work

ClaimableUncounted(j) ==
  /\ Is(j, "queued") /\ jobs[j].due
  /\ TenantOf(j) \in active
  /\ \A k \in JobIds :
       FreshlyRunning(k) => ~SameWork(jobs[k].work, jobs[j].work)

ClaimableAgain(j) ==
  /\ jobs[j].status \in {"queued", "failed"} /\ jobs[j].due
  /\ TenantOf(j) \in active
  /\ Cardinality(RunningOf(TenantOf(j))) < PerTenant
  /\ \A k \in JobIds :
       FreshlyRunning(k) => ~SameWork(jobs[k].work, jobs[j].work)

Claimable(j) ==
  /\ Is(j, "queued") /\ jobs[j].due
  /\ TenantOf(j) \in active
  /\ Cardinality(RunningOf(TenantOf(j))) < PerTenant
  /\ \A k \in JobIds :
       FreshlyRunning(k) => ~SameWork(jobs[k].work, jobs[j].work)

\* The claimed rows of a tenant that still name a worker (requeue_stale, later
\* and release clear it); the latest of them is when it was last served.
ServedRows(t) == {j \in JobIds : TenantOf(j) = t /\ jobs[j].worker # NoSlot}

ServedBefore(t, u) ==
  IF ServedRows(t) = {} THEN ServedRows(u) # {} \/ t < u   \* NULLS FIRST
  ELSE \E k \in ServedRows(u) : \A j \in ServedRows(t) : <<j, k>> \in since

\* The order of claim_job: tenant least recently served, then priority, then id.
Before(j, k) ==
  IF TenantOf(j) # TenantOf(k) THEN ServedBefore(TenantOf(j), TenantOf(k))
  ELSE \/ PriorityOf[jobs[j].work] > PriorityOf[jobs[k].work]
       \/ PriorityOf[jobs[j].work] = PriorityOf[jobs[k].work] /\ j < k

Claimed(row, s) ==
  [row EXCEPT !.status = "running", !.beat = "fresh", !.worker = s,
              !.attempts = row.attempts + 1]

\* claim_job with the advisory lock (SQLite: BEGIN IMMEDIATE), then the
\* thread enters run.
Claim(s) ==
  /\ state[WorkerOf[s]] = "up" /\ ~Busy(s)
  /\ \E j \in JobIds :
       /\ Claimable(j)
       /\ \A k \in JobIds \ {j} : Claimable(k) => Before(j, k)
       /\ jobs' = [jobs EXCEPT ![j] = Claimed(jobs[j], s)]
       /\ hold' = [hold EXCEPT ![s] = [job |-> j,
                                       attempts |-> jobs[j].attempts + 1]]
       /\ since' = {p \in since : j \notin {p[1], p[2]}}
                     \cup {<<k, j>> : k \in JobIds \ {j}}
  /\ UNCHANGED <<state, left, active, faults>>

\* run_after has passed.
WaitOver(j) ==
  /\ Is(j, "queued") /\ ~jobs[j].due
  /\ jobs' = [jobs EXCEPT ![j] = [jobs[j] EXCEPT !.due = TRUE]]
  /\ UNCHANGED <<since, hold, state, left, active, faults>>

-----------------------------------------------------------------------------
(* The end of a run.  The UPDATEs name the row's id and nothing else. *)

CanEnd(s) == /\ Busy(s)
             /\ state[WorkerOf[s]] # "down"
             /\ state[WorkerOf[s]] = "leaving" => ExitOverlap

\* finish: the handler returned, or raised what is not retried.
Finish(s, result) ==
  /\ CanEnd(s)
  /\ LET j == hold[s].job IN
       jobs' = [jobs EXCEPT ![j] = [jobs[j] EXCEPT !.status = result, !.beat = "none"]]
  /\ hold' = [hold EXCEPT ![s] = Idle]
  /\ UNCHANGED <<since, state, left, active, faults>>

PutOff(row, attempts) ==
  [row EXCEPT !.status = "queued", !.beat = "none", !.worker = NoSlot,
              !.due = FALSE, !.max = Max({attempts + 1, FirstAttempts})]

\* later: the model provider is down, the row waits for its next attempt.
Later(s) ==
  /\ CanEnd(s)
  /\ hold[s].attempts < MaxTransient
  /\ LET j == hold[s].job IN
       jobs' = [jobs EXCEPT ![j] = PutOff(jobs[j], hold[s].attempts)]
  /\ hold' = [hold EXCEPT ![s] = Idle]
  /\ UNCHANGED <<since, state, left, active, faults>>

\* The write of the end raised ("worker loop error"): the row stays running.
EndLost(s) ==
  /\ CanEnd(s) /\ Fault
  /\ hold' = [hold EXCEPT ![s] = Idle]
  /\ UNCHANGED <<jobs, since, state, left, active>>

-----------------------------------------------------------------------------
(* Heartbeats and the requeue of stale rows *)

HeldBySomeone(j) ==
  \E s \in Slots : hold[s].job = j /\ state[WorkerOf[s]] # "down"

\* No heartbeat for STALE_SECONDS: the worker is gone or, as a fault, stalls.
Expire(j) ==
  /\ FreshlyRunning(j)
  /\ IF HeldBySomeone(j) THEN MayStall /\ Fault ELSE UNCHANGED faults
  /\ jobs' = [jobs EXCEPT ![j] = [jobs[j] EXCEPT !.beat = "stale"]]
  /\ UNCHANGED <<since, hold, state, left, active>>

\* heartbeat: of whoever still runs the job, if the row is running.
Beat(s) ==
  /\ Busy(s) /\ state[WorkerOf[s]] # "down"
  /\ Is(hold[s].job, "running")
  /\ LET j == hold[s].job IN
       jobs' = [jobs EXCEPT ![j] = [jobs[j] EXCEPT !.beat = "fresh"]]
  /\ UNCHANGED <<since, hold, state, left, active, faults>>

\* Slips of requeue_stale: a row without attempts is left as it is; the age
\* of the heartbeat is not looked at.
RequeuedOrLeft(row) ==
  IF row.attempts < row.max
  THEN [row EXCEPT !.status = "queued", !.beat = "none", !.worker = NoSlot,
                   !.due = TRUE]
  ELSE row

AnyRunning(j) == Is(j, "running")

\* The row of a run that was cut short: again, or no attempts are left.
Requeued(row) ==
  IF row.attempts < row.max
  THEN [row EXCEPT !.status = "queued", !.beat = "none", !.worker = NoSlot,
                   !.due = TRUE]
  ELSE [row EXCEPT !.status = "failed", !.beat = "none", !.worker = NoSlot]

Stale(j) == Is(j, "running") /\ jobs[j].beat = "stale"

\* requeue_stale, by the clock thread of a worker that is not stopping.
RequeueStale ==
  /\ \E w \in Workers : state[w] = "up"
  /\ \E j \in JobIds : Stale(j)
  /\ jobs' = [j \in JobIds |-> IF Stale(j) THEN Requeued(jobs[j]) ELSE jobs[j]]
  /\ UNCHANGED <<since, hold, state, left, active, faults>>

-----------------------------------------------------------------------------
(* The life of a worker process *)

\* SIGTERM: no new claims; the running jobs have STOP_GRACE_SECONDS.
Stop(w) ==
  /\ state[w] = "up" /\ Fault
  /\ state' = [state EXCEPT ![w] = "stopping"]
  /\ UNCHANGED <<jobs, since, hold, left, active>>

\* The grace is over: what still runs is listed, to be put back.
GraceOver(w) ==
  /\ state[w] = "stopping"
  /\ state' = [state EXCEPT ![w] = "leaving"]
  /\ left' = [s \in Slots |-> IF WorkerOf[s] = w THEN hold[s] ELSE left[s]]
  /\ UNCHANGED <<jobs, since, hold, active, faults>>

\* A slip of release: the attempt given back twice.
ReleasedTwice(row, attempts) ==
  [row EXCEPT !.status = "queued", !.beat = "none", !.worker = NoSlot,
              !.due = TRUE, !.attempts = attempts - 1]

Released(row, attempts) ==
  [row EXCEPT !.status = "queued", !.beat = "none", !.worker = NoSlot,
              !.due = TRUE, !.attempts = attempts]

\* release: back in the queue at once, the attempt not spent, while the
\* thread is still inside the job.
Release(s) ==
  /\ left[s] # Idle
  /\ LET j == left[s].job IN
       jobs' = IF Is(j, "running")
               THEN [jobs EXCEPT ![j] = Released(jobs[j], left[s].attempts - 1)]
               ELSE jobs
  /\ left' = [left EXCEPT ![s] = Idle]
  /\ UNCHANGED <<since, hold, state, active, faults>>

\* "job not released": the row stays running until it is stale.
ReleaseFails(s) ==
  /\ left[s] # Idle /\ Fault
  /\ left' = [left EXCEPT ![s] = Idle]
  /\ UNCHANGED <<jobs, since, hold, state, active>>

Gone(w) ==
  /\ state' = [state EXCEPT ![w] = "down"]
  /\ hold' = [s \in Slots |-> IF WorkerOf[s] = w THEN Idle ELSE hold[s]]
  /\ left' = [s \in Slots |-> IF WorkerOf[s] = w THEN Idle ELSE left[s]]

\* os._exit, or the last thread ended.
Exit(w) ==
  /\ state[w] = "leaving"
  /\ \A s \in Slots : WorkerOf[s] = w => left[s] = Idle
  /\ Gone(w)
  /\ UNCHANGED <<jobs, since, active, faults>>

\* A hard kill, at any point.
Crash(w) ==
  /\ state[w] # "down" /\ Fault
  /\ Gone(w)
  /\ UNCHANGED <<jobs, since, active>>

\* Worker.run.  On SQLite it is the only worker of the file: what is running
\* was cut short by its last stop.
Start(w) ==
  /\ state[w] = "down"
  /\ state' = [state EXCEPT ![w] = "up"]
  /\ jobs' = IF Sqlite
             THEN [j \in JobIds |-> IF Is(j, "running") THEN Requeued(jobs[j])
                                                        ELSE jobs[j]]
             ELSE jobs
  /\ UNCHANGED <<since, hold, left, active, faults>>

\* Billing suspends a tenant or lifts the suspension.
SetActive(t) ==
  /\ MaySuspend
  /\ active' = IF t \in active THEN active \ {t} ELSE active \cup {t}
  /\ UNCHANGED <<jobs, since, hold, state, left, faults>>

-----------------------------------------------------------------------------
Init ==
  /\ jobs = [j \in JobIds |-> NoRow]
  /\ since = {}
  /\ hold = [s \in Slots |-> Idle]
  /\ state = [w \in Workers |-> "up"]
  /\ left = [s \in Slots |-> Idle]
  /\ active = Tenants
  /\ faults = 0

Next ==
  \/ \E w \in Works : Enqueue(w)
  \/ \E s \in Slots : Claim(s)
  \/ \E s \in Slots : Finish(s, "done")
  \/ \E s \in Slots : Finish(s, "failed")
  \/ \E s \in Slots : Later(s)
  \/ \E s \in Slots : EndLost(s)
  \/ \E j \in JobIds : WaitOver(j)
  \/ \E j \in JobIds : Expire(j)
  \/ \E s \in Slots : Beat(s)
  \/ RequeueStale
  \/ \E w \in Workers : Stop(w)
  \/ \E w \in Workers : GraceOver(w)
  \/ \E s \in Slots : Release(s)
  \/ \E s \in Slots : ReleaseFails(s)
  \/ \E w \in Workers : Exit(w)
  \/ \E w \in Workers : Crash(w)
  \/ \E w \in Workers : Start(w)
  \/ \E t \in Tenants : SetActive(t)

Spec == Init /\ [][Next]_vars

\* What the scheduling of threads and processes gives: a live thread goes on
\* (a handler returns, a poll finds work, a released job is written), the clock comes
\* round, a wait passes, a process that is down is started again.
Fairness ==
  /\ \A s \in Slots : /\ WF_vars(Claim(s))
                      /\ WF_vars(Finish(s, "done") \/ Finish(s, "failed"))
                      /\ WF_vars(Release(s))
  /\ \A j \in JobIds : /\ WF_vars(WaitOver(j))
                       /\ WF_vars(~HeldBySomeone(j) /\ Expire(j))
  /\ WF_vars(RequeueStale)
  /\ \A w \in Workers : WF_vars(GraceOver(w)) /\ WF_vars(Exit(w)) /\ WF_vars(Start(w))

FairSpec == Spec /\ Fairness
-----------------------------------------------------------------------------
(* Properties *)

\* Every variable has its type.
TypeOK ==
  /\ jobs \in [JobIds -> Row]
  /\ since \subseteq JobIds \X JobIds
  /\ hold \in [Slots -> [job : JobIds \cup {NoJob}, attempts : Nat]]
  /\ state \in [Workers -> {"up", "stopping", "leaving", "down"}]
  /\ left \in [Slots -> [job : JobIds \cup {NoJob}, attempts : Nat]]
  /\ active \subseteq Tenants
  /\ faults \in 0..MaxFaults

\* The row of every run that has not been given back is running, fresh, and
\* of this very slot and attempt: claim, requeue_stale, release and the
\* unconditional UPDATEs of finish and later never touch somebody else's run.
RowIsOwn ==
  \A s \in Slots : Attached(s) =>
    LET row == jobs[hold[s].job] IN
      /\ row.status = "running" /\ row.beat = "fresh"
      /\ row.worker = s /\ row.attempts = hold[s].attempts

\* "Never two of the same work, never the tick and a collection together":
\* no two runs that have not been given back clash (claim_job, requeue_stale).
NoClash ==
  \A s, t \in Slots : s # t /\ Attached(s) /\ Attached(t) =>
    ~SameWork(jobs[hold[s].job].work, jobs[hold[t].job].work)

\* "A tenant takes at most two worker slots": runs in progress, not rows.
TenantShare ==
  \A t \in Tenants :
    Cardinality({s \in Slots : Attached(s) /\ TenantOf(hold[s].job) = t})
      <= PerTenant


\* "An error raised by the work itself is not retried": a row that ended is
\* never queued or run again (no late later, release or requeue revives it).
EndedStays == [][\A j \in JobIds : Ended(j) => jobs'[j] = jobs[j]]_vars

\* Nothing queued is lost: whatever crashes, restarts, stalls and lost writes
\* happen, a row of a tenant that stays active ends.
EveryJobEnds ==
  \A j \in JobIds :
    (Is(j, "queued") \/ Is(j, "running")) ~> (Ended(j) \/ TenantOf(j) \notin active)

\* The abstract board: a row is in the hands of the runs attached to it.
PhaseOf(j) == CASE Is(j, "absent") -> "none"
                [] Is(j, "queued") -> "waiting"
                [] Is(j, "running") -> "taken"
                [] OTHER -> "ended"

HandsOf(j) == {s \in Slots : Attached(s) /\ hold[s].job = j}

Board == INSTANCE JobBoard WITH
  Jobs <- JobIds, Hands <- Slots, Works <- Works, Clash <- SameWork,
  phase <- [j \in JobIds |-> PhaseOf(j)],
  work <- [j \in JobIds |-> jobs[j].work],
  by <- [j \in JobIds |-> HandsOf(j)]

\* The queue implements the board.
ImplementsBoard == Board!Spec
=============================================================================
