------------------------------ MODULE CoreRuns ------------------------------
(***************************************************************************)
(* Agent runs of the Core and the approvals their tool calls wait for      *)
(* (src/service.rs, src/agent/mod.rs, src/approvals.rs, src/audit.rs and   *)
(* the stores of src/store/).                                              *)
(*                                                                         *)
(* Core services share one database.  A service that dies is started again *)
(* as a new instance; at its start it closes the runs of instances that    *)
(* are gone.  A run asks a person before a tool the policy gates; the      *)
(* answer reaches it through the service that took it (a one-shot channel) *)
(* or through the store, which it polls, or it comes too late.             *)
(*                                                                         *)
(* Every call to the store is a step of its own, and fails where           *)
(* StoreErrors says so; time is abstracted: a deadline may pass whenever   *)
(* the run waits.                                                          *)
(***************************************************************************)
EXTENDS CorePolicy, FiniteSets

CONSTANTS
  Runs, Services,
  KindOf,          \* [Services -> kind of source: "api:", "telegram:"]
  Slots,           \* max_concurrent_runs of a service
  MaxCalls,        \* bound: tool calls of a run (max_iterations)
  StoreErrors,     \* calls to the store may fail
  MayStall,        \* a live instance may be taken for a dead one
  QuickRestart,    \* a service may restart before its death is noticed
  MaxFaults        \* bound: crashes, stalls and store errors

ASSUME CoreRunsAssumption ==
  /\ Services # {} /\ Tools # {}
  /\ Slots \in Nat \ {0} /\ MaxCalls \in Nat /\ MaxFaults \in Nat
  /\ {StoreErrors, MayStall, QuickRestart} \subseteq BOOLEAN

Calls == 1..MaxCalls
Answers == {"approved", "denied"}
Finals == {"succeeded", "failed"}

VARIABLES
  runs,     \* table runs: [Runs -> [status, by : the instance]]
  appr,     \* table approvals: [Runs -> [Calls -> status]]
  up,       \* [Services -> BOOLEAN]
  epoch,    \* [Services -> Nat]: the instance a service is
  fresh,    \* the instances that hold their lock, or whose heartbeat is recent
  agent,    \* [Runs -> the task of the run in its service]
  waiter,   \* [Runs -> the one-shot channel of the approval it waits for]
  wake,     \* decisions committed by a service and not yet sent to the channel
  faults

vars == <<runs, appr, up, epoch, fresh, agent, waiter, wake, faults>>
store == <<runs, appr>>
service == <<up, epoch, fresh>>

-----------------------------------------------------------------------------
RunRow == [status : {"absent", "queued", "running", "waiting_approval"} \cup Finals,
           by : Services \X Nat]

ApprovalStatuses == {"none", "pending", "expired"} \cup Answers

Task == [pc : {"none", "queued", "thinking", "waiting", "expiring", "reading",
               "executing"} \cup Finals,
         call : 0..MaxCalls, tool : Tools, tainted : BOOLEAN, private : BOOLEAN]

NoTask == [pc |-> "none", call |-> 0, tool |-> CHOOSE t \in Tools : TRUE,
           tainted |-> FALSE, private |-> FALSE]

Self(s) == <<s, epoch[s]>>
ServiceOf(r) == runs[r].by[1]
Source(r) == KindOf[ServiceOf(r)]
Open(r) == runs[r].status \in {"queued", "running", "waiting_approval"}
At(r, pc) == agent[r].pc = pc
Go(r, pc) == agent' = [agent EXCEPT ![r] = [agent[r] EXCEPT !.pc = pc]]
SetStatus(r, status) == runs' = [runs EXCEPT ![r] = [runs[r] EXCEPT !.status = status]]
SetApproval(r, c, status) ==
  appr' = [appr EXCEPT ![r] = [appr[r] EXCEPT ![c] = status]]

Fault == faults < MaxFaults /\ faults' = faults + 1
StoreFails == StoreErrors /\ Fault

\* The runs that hold a permit of the service's semaphore.
HasPermit(r) == agent[r].pc \notin {"none", "queued"}
Permits(s) == {r \in Runs : HasPermit(r) /\ ServiceOf(r) = s}

-----------------------------------------------------------------------------
(* Starting a run *)

\* start_run, run_now: the row is recorded, a task waits for a permit.
StartRun(s, r) ==
  /\ up[s] /\ runs[r].status = "absent"
  /\ runs' = [runs EXCEPT ![r] = [status |-> "queued", by |-> Self(s)]]
  /\ agent' = [agent EXCEPT ![r] = [NoTask EXCEPT !.pc = "queued"]]
  /\ UNCHANGED <<appr, service, waiter, wake, faults>>

\* The permit, and run_start: the row is marked running.  An error of the
\* store is only logged.
Begin(r) ==
  /\ At(r, "queued")
  /\ Cardinality(Permits(ServiceOf(r))) < Slots
  /\ Go(r, "thinking")
  /\ \/ SetStatus(r, "running") /\ UNCHANGED faults
     \/ StoreFails /\ UNCHANGED runs
  /\ UNCHANGED <<appr, service, waiter, wake>>

\* The tenant's limits cannot be read: the run ends before it began.
CannotBegin(r) ==
  /\ At(r, "queued") /\ StoreFails
  /\ Cardinality(Permits(ServiceOf(r))) < Slots
  /\ Go(r, "failed")
  /\ UNCHANGED <<store, service, waiter, wake>>

-----------------------------------------------------------------------------
(* One turn of run_loop *)

\* The model answers without a tool call; the model call fails, or a budget
\* or the time of the run is over.
Answer(r) ==
  /\ At(r, "thinking")
  /\ \E result \in Finals : Go(r, result)
  /\ UNCHANGED <<store, service, waiter, wake, faults>>

Calling(r, tool, pc) ==
  agent' = [agent EXCEPT ![r] = [agent[r] EXCEPT
              !.pc = pc, !.tool = tool, !.call = agent[r].call + 1]]

Decision(r, tool) == Evaluate(tool, agent[r].tainted, agent[r].private)

\* handle_tool_call: the policy refuses the call, and the model is told.
Refused(r, tool) ==
  /\ At(r, "thinking") /\ agent[r].call < MaxCalls
  /\ Decision(r, tool) = "deny"
  /\ Calling(r, tool, "thinking")
  /\ UNCHANGED <<store, service, waiter, wake, faults>>

Allowed(r, tool) ==
  /\ At(r, "thinking") /\ agent[r].call < MaxCalls
  /\ Decision(r, tool) = "allow"
  /\ Calling(r, tool, "executing")
  /\ UNCHANGED <<store, service, waiter, wake, faults>>

\* request_with: the channel, then the row (create_approval, which also
\* marks the run).
Ask(r, tool) ==
  /\ At(r, "thinking") /\ agent[r].call < MaxCalls
  /\ Decision(r, tool) = "require_approval"
  /\ Calling(r, tool, "waiting")
  /\ SetApproval(r, agent[r].call + 1, "pending")
  /\ SetStatus(r, "waiting_approval")
  /\ waiter' = [waiter EXCEPT ![r] = "open"]
  /\ UNCHANGED <<service, wake, faults>>

\* "approval could not be requested"
AskFails(r, tool) ==
  /\ At(r, "thinking") /\ agent[r].call < MaxCalls /\ StoreFails
  /\ Decision(r, tool) = "require_approval"
  /\ Calling(r, tool, "thinking")
  /\ UNCHANGED <<store, service, waiter, wake>>

-----------------------------------------------------------------------------
(* The decision *)

\* decide_approval: the row if it is pending, and the run with it.  The
\* channel is of the process that runs the run.
Decide(s, r, c, answer) ==
  /\ up[s]
  /\ appr[r][c] = "pending"
  /\ SetApproval(r, c, answer)
  /\ runs' = IF runs[r].status = "waiting_approval"
             THEN [runs EXCEPT ![r] = [runs[r] EXCEPT !.status = "running"]]
             ELSE runs
  /\ wake' = IF runs[r].by = Self(s) THEN wake \cup {<<r, c, answer>>} ELSE wake
  /\ UNCHANGED <<service, agent, waiter, faults>>

\* A slip: the channels kept by run, not by approval.
ListensByRun(r, c) == waiter[r] = "open"

Listens(r, c) == waiter[r] = "open" /\ agent[r].call = c

\* The rest of decide: the sender is taken out of the map and used.
Wake(r, c, answer) ==
  /\ <<r, c, answer>> \in wake
  /\ wake' = wake \ {<<r, c, answer>>}
  /\ waiter' = IF Listens(r, c) THEN [waiter EXCEPT ![r] = answer] ELSE waiter
  /\ UNCHANGED <<store, service, agent, faults>>

\* What the agent does with the outcome of its request.
Resume(r, outcome) ==
  /\ Go(r, IF outcome = "approved" THEN "executing" ELSE "thinking")
  /\ waiter' = [waiter EXCEPT ![r] = "none"]

Delivered(r) ==
  /\ At(r, "waiting") /\ waiter[r] \in Answers
  /\ Resume(r, waiter[r])
  /\ UNCHANGED <<store, service, wake, faults>>

Poll(r) ==
  /\ At(r, "waiting")
  /\ appr[r][agent[r].call] # "pending"
  /\ Resume(r, appr[r][agent[r].call])
  /\ UNCHANGED <<store, service, wake, faults>>

\* The timeout or the end of the run's time, whatever is in the channel.
Deadline(r) ==
  /\ At(r, "waiting")
  /\ Go(r, "expiring")
  /\ waiter' = [waiter EXCEPT ![r] = "none"]
  /\ UNCHANGED <<store, service, wake, faults>>

\* expire_approval: only what is still pending.
Expire(r) ==
  /\ At(r, "expiring")
  /\ Go(r, "reading")
  /\ LET c == agent[r].call IN
       IF appr[r][c] = "pending" THEN SetApproval(r, c, "expired")
                                 ELSE UNCHANGED appr
  /\ UNCHANGED <<runs, service, waiter, wake, faults>>

\* A slip: after the deadline the answer is no, without looking again.
TooLate(r) == "expired"

Truth(r) == appr[r][agent[r].call]

\* "A decision that landed just before the expiry wins."
Reread(r) ==
  /\ At(r, "reading")
  /\ Resume(r, Truth(r))
  /\ UNCHANGED <<store, service, wake, faults>>

\* Either call fails: the agent takes it for a refusal.
ExpiryFails(r) ==
  /\ agent[r].pc \in {"expiring", "reading"} /\ StoreFails
  /\ Resume(r, "error")
  /\ UNCHANGED <<store, service, wake>>

-----------------------------------------------------------------------------
(* The tool, and the end of the run *)

\* The tool has run (or was stopped by the end of the run's time).
Execute(r) ==
  /\ At(r, "executing")
  /\ agent' = [agent EXCEPT ![r] = [agent[r] EXCEPT
                 !.pc = "thinking",
                 !.tainted = @ \/ agent[r].tool \in Sources,
                 !.private = @ \/ agent[r].tool \in PrivateSources]]
  /\ UNCHANGED <<store, service, waiter, wake, faults>>

\* run_end: finish_run writes over whatever the row says; the permit is free.
End(r) ==
  /\ agent[r].pc \in Finals
  /\ agent' = [agent EXCEPT ![r] = NoTask]
  /\ \/ SetStatus(r, agent[r].pc) /\ UNCHANGED faults
     \/ StoreFails /\ UNCHANGED runs
  /\ UNCHANGED <<appr, service, waiter, wake>>

-----------------------------------------------------------------------------
(* Services *)

Crash(s) ==
  /\ up[s] /\ Fault
  /\ up' = [up EXCEPT ![s] = FALSE]
  /\ agent' = [r \in Runs |-> IF ServiceOf(r) = s THEN NoTask ELSE agent[r]]
  /\ waiter' = [r \in Runs |-> IF ServiceOf(r) = s THEN "none" ELSE waiter[r]]
  /\ wake' = {m \in wake : ServiceOf(m[1]) # s}
  /\ UNCHANGED <<store, epoch, fresh>>

\* The database server sees the closed connection and drops its lock, or the
\* heartbeat of the dead instance is three periods old.
Notice(s) ==
  /\ \E e \in 0..epoch[s] :
       /\ <<s, e>> \in fresh
       /\ e = epoch[s] => ~up[s]
       /\ fresh' = fresh \ {<<s, e>>}
  /\ UNCHANGED <<store, up, epoch, agent, waiter, wake, faults>>

\* The lock's connection is lost, or heartbeats do not reach the database.
\* A stall that nobody recovers from in the meantime changes nothing; one
\* that somebody did is final (no new lock, the row of instances deleted).
Stall(s) ==
  /\ MayStall /\ up[s] /\ Self(s) \in fresh /\ Fault
  /\ fresh' = fresh \ {Self(s)}
  /\ UNCHANGED <<store, up, epoch, agent, waiter, wake>>

\* Slips of recover_interrupted: every other instance counts as gone; a run
\* that waits for a person is not closed.
GoneOther(r, self) == Open(r) /\ runs[r].by # self
GoneWorking(r, self) ==
  /\ runs[r].status \in {"queued", "running"}
  /\ runs[r].by # self /\ runs[r].by \notin fresh

\* The runs recover_interrupted closes, but for the kind of source.
Gone(r, self) == Open(r) /\ runs[r].by # self /\ runs[r].by \notin fresh

Settled(status) == IF status = "pending" THEN "expired" ELSE status

\* Slips: the approvals of the runs are left as they are, or take the status
\* of the run.
Unsettled(status) == status
SettledAsRun(status) == IF status = "pending" THEN "failed" ELSE status

Closed(status) == Settled(status)

\* connect and recover_runs, before anything is served.
Start(s) ==
  /\ ~up[s]
  /\ QuickRestart \/ Self(s) \notin fresh
  /\ LET self == <<s, epoch[s] + 1>>
         gone == {r \in Runs : Gone(r, self) /\ Source(r) = KindOf[s]}
     IN /\ epoch' = [epoch EXCEPT ![s] = epoch[s] + 1]
        /\ fresh' = fresh \cup {self}
        /\ runs' = [r \in Runs |-> IF r \in gone
                                   THEN [runs[r] EXCEPT !.status = "failed"]
                                   ELSE runs[r]]
        /\ appr' = [r \in Runs |-> IF r \in gone
                                   THEN [c \in Calls |-> Closed(appr[r][c])]
                                   ELSE appr[r]]
  /\ up' = [up EXCEPT ![s] = TRUE]
  /\ UNCHANGED <<agent, waiter, wake, faults>>

-----------------------------------------------------------------------------
Init ==
  /\ runs = [r \in Runs |-> [status |-> "absent",
                             by |-> <<CHOOSE s \in Services : TRUE, 0>>]]
  /\ appr = [r \in Runs |-> [c \in Calls |-> "none"]]
  /\ up = [s \in Services |-> TRUE]
  /\ epoch = [s \in Services |-> 0]
  /\ fresh = {<<s, 0>> : s \in Services}
  /\ agent = [r \in Runs |-> NoTask]
  /\ waiter = [r \in Runs |-> "none"]
  /\ wake = {}
  /\ faults = 0

\* What the task of a run does by itself.
Step(r) ==
  \/ Begin(r) \/ CannotBegin(r)
  \/ Answer(r)
  \/ \E tool \in Tools : Refused(r, tool) \/ Allowed(r, tool)
                           \/ Ask(r, tool) \/ AskFails(r, tool)
  \/ Delivered(r) \/ Poll(r) \/ Deadline(r)
  \/ Expire(r) \/ Reread(r) \/ ExpiryFails(r)
  \/ Execute(r) \/ End(r)

Next ==
  \/ \E s \in Services, r \in Runs : StartRun(s, r)
  \/ \E r \in Runs : Step(r)
  \/ \E s \in Services, r \in Runs, c \in Calls, answer \in Answers :
       Decide(s, r, c, answer)
  \/ \E r \in Runs, c \in Calls, answer \in Answers : Wake(r, c, answer)
  \/ \E s \in Services : Crash(s) \/ Notice(s) \/ Stall(s) \/ Start(s)

Spec == Init /\ [][Next]_vars

\* Tasks go on (the semaphore is first come first served), deadlines pass,
\* a service that died is noticed and started again.
Fairness ==
  /\ \A r \in Runs : SF_vars(Begin(r)) /\ WF_vars(Step(r))
  /\ \A s \in Services : WF_vars(Notice(s)) /\ WF_vars(Start(s))

FairSpec == Spec /\ Fairness
-----------------------------------------------------------------------------
(* Properties *)

\* Every variable has its type.
TypeOK ==
  /\ runs \in [Runs -> RunRow]
  /\ appr \in [Runs -> [Calls -> ApprovalStatuses]]
  /\ up \in [Services -> BOOLEAN]
  /\ epoch \in [Services -> Nat]
  /\ fresh \subseteq Services \X Nat
  /\ agent \in [Runs -> Task]
  /\ waiter \in [Runs -> {"none", "open"} \cup Answers]
  /\ wake \subseteq Runs \X Calls \X Answers
  /\ faults \in 0..MaxFaults

Approved(r) == appr[r][agent[r].call] = "approved"

\* A tool the policy gates runs only when the store says that a person
\* approved this very call, whichever way the answer came (channel, poll,
\* last reading), in spite of timeouts, restarts and failing stores.
OnlyApproved ==
  \A r \in Runs :
    At(r, "executing") /\ Decision(r, agent[r].tool) = "require_approval"
      => Approved(r)

\* "Steering plus private data plus a way out": in a run that has read
\* external content no tool with side effects runs, and after private data
\* no way out is used, without a person, whatever the rules of the file allow.
NeverSteered ==
  \A r \in Runs :
    At(r, "executing") /\ Steered(agent[r].tool, agent[r].tainted, agent[r].private)
      => Approved(r)

\* "An approval never outlives its run": a pending approval is of a run that
\* shows it is waiting; a run that ended or goes on has none.
PendingIsShown ==
  \A r \in Runs :
    (\E c \in Calls : appr[r][c] = "pending") => runs[r].status = "waiting_approval"

\* "The store holds the truth": an action a person approved is not refused to
\* the run, also when the answer raced the deadline.
ApprovalIsUsed ==
  [][\A r \in Runs :
       agent[r].pc \in {"waiting", "expiring", "reading"} /\ Approved(r)
         => agent'[r].pc # "thinking"]_vars

\* A run that ended stays as it ended: no service closes, or reopens, a run
\* that another one still executes.
EndIsFinal ==
  [][\A r \in Runs : runs[r].status \in Finals => runs'[r] = runs[r]]_vars

\* At startup, what a previous process left "queued, running or waiting"
\* fails as interrupted: no run stays open for ever.
EveryRunEnds == \A r \in Runs : Open(r) ~> runs[r].status \in Finals
=============================================================================
