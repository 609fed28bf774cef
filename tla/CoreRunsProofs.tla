--------------------------- MODULE CoreRunsProofs ---------------------------
(***************************************************************************)
(* What the Core guarantees about gated tool calls for every set of runs,  *)
(* services and tools, every policy file and every number of calls,        *)
(* crashes, stalls and failing calls to the store.                         *)
(***************************************************************************)
EXTENDS CoreRuns, TLAPS

(***************************************************************************)
(* The inductive invariant.                                                *)
(***************************************************************************)

Asked(r) == agent[r].pc \in {"waiting", "expiring", "reading"}

\* A run listens only while it waits, and what it was told is in the store.
ChannelOK(r) ==
  /\ agent[r].pc # "waiting" => waiter[r] = "none"
  /\ waiter[r] \in Answers => appr[r][agent[r].call] = waiter[r]

\* The decision of the policy is the one the call is treated by.
GateOK(r) ==
  /\ Asked(r) => Decision(r, agent[r].tool) = "require_approval"
  /\ Asked(r) \/ At(r, "executing") => agent[r].call \in Calls
  /\ At(r, "executing") =>
       \/ Decision(r, agent[r].tool) = "allow"
       \/ Decision(r, agent[r].tool) = "require_approval" /\ Approved(r)

\* The approvals of calls that are not made yet do not exist, nor does the
\* task of a run that is not recorded.
FutureOK(r) ==
  /\ agent[r].pc # "none" => \A c \in Calls : c > agent[r].call => appr[r][c] = "none"
  /\ runs[r].status = "absent" => /\ agent[r].pc = "none"
                                  /\ \A c \in Calls : appr[r][c] = "none"

RunOK(r) == ChannelOK(r) /\ GateOK(r) /\ FutureOK(r)

\* A decision on its way to a channel is in the store.
WakeOK == \A m \in wake : appr[m[1]][m[2]] = m[3]

RunsOK == \A r \in Runs : RunOK(r)

IInv == TypeOK /\ RunsOK /\ WakeOK

-----------------------------------------------------------------------------
USE CoreRunsAssumption DEF Finals, Answers

\* What the operators that change rows and tasks return.
LEMMA Values ==
  /\ NoTask \in Task
  /\ [NoTask EXCEPT !.pc = "queued"] \in Task
  /\ \A a \in Task, pc \in {"none", "queued", "thinking", "waiting", "expiring",
                            "reading", "executing"} \cup Finals :
       [a EXCEPT !.pc = pc] \in Task
  /\ \A row \in RunRow, st \in {"queued", "running", "waiting_approval"} \cup Finals :
       [row EXCEPT !.status = st] \in RunRow
  /\ \A f \in [Calls -> ApprovalStatuses], c \in Calls, st \in ApprovalStatuses :
       [f EXCEPT ![c] = st] \in [Calls -> ApprovalStatuses]
  <1>1. NoTask \in Task /\ [NoTask EXCEPT !.pc = "queued"] \in Task
    <2>1. (CHOOSE t \in Tools : TRUE) \in Tools
      OBVIOUS
    <2>2. 0 \in 0..MaxCalls
      OBVIOUS
    <2>3. QED  BY <2>1, <2>2 DEF NoTask, Task
  <1>2. QED  BY <1>1 DEF Task, RunRow, ApprovalStatuses

\* A call of a tool is a task again, one call further.
LEMMA CallingValue ==
  ASSUME TypeOK, NEW r \in Runs, NEW tool \in Tools, agent[r].call < MaxCalls,
         NEW pc \in {"thinking", "executing", "waiting"},
         Calling(r, tool, pc)
  PROVE  /\ agent' \in [Runs -> Task]
         /\ agent[r].call + 1 \in Calls
         /\ agent'[r].pc = pc /\ agent'[r].tool = tool
         /\ agent'[r].call = agent[r].call + 1
         /\ agent'[r].tainted = agent[r].tainted
         /\ agent'[r].private = agent[r].private
         /\ \A q \in Runs \ {r} : agent'[q] = agent[q]
  <1>1. agent[r] \in Task
    BY DEF TypeOK
  <1>2. agent[r].call + 1 \in 0..MaxCalls /\ agent[r].call + 1 \in Calls
    BY <1>1 DEF Task, Calls
  <1> DEFINE a == [agent[r] EXCEPT !.pc = pc, !.tool = tool, !.call = agent[r].call + 1]
  <1>3. /\ a.pc = pc /\ a.tool = tool /\ a.call = agent[r].call + 1
        /\ a.tainted = agent[r].tainted /\ a.private = agent[r].private
    BY <1>1 DEF Task
  <1>4. a \in Task
    BY <1>1, <1>2 DEF Task
  <1>5. agent' = [agent EXCEPT ![r] = a]
    BY DEF Calling
  <1> HIDE DEF a
  <1>6. QED  BY <1>2, <1>3, <1>4, <1>5 DEF TypeOK

\* A task that goes on keeps the call it makes and what it has read.
LEMMA GoValue ==
  ASSUME TypeOK, NEW r \in Runs,
         NEW pc \in {"none", "queued", "thinking", "waiting", "expiring",
                     "reading", "executing"} \cup Finals,
         Go(r, pc)
  PROVE  /\ agent' \in [Runs -> Task]
         /\ agent'[r].pc = pc /\ agent'[r].tool = agent[r].tool
         /\ agent'[r].call = agent[r].call
         /\ agent'[r].tainted = agent[r].tainted
         /\ agent'[r].private = agent[r].private
         /\ \A q \in Runs \ {r} : agent'[q] = agent[q]
  <1>1. agent[r] \in Task
    BY DEF TypeOK
  <1> DEFINE a == [agent[r] EXCEPT !.pc = pc]
  <1>2. /\ a.pc = pc /\ a.tool = agent[r].tool /\ a.call = agent[r].call
        /\ a.tainted = agent[r].tainted /\ a.private = agent[r].private
    BY <1>1 DEF Task
  <1>3. a \in Task
    BY <1>1, Values
  <1>4. agent' = [agent EXCEPT ![r] = a]
    BY DEF Go
  <1> HIDE DEF a
  <1>5. QED  BY <1>2, <1>3, <1>4 DEF TypeOK

\* The row of a run with another status.
LEMMA StatusValue ==
  ASSUME TypeOK, NEW r \in Runs,
         NEW st \in {"queued", "running", "waiting_approval"} \cup Finals,
         SetStatus(r, st)
  PROVE  /\ runs' \in [Runs -> RunRow]
         /\ runs'[r].status = st
         /\ \A q \in Runs \ {r} : runs'[q] = runs[q]
  <1>1. runs[r] \in RunRow
    BY DEF TypeOK
  <1> DEFINE row == [runs[r] EXCEPT !.status = st]
  <1>2. row.status = st /\ row \in RunRow
    BY <1>1, Values DEF RunRow
  <1>3. runs' = [runs EXCEPT ![r] = row]
    BY DEF SetStatus
  <1> HIDE DEF row
  <1>4. QED  BY <1>2, <1>3 DEF TypeOK

\* One approval of one run with another status.
LEMMA ApprovalValue ==
  ASSUME TypeOK, NEW r \in Runs, NEW c \in Calls, NEW st \in ApprovalStatuses,
         SetApproval(r, c, st)
  PROVE  /\ appr' \in [Runs -> [Calls -> ApprovalStatuses]]
         /\ appr'[r][c] = st
         /\ \A k \in Calls \ {c} : appr'[r][k] = appr[r][k]
         /\ \A q \in Runs \ {r} : appr'[q] = appr[q]
  <1>1. appr[r] \in [Calls -> ApprovalStatuses]
    BY DEF TypeOK
  <1> DEFINE f == [appr[r] EXCEPT ![c] = st]
  <1>2. /\ f \in [Calls -> ApprovalStatuses] /\ f[c] = st
        /\ \A k \in Calls \ {c} : f[k] = appr[r][k]
    BY <1>1
  <1>3. appr' = [appr EXCEPT ![r] = f]
    BY DEF SetApproval
  <1> HIDE DEF f
  <1>4. QED  BY <1>2, <1>3 DEF TypeOK

\* What the tool adds to what the run has read.
LEMMA ExecuteValue ==
  ASSUME TypeOK, NEW r \in Runs, Execute(r)
  PROVE  /\ agent' \in [Runs -> Task]
         /\ agent'[r].pc = "thinking" /\ agent'[r].call = agent[r].call
         /\ \A q \in Runs \ {r} : agent'[q] = agent[q]
  <1>1. agent[r] \in Task
    BY DEF TypeOK
  <1> DEFINE t == agent[r].tainted \/ agent[r].tool \in Sources
             p == agent[r].private \/ agent[r].tool \in PrivateSources
             a == [agent[r] EXCEPT !.pc = "thinking", !.tainted = t, !.private = p]
  <1>2. t \in BOOLEAN /\ p \in BOOLEAN
    BY Zenon
  <1> HIDE DEF t, p
  <1>3. a \in Task /\ a.pc = "thinking" /\ a.call = agent[r].call
    BY <1>1, <1>2 DEF Task
  <1>4. agent' = [agent EXCEPT ![r] = a]
    BY Zenon DEF Execute, a, t, p
  <1> HIDE DEF a
  <1>5. QED  BY <1>3, <1>4 DEF TypeOK

\* Every step keeps the types.
LEMMA TypeInv == IInv /\ [Next]_vars => TypeOK'
  <1> SUFFICES ASSUME IInv, [Next]_vars PROVE TypeOK'
    OBVIOUS
  <1>0. TypeOK  BY DEF IInv
  <1> USE <1>0 DEF store, service
  <1>1. ASSUME NEW s \in Services, NEW r \in Runs, StartRun(s, r) PROVE TypeOK'
    <2>1. [status |-> "queued", by |-> Self(s)] \in RunRow
      BY DEF RunRow, Self, TypeOK
    <2>2. QED  BY <1>1, <2>1, Values DEF StartRun, TypeOK
  <1>2. ASSUME NEW r \in Runs, Step(r) PROVE TypeOK'
    <2>1. ASSUME Begin(r) PROVE TypeOK'
      BY <2>1, GoValue, StatusValue DEF Begin, StoreFails, Fault, TypeOK
    <2>2. ASSUME CannotBegin(r) PROVE TypeOK'
      BY <2>2, GoValue DEF CannotBegin, StoreFails, Fault, TypeOK
    <2>3. ASSUME Answer(r) PROVE TypeOK'
      BY <2>3, GoValue DEF Answer, TypeOK
    <2>4. ASSUME NEW tool \in Tools, Refused(r, tool) PROVE TypeOK'
      BY <2>4, CallingValue DEF Refused, TypeOK
    <2>5. ASSUME NEW tool \in Tools, Allowed(r, tool) PROVE TypeOK'
      BY <2>5, CallingValue DEF Allowed, TypeOK
    <2>6. ASSUME NEW tool \in Tools, Ask(r, tool) PROVE TypeOK'
      <3>1. agent' \in [Runs -> Task] /\ agent[r].call + 1 \in Calls
        BY <2>6, CallingValue DEF Ask
      <3>2. appr' \in [Runs -> [Calls -> ApprovalStatuses]]
        BY <2>6, <3>1, ApprovalValue DEF Ask, ApprovalStatuses
      <3>3. runs' \in [Runs -> RunRow]
        BY <2>6, StatusValue DEF Ask
      <3>4. QED  BY <2>6, <3>1, <3>2, <3>3 DEF Ask, TypeOK
    <2>7. ASSUME NEW tool \in Tools, AskFails(r, tool) PROVE TypeOK'
      BY <2>7, CallingValue DEF AskFails, StoreFails, Fault, TypeOK
    <2>8. ASSUME Delivered(r) PROVE TypeOK'
      BY <2>8, GoValue DEF Delivered, Resume, TypeOK
    <2>9. ASSUME Poll(r) PROVE TypeOK'
      BY <2>9, GoValue DEF Poll, Resume, TypeOK
    <2>10. ASSUME Deadline(r) PROVE TypeOK'
      BY <2>10, GoValue DEF Deadline, TypeOK
    <2>11. ASSUME Expire(r) PROVE TypeOK'
      <3>1. agent' \in [Runs -> Task]
        BY <2>11, GoValue DEF Expire
      <3>2. agent[r].call \in Calls
        BY <2>11 DEF Expire, IInv, RunsOK, RunOK, GateOK, Asked, At
      <3>3. appr' \in [Runs -> [Calls -> ApprovalStatuses]]
        BY <2>11, <3>2, ApprovalValue DEF Expire, ApprovalStatuses, TypeOK
      <3>4. QED  BY <2>11, <3>1, <3>3 DEF Expire, TypeOK
    <2>12. ASSUME Reread(r) PROVE TypeOK'
      BY <2>12, GoValue DEF Reread, Resume, TypeOK
    <2>13. ASSUME ExpiryFails(r) PROVE TypeOK'
      BY <2>13, GoValue DEF ExpiryFails, Resume, StoreFails, Fault, TypeOK
    <2>14. ASSUME Execute(r) PROVE TypeOK'
      BY <2>14, ExecuteValue DEF Execute, TypeOK
    <2>15. ASSUME End(r) PROVE TypeOK'
      <3>1. agent' \in [Runs -> Task]
        BY <2>15, Values DEF End, TypeOK
      <3>2. runs' \in [Runs -> RunRow]
        <4>1. CASE SetStatus(r, agent[r].pc)
          BY <2>15, <4>1, StatusValue DEF End
        <4>2. CASE UNCHANGED runs
          BY <4>2 DEF TypeOK
        <4>3. QED  BY <2>15, <4>1, <4>2 DEF End
      <3>3. faults' \in 0..MaxFaults
        BY <2>15 DEF End, StoreFails, Fault, TypeOK
      <3>4. QED  BY <2>15, <3>1, <3>2, <3>3 DEF End, TypeOK
    <2>16. QED
      BY <1>2, <2>1, <2>2, <2>3, <2>4, <2>5, <2>6, <2>7, <2>8, <2>9, <2>10,
         <2>11, <2>12, <2>13, <2>14, <2>15 DEF Step
  <1>3. ASSUME NEW s \in Services, NEW r \in Runs, NEW c \in Calls,
               NEW answer \in Answers, Decide(s, r, c, answer)
        PROVE  TypeOK'
    <2>1. appr' \in [Runs -> [Calls -> ApprovalStatuses]]
      BY <1>3, ApprovalValue DEF Decide, ApprovalStatuses
    <2>2. runs' \in [Runs -> RunRow]
      BY <1>3, StatusValue DEF Decide, SetStatus, TypeOK
    <2>3. wake' \subseteq Runs \X Calls \X Answers
      BY <1>3 DEF Decide, TypeOK
    <2>4. QED  BY <1>3, <2>1, <2>2, <2>3 DEF Decide, TypeOK
  <1>4. ASSUME NEW r \in Runs, NEW c \in Calls, NEW answer \in Answers,
               Wake(r, c, answer)
        PROVE  TypeOK'
    BY <1>4 DEF Wake, TypeOK
  <1>5. ASSUME NEW s \in Services, Crash(s) PROVE TypeOK'
    <2>1. agent' \in [Runs -> Task]
      BY <1>5, Values DEF Crash, TypeOK
    <2>2. waiter' \in [Runs -> {"none", "open"} \cup Answers]
      BY <1>5 DEF Crash, TypeOK
    <2>3. wake' \subseteq Runs \X Calls \X Answers
      BY <1>5 DEF Crash, TypeOK
    <2>4. faults' \in 0..MaxFaults
      BY <1>5 DEF Crash, Fault, TypeOK
    <2>5. up' \in [Services -> BOOLEAN]
      BY <1>5 DEF Crash, TypeOK
    <2>6. QED  BY <1>5, <2>1, <2>2, <2>3, <2>4, <2>5 DEF Crash, TypeOK
  <1>6. ASSUME NEW s \in Services, Notice(s) PROVE TypeOK'
    BY <1>6 DEF Notice, TypeOK
  <1>7. ASSUME NEW s \in Services, Stall(s) PROVE TypeOK'
    BY <1>7 DEF Stall, Fault, TypeOK
  <1>8. ASSUME NEW s \in Services, Start(s) PROVE TypeOK'
    <2>1. PICK gone \in SUBSET Runs :
            /\ runs' = [r \in Runs |-> IF r \in gone
                                       THEN [runs[r] EXCEPT !.status = "failed"]
                                       ELSE runs[r]]
            /\ appr' = [r \in Runs |-> IF r \in gone
                                       THEN [c \in Calls |-> Closed(appr[r][c])]
                                       ELSE appr[r]]
      BY <1>8 DEF Start
    <2>2. runs' \in [Runs -> RunRow]
      BY <2>1, Values DEF TypeOK
    <2>3. appr' \in [Runs -> [Calls -> ApprovalStatuses]]
      BY <2>1 DEF TypeOK, Closed, Settled, ApprovalStatuses
    <2>4. fresh' \subseteq Services \X Nat /\ epoch' \in [Services -> Nat]
      BY <1>8 DEF Start, TypeOK
    <2>5. QED  BY <1>8, <2>2, <2>3, <2>4 DEF Start, TypeOK
  <1>9. ASSUME UNCHANGED vars PROVE TypeOK'
    BY <1>9 DEF vars, TypeOK
  <1>10. QED
    BY <1>1, <1>2, <1>3, <1>4, <1>5, <1>6, <1>7, <1>8, <1>9 DEF Next

\* A run whose task, channel and approvals do not change.
LEMMA Frame ==
  ASSUME NEW q \in Runs, RunOK(q),
         runs'[q].status = "absent" => runs[q].status = "absent",
         appr'[q] = appr[q], agent'[q] = agent[q], waiter'[q] = waiter[q]
  PROVE  RunOK(q)'
  BY DEF RunOK, ChannelOK, GateOK, FutureOK, Asked, At, Decision, Approved

\* A step of one run leaves the others as they are.
LEMMA OneRun ==
  ASSUME NEW r \in Runs, RunsOK, RunOK(r)',
         \A q \in Runs \ {r} : /\ runs'[q] = runs[q] /\ appr'[q] = appr[q]
                               /\ agent'[q] = agent[q] /\ waiter'[q] = waiter[q]
  PROVE  RunsOK'
  <1>1. ASSUME NEW q \in Runs \ {r} PROVE RunOK(q)'
    BY Frame DEF RunsOK
  <1>2. QED  BY <1>1 DEF RunsOK

\* What is decided stays decided: the messages on their way stay true.
LEMMA StillTrue ==
  ASSUME TypeOK, WakeOK, wake' \subseteq wake,
         \A q \in Runs, c \in Calls : appr[q][c] \in Answers => appr'[q][c] = appr[q][c]
  PROVE  WakeOK'
  <1> SUFFICES ASSUME NEW m \in wake' PROVE appr'[m[1]][m[2]] = m[3]
    BY DEF WakeOK
  <1>1. m \in wake /\ m[1] \in Runs /\ m[2] \in Calls /\ m[3] \in Answers
    BY DEF TypeOK
  <1>2. QED  BY <1>1 DEF WakeOK

\* A run goes on with the outcome it was given: it executes only what the
\* store says is approved.
LEMMA Resumed ==
  ASSUME IInv, NEW r \in Runs, Asked(r), NEW outcome, Resume(r, outcome),
         outcome = "approved" => Approved(r), UNCHANGED <<runs, appr>>
  PROVE  RunsOK'
  <1>0. TypeOK /\ RunsOK /\ RunOK(r)
    BY DEF IInv, RunsOK
  <1> DEFINE pc == IF outcome = "approved" THEN "executing" ELSE "thinking"
  <1>1. Go(r, pc) /\ waiter' = [waiter EXCEPT ![r] = "none"]
    BY DEF Resume
  <1>2. /\ agent'[r].pc = pc /\ agent'[r].tool = agent[r].tool
        /\ agent'[r].call = agent[r].call
        /\ agent'[r].tainted = agent[r].tainted
        /\ agent'[r].private = agent[r].private
        /\ \A q \in Runs \ {r} : agent'[q] = agent[q]
    BY <1>0, <1>1, GoValue
  <1>3. /\ waiter'[r] = "none"
        /\ \A q \in Runs \ {r} : waiter'[q] = waiter[q]
    BY <1>0, <1>1 DEF TypeOK
  <1>4. ChannelOK(r)'
    BY <1>3 DEF ChannelOK
  <1>5. GateOK(r)'
    BY <1>0, <1>2 DEF RunOK, GateOK, Asked, At, Decision, Approved
  <1>6. FutureOK(r)'
    BY <1>0, <1>2 DEF RunOK, FutureOK, Asked
  <1>7. RunOK(r)'
    BY <1>4, <1>5, <1>6 DEF RunOK
  <1>8. QED  BY <1>0, <1>2, <1>3, <1>7, OneRun

\* A step that ends no call and asks nothing: the task is, before and after,
\* in none of the states the gate speaks of.
LEMMA Plain ==
  ASSUME TypeOK, RunsOK, NEW r \in Runs,
         agent[r].pc # "waiting",
         agent'[r].pc \notin {"waiting", "expiring", "reading", "executing"},
         agent'[r].pc = "none" \/ (agent[r].pc # "none" /\ agent'[r].call >= agent[r].call),
         agent[r].call \in Nat, agent'[r].call \in Nat,
         runs'[r].status = "absent" => runs[r].status = "absent",
         UNCHANGED <<appr, waiter>>,
         \A q \in Runs \ {r} : runs'[q] = runs[q] /\ agent'[q] = agent[q]
  PROVE  RunsOK'
  <1>1. RunOK(r)
    BY DEF RunsOK
  <1>2. ChannelOK(r)'
    BY <1>1 DEF RunOK, ChannelOK
  <1>3. GateOK(r)'
    BY DEF GateOK, Asked, At
  <1>4. FutureOK(r)'
    BY <1>1 DEF RunOK, FutureOK, Calls
  <1>5. RunOK(r)'
    BY <1>2, <1>3, <1>4 DEF RunOK
  <1>6. QED  BY <1>5, OneRun

\* Every step of a run's task keeps what is known of all runs.
LEMMA StepInv ==
  ASSUME IInv, NEW r \in Runs, Step(r)
  PROVE  RunsOK' /\ WakeOK'
  <1>0. /\ TypeOK /\ RunsOK /\ WakeOK /\ RunOK(r)
        /\ agent[r] \in Task /\ agent[r].call \in 0..MaxCalls /\ agent[r].call \in Nat
    BY DEF IInv, RunsOK, TypeOK, Task
  <1> USE DEF store, service
  <1>1. ASSUME Begin(r) PROVE RunsOK' /\ WakeOK'
    <2>1. /\ agent'[r].pc = "thinking" /\ agent'[r].call = agent[r].call
          /\ \A q \in Runs \ {r} : agent'[q] = agent[q]
      BY <1>0, <1>1, GoValue DEF Begin
    <2>2. /\ runs'[r].status = "absent" => runs[r].status = "absent"
          /\ \A q \in Runs \ {r} : runs'[q] = runs[q]
      BY <1>0, <1>1, StatusValue DEF Begin
    <2>3. RunsOK'
      BY <1>0, <1>1, <2>1, <2>2, Plain DEF Begin, At
    <2>4. WakeOK'
      BY <1>0, <1>1, StillTrue DEF Begin
    <2>5. QED  BY <2>3, <2>4
  <1>2. ASSUME CannotBegin(r) PROVE RunsOK' /\ WakeOK'
    <2>1. /\ agent'[r].pc = "failed" /\ agent'[r].call = agent[r].call
          /\ \A q \in Runs \ {r} : agent'[q] = agent[q]
      BY <1>0, <1>2, GoValue DEF CannotBegin
    <2>2. RunsOK'
      BY <1>0, <1>2, <2>1, Plain DEF CannotBegin, At
    <2>3. QED  BY <1>0, <1>2, <2>2, StillTrue DEF CannotBegin
  <1>3. ASSUME Answer(r) PROVE RunsOK' /\ WakeOK'
    <2>1. /\ agent'[r].pc \in Finals /\ agent'[r].call = agent[r].call
          /\ \A q \in Runs \ {r} : agent'[q] = agent[q]
      BY <1>0, <1>3, GoValue DEF Answer
    <2>2. RunsOK'
      BY <1>0, <1>3, <2>1, Plain DEF Answer, At
    <2>3. QED  BY <1>0, <1>3, <2>2, StillTrue DEF Answer
  <1>4. ASSUME NEW tool \in Tools, Refused(r, tool) \/ AskFails(r, tool)
        PROVE  RunsOK' /\ WakeOK'
    <2>1. /\ agent'[r].pc = "thinking" /\ agent'[r].call = agent[r].call + 1
          /\ \A q \in Runs \ {r} : agent'[q] = agent[q]
      BY <1>0, <1>4, CallingValue DEF Refused, AskFails
    <2>2. RunsOK'
      BY <1>0, <1>4, <2>1, Plain DEF Refused, AskFails, At
    <2>3. QED  BY <1>0, <1>4, <2>2, StillTrue DEF Refused, AskFails
  <1>5. ASSUME NEW tool \in Tools, Allowed(r, tool) PROVE RunsOK' /\ WakeOK'
    <2>1. /\ agent'[r].pc = "executing" /\ agent'[r].tool = tool
          /\ agent'[r].call = agent[r].call + 1 /\ agent[r].call + 1 \in Calls
          /\ agent'[r].tainted = agent[r].tainted /\ agent'[r].private = agent[r].private
          /\ \A q \in Runs \ {r} : agent'[q] = agent[q]
      BY <1>0, <1>5, CallingValue DEF Allowed
    <2>2. ChannelOK(r)'
      BY <1>0, <1>5 DEF Allowed, At, RunOK, ChannelOK
    <2>3. GateOK(r)'
      BY <1>5, <2>1 DEF Allowed, GateOK, Asked, At, Decision
    <2>4. FutureOK(r)'
      BY <1>0, <1>5, <2>1 DEF Allowed, At, RunOK, FutureOK, Calls
    <2>5. RunOK(r)'
      BY <2>2, <2>3, <2>4 DEF RunOK
    <2>6. RunsOK'
      BY <1>0, <1>5, <2>1, <2>5, OneRun DEF Allowed
    <2>7. QED  BY <1>0, <1>5, <2>6, StillTrue DEF Allowed
  <1>6. ASSUME NEW tool \in Tools, Ask(r, tool) PROVE RunsOK' /\ WakeOK'
    <2>1. /\ agent'[r].pc = "waiting" /\ agent'[r].tool = tool
          /\ agent'[r].call = agent[r].call + 1 /\ agent[r].call + 1 \in Calls
          /\ agent'[r].tainted = agent[r].tainted /\ agent'[r].private = agent[r].private
          /\ \A q \in Runs \ {r} : agent'[q] = agent[q]
      BY <1>0, <1>6, CallingValue DEF Ask
    <2>2. /\ \A k \in Calls \ {agent[r].call + 1} : appr'[r][k] = appr[r][k]
          /\ \A q \in Runs \ {r} : appr'[q] = appr[q]
      BY <1>0, <1>6, <2>1, ApprovalValue DEF Ask, ApprovalStatuses
    <2>3. /\ waiter'[r] = "open"
          /\ \A q \in Runs \ {r} : waiter'[q] = waiter[q]
      BY <1>0, <1>6 DEF Ask, TypeOK
    <2>4. /\ runs'[r].status = "waiting_approval"
          /\ \A q \in Runs \ {r} : runs'[q] = runs[q]
      BY <1>0, <1>6, StatusValue DEF Ask
    <2>5. ChannelOK(r)'
      BY <2>1, <2>3 DEF ChannelOK
    <2>6. GateOK(r)'
      BY <1>6, <2>1 DEF Ask, GateOK, Asked, At, Decision
    <2>7. FutureOK(r)'
      BY <1>0, <1>6, <2>1, <2>2, <2>4 DEF Ask, At, RunOK, FutureOK, Calls
    <2>8. RunOK(r)'
      BY <2>5, <2>6, <2>7 DEF RunOK
    <2>9. RunsOK'
      BY <1>0, <2>1, <2>2, <2>3, <2>4, <2>8, OneRun
    <2>10. appr[r][agent[r].call + 1] = "none"
      BY <1>0, <1>6, <2>1 DEF Ask, At, RunOK, FutureOK, Calls
    <2>11. WakeOK'
      BY <1>0, <1>6, <2>2, <2>10, StillTrue DEF Ask
    <2>12. QED  BY <2>9, <2>11
  <1>7. ASSUME Delivered(r) PROVE RunsOK' /\ WakeOK'
    <2>1. Asked(r) /\ (waiter[r] = "approved" => Approved(r))
      BY <1>0, <1>7 DEF Delivered, At, Asked, RunOK, ChannelOK, Approved
    <2>2. RunsOK'
      BY <1>7, <2>1, Resumed DEF Delivered
    <2>3. QED  BY <1>0, <1>7, <2>2, StillTrue DEF Delivered
  <1>8. ASSUME Poll(r) PROVE RunsOK' /\ WakeOK'
    <2>1. Asked(r) /\ (appr[r][agent[r].call] = "approved" => Approved(r))
      BY <1>8 DEF Poll, At, Asked, Approved
    <2>2. RunsOK'
      BY <1>8, <2>1, Resumed DEF Poll
    <2>3. QED  BY <1>0, <1>8, <2>2, StillTrue DEF Poll
  <1>9. ASSUME Deadline(r) PROVE RunsOK' /\ WakeOK'
    <2>1. /\ agent'[r].pc = "expiring" /\ agent'[r].tool = agent[r].tool
          /\ agent'[r].call = agent[r].call
          /\ agent'[r].tainted = agent[r].tainted /\ agent'[r].private = agent[r].private
          /\ \A q \in Runs \ {r} : agent'[q] = agent[q]
      BY <1>0, <1>9, GoValue DEF Deadline
    <2>2. /\ waiter'[r] = "none"
          /\ \A q \in Runs \ {r} : waiter'[q] = waiter[q]
      BY <1>0, <1>9 DEF Deadline, TypeOK
    <2>3. RunOK(r)'
      BY <1>0, <1>9, <2>1, <2>2
         DEF Deadline, RunOK, ChannelOK, GateOK, FutureOK, Asked, At, Decision
    <2>4. RunsOK'
      BY <1>0, <1>9, <2>1, <2>2, <2>3, OneRun DEF Deadline
    <2>5. QED  BY <1>0, <1>9, <2>4, StillTrue DEF Deadline
  <1>10. ASSUME Expire(r) PROVE RunsOK' /\ WakeOK'
    <2>1. /\ agent'[r].pc = "reading" /\ agent'[r].tool = agent[r].tool
          /\ agent'[r].call = agent[r].call
          /\ agent'[r].tainted = agent[r].tainted /\ agent'[r].private = agent[r].private
          /\ \A q \in Runs \ {r} : agent'[q] = agent[q]
      BY <1>0, <1>10, GoValue DEF Expire
    <2>2. agent[r].call \in Calls
      BY <1>0, <1>10 DEF Expire, RunOK, GateOK, Asked, At
    <2>3. /\ \A k \in Calls : appr[r][k] # "pending" => appr'[r][k] = appr[r][k]
          /\ \A k \in Calls \ {agent[r].call} : appr'[r][k] = appr[r][k]
          /\ \A q \in Runs \ {r} : appr'[q] = appr[q]
      BY <1>0, <1>10, <2>2, ApprovalValue DEF Expire, ApprovalStatuses
    <2>4. ChannelOK(r)'
      BY <1>0, <1>10 DEF Expire, At, RunOK, ChannelOK
    <2>5. GateOK(r)'
      BY <1>0, <1>10, <2>1 DEF Expire, RunOK, GateOK, Asked, At, Decision
    <2>6. FutureOK(r)'
      BY <1>0, <1>10, <2>1, <2>2, <2>3 DEF Expire, At, RunOK, FutureOK, Calls
    <2>7. RunOK(r)'
      BY <2>4, <2>5, <2>6 DEF RunOK
    <2>8. RunsOK'
      BY <1>0, <1>10, <2>1, <2>3, <2>7, OneRun DEF Expire
    <2>9. \A q \in Runs, c \in Calls : appr[q][c] \in Answers => appr'[q][c] = appr[q][c]
      BY <2>3
    <2>10. QED  BY <1>0, <1>10, <2>8, <2>9, StillTrue DEF Expire
  <1>11. ASSUME Reread(r) PROVE RunsOK' /\ WakeOK'
    <2>1. Asked(r) /\ (Truth(r) = "approved" => Approved(r))
      BY <1>11 DEF Reread, Truth, At, Asked, Approved
    <2>2. RunsOK'
      BY <1>11, <2>1, Resumed DEF Reread
    <2>3. QED  BY <1>0, <1>11, <2>2, StillTrue DEF Reread
  <1>12. ASSUME ExpiryFails(r) PROVE RunsOK' /\ WakeOK'
    <2>1. Asked(r)
      BY <1>12 DEF ExpiryFails, Asked
    <2>2. RunsOK'
      BY <1>12, <2>1, Resumed DEF ExpiryFails
    <2>3. QED  BY <1>0, <1>12, <2>2, StillTrue DEF ExpiryFails
  <1>13. ASSUME Execute(r) PROVE RunsOK' /\ WakeOK'
    <2>1. /\ agent'[r].pc = "thinking" /\ agent'[r].call = agent[r].call
          /\ \A q \in Runs \ {r} : agent'[q] = agent[q]
      BY <1>0, <1>13, ExecuteValue
    <2>2. RunsOK'
      BY <1>0, <1>13, <2>1, Plain DEF Execute, At
    <2>3. QED  BY <1>0, <1>13, <2>2, StillTrue DEF Execute
  <1>14. ASSUME End(r) PROVE RunsOK' /\ WakeOK'
    <2>1. /\ agent'[r].pc = "none" /\ agent'[r].call = 0
          /\ \A q \in Runs \ {r} : agent'[q] = agent[q]
      BY <1>0, <1>14 DEF End, NoTask, TypeOK
    <2>2. /\ runs'[r].status = "absent" => runs[r].status = "absent"
          /\ \A q \in Runs \ {r} : runs'[q] = runs[q]
      <3>1. CASE SetStatus(r, agent[r].pc)
        BY <1>0, <1>14, <3>1, StatusValue DEF End
      <3>2. CASE UNCHANGED runs
        BY <3>2
      <3>3. QED  BY <1>14, <3>1, <3>2 DEF End
    <2>3. RunsOK'
      BY <1>0, <1>14, <2>1, <2>2, Plain DEF End
    <2>4. QED  BY <1>0, <1>14, <2>3, StillTrue DEF End
  <1>15. QED
    BY <1>1, <1>2, <1>3, <1>4, <1>5, <1>6, <1>7, <1>8, <1>9, <1>10, <1>11,
       <1>12, <1>13, <1>14 DEF Step

\* The invariant is inductive.
LEMMA InvStep == IInv /\ [Next]_vars => IInv'
  <1> SUFFICES ASSUME IInv, [Next]_vars PROVE IInv'
    OBVIOUS
  <1>0. TypeOK /\ RunsOK /\ WakeOK /\ TypeOK'
    BY TypeInv DEF IInv
  <1> USE DEF store, service
  <1>1. ASSUME NEW s \in Services, NEW r \in Runs, StartRun(s, r)
        PROVE  RunsOK' /\ WakeOK'
    <2>1. RunOK(r)
      BY <1>0 DEF RunsOK
    <2>2. /\ agent'[r].pc = "queued" /\ runs'[r].status = "queued"
          /\ \A q \in Runs \ {r} : agent'[q] = agent[q] /\ runs'[q] = runs[q]
      BY <1>0, <1>1, Values DEF StartRun, TypeOK, NoTask
    <2>3. \A c \in Calls : appr[r][c] = "none"
      BY <1>1, <2>1 DEF StartRun, RunOK, FutureOK
    <2>4. waiter[r] = "none"
      BY <1>1, <2>1 DEF StartRun, RunOK, ChannelOK, FutureOK
    <2>6. RunOK(r)'
      BY <1>1, <2>2, <2>3, <2>4 DEF StartRun, RunOK, ChannelOK, GateOK, FutureOK, Asked, At
    <2>7. RunsOK'
      BY <1>0, <1>1, <2>2, <2>6, OneRun DEF StartRun
    <2>8. QED  BY <1>0, <1>1, <2>7, StillTrue DEF StartRun
  <1>2. ASSUME NEW r \in Runs, Step(r) PROVE RunsOK' /\ WakeOK'
    BY <1>2, StepInv
  <1>3. ASSUME NEW s \in Services, NEW r \in Runs, NEW c \in Calls,
               NEW answer \in Answers, Decide(s, r, c, answer)
        PROVE  RunsOK' /\ WakeOK'
    <2>1. /\ appr[r][c] = "pending" /\ appr'[r][c] = answer
          /\ \A k \in Calls \ {c} : appr'[r][k] = appr[r][k]
          /\ \A q \in Runs \ {r} : appr'[q] = appr[q]
      BY <1>0, <1>3, ApprovalValue DEF Decide, ApprovalStatuses
    <2>2. /\ runs'[r].status = "absent" => runs[r].status = "absent"
          /\ \A q \in Runs \ {r} : runs'[q] = runs[q]
      BY <1>0, <1>3, StatusValue DEF Decide, SetStatus
    <2>3. RunOK(r)
      BY <1>0 DEF RunsOK
    <2>4. ChannelOK(r)'
      <3>1. CASE waiter[r] \in Answers
        <4>1. agent[r].call \in Calls
          BY <2>3, <3>1 DEF RunOK, ChannelOK, GateOK, Asked
        <4>2. c # agent[r].call
          BY <2>1, <2>3, <3>1 DEF RunOK, ChannelOK
        <4>3. QED  BY <1>3, <2>1, <2>3, <4>1, <4>2 DEF Decide, RunOK, ChannelOK
      <3>2. CASE waiter[r] \notin Answers
        BY <1>3, <2>3, <3>2 DEF Decide, RunOK, ChannelOK
      <3>3. QED  BY <3>1, <3>2
    <2>5. GateOK(r)'
      <3>1. ASSUME At(r, "executing"), Approved(r) PROVE Approved(r)'
        <4>1. agent[r].call \in Calls /\ c # agent[r].call
          BY <2>1, <2>3, <3>1 DEF RunOK, GateOK, Approved
        <4>2. QED  BY <1>3, <2>1, <3>1, <4>1 DEF Decide, Approved
      <3>2. QED  BY <1>3, <2>3, <3>1 DEF Decide, RunOK, GateOK, Asked, At, Decision
    <2>6. FutureOK(r)'
      BY <1>3, <2>1, <2>2, <2>3 DEF Decide, RunOK, FutureOK
    <2>7. RunOK(r)'
      BY <2>4, <2>5, <2>6 DEF RunOK
    <2>8. RunsOK'
      BY <1>0, <1>3, <2>1, <2>2, <2>7, OneRun DEF Decide
    <2>9. ASSUME NEW m \in wake' PROVE appr'[m[1]][m[2]] = m[3]
      <3>1. CASE m \in wake
        <4>1. m[1] \in Runs /\ m[2] \in Calls /\ appr[m[1]][m[2]] = m[3] /\ m[3] \in Answers
          BY <1>0, <3>1 DEF TypeOK, WakeOK
        <4>2. QED  BY <2>1, <4>1
      <3>2. CASE m = <<r, c, answer>>
        BY <2>1, <3>2
      <3>3. QED  BY <1>3, <3>1, <3>2 DEF Decide
    <2>10. QED  BY <2>8, <2>9 DEF WakeOK
  <1>4. ASSUME NEW r \in Runs, NEW c \in Calls, NEW answer \in Answers,
               Wake(r, c, answer)
        PROVE  RunsOK' /\ WakeOK'
    <2>1. appr[r][c] = answer
      BY <1>0, <1>4 DEF Wake, WakeOK
    <2>2. RunOK(r)
      BY <1>0 DEF RunsOK
    <2>3. \A q \in Runs \ {r} : waiter'[q] = waiter[q]
      BY <1>0, <1>4 DEF Wake, TypeOK
    <2>4. ChannelOK(r)'
      <3>1. CASE Listens(r, c)
        <4>1. waiter'[r] = answer
          BY <1>0, <1>4, <3>1 DEF Wake, TypeOK
        <4>2. agent[r].pc = "waiting" /\ agent[r].call = c
          BY <2>2, <3>1 DEF Listens, RunOK, ChannelOK
        <4>3. QED  BY <1>4, <2>1, <4>1, <4>2 DEF Wake, ChannelOK
      <3>2. CASE ~Listens(r, c)
        BY <1>4, <2>2, <3>2 DEF Wake, RunOK, ChannelOK
      <3>3. QED  BY <3>1, <3>2
    <2>5. GateOK(r)' /\ FutureOK(r)'
      BY <1>4, <2>2 DEF Wake, RunOK, GateOK, FutureOK, Asked, At, Decision, Approved
    <2>6. RunOK(r)'
      BY <2>4, <2>5 DEF RunOK
    <2>7. RunsOK'
      BY <1>0, <1>4, <2>3, <2>6, OneRun DEF Wake
    <2>8. QED  BY <1>0, <1>4, <2>7, StillTrue DEF Wake
  <1>5. ASSUME NEW s \in Services, Crash(s) PROVE RunsOK' /\ WakeOK'
    <2>1. ASSUME NEW q \in Runs PROVE RunOK(q)'
      <3>1. RunOK(q)
        BY <1>0 DEF RunsOK
      <3>2. CASE ServiceOf(q) = s
        <4>1. agent'[q].pc = "none" /\ waiter'[q] = "none"
          BY <1>5, <3>2 DEF Crash, NoTask
        <4>2. QED
          BY <1>5, <3>1, <4>1 DEF Crash, RunOK, ChannelOK, GateOK, FutureOK, Asked, At
      <3>3. CASE ServiceOf(q) # s
        BY <1>5, <3>1, <3>3, Frame DEF Crash
      <3>4. QED  BY <3>2, <3>3
    <2>2. wake' \subseteq wake
      BY <1>5 DEF Crash
    <2>3. WakeOK'
      BY <1>0, <1>5, <2>2, StillTrue DEF Crash
    <2>4. QED  BY <2>1, <2>3 DEF RunsOK
  <1>6. ASSUME NEW s \in Services, Notice(s) \/ Stall(s) PROVE RunsOK' /\ WakeOK'
    <2>1. UNCHANGED <<runs, appr, agent, waiter, wake>>
      BY <1>6 DEF Notice, Stall
    <2>2. RunsOK'
      BY <1>0, <2>1, Frame DEF RunsOK
    <2>3. QED  BY <1>0, <2>1, <2>2, StillTrue
  <1>7. ASSUME NEW s \in Services, Start(s) PROVE RunsOK' /\ WakeOK'
    <2>1. /\ UNCHANGED <<agent, waiter, wake>>
          /\ \A q \in Runs : runs'[q].status = "absent" => runs[q].status = "absent"
          /\ \A q \in Runs : \A c \in Calls :
               appr[q][c] # "pending" => appr'[q][c] = appr[q][c]
      <3>1. PICK gone \in SUBSET Runs :
              /\ runs' = [r \in Runs |-> IF r \in gone
                                         THEN [runs[r] EXCEPT !.status = "failed"]
                                         ELSE runs[r]]
              /\ appr' = [r \in Runs |-> IF r \in gone
                                         THEN [c \in Calls |-> Closed(appr[r][c])]
                                         ELSE appr[r]]
        BY <1>7 DEF Start
      <3>2. \A q \in Runs : runs'[q].status = "absent" => runs[q].status = "absent"
        BY <1>0, <3>1 DEF TypeOK, RunRow
      <3>3. \A q \in Runs : \A c \in Calls :
              appr[q][c] # "pending" => appr'[q][c] = appr[q][c]
        BY <3>1 DEF Closed, Settled
      <3>4. QED  BY <1>7, <3>2, <3>3 DEF Start
    <2>2. ASSUME NEW q \in Runs PROVE RunOK(q)'
      <3>1. RunOK(q)
        BY <1>0 DEF RunsOK
      <3>2. ChannelOK(q)'
        <4>1. CASE waiter[q] \in Answers
          <5>1. agent[q].call \in Calls /\ appr[q][agent[q].call] \in Answers
            BY <3>1, <4>1 DEF RunOK, ChannelOK, GateOK, Asked
          <5>2. QED  BY <2>1, <3>1, <5>1 DEF RunOK, ChannelOK
        <4>2. CASE waiter[q] \notin Answers
          BY <2>1, <3>1, <4>2 DEF RunOK, ChannelOK
        <4>3. QED  BY <4>1, <4>2
      <3>3. GateOK(q)'
        <4>1. CASE At(q, "executing") /\ Approved(q)
          <5>1. agent[q].call \in Calls
            BY <3>1, <4>1 DEF At, RunOK, GateOK
          <5>2. QED
            BY <2>1, <3>1, <4>1, <5>1 DEF RunOK, GateOK, Asked, At, Decision, Approved
        <4>2. CASE ~(At(q, "executing") /\ Approved(q))
          BY <2>1, <3>1, <4>2 DEF RunOK, GateOK, Asked, At, Decision
        <4>3. QED  BY <4>1, <4>2
      <3>4. FutureOK(q)'
        BY <2>1, <3>1 DEF RunOK, FutureOK
      <3>5. QED  BY <3>2, <3>3, <3>4 DEF RunOK
    <2>3. QED  BY <1>0, <2>1, <2>2, StillTrue DEF RunsOK
  <1>8. CASE UNCHANGED vars
    <2>1. RunsOK'
      BY <1>0, <1>8, Frame DEF vars, RunsOK
    <2>2. QED  BY <1>0, <1>8, <2>1, StillTrue DEF vars, IInv
  <1>9. QED
    BY <1>0, <1>1, <1>2, <1>3, <1>4, <1>5, <1>6, <1>7, <1>8 DEF Next, IInv

\* It holds in the initial state.
LEMMA InitInv == Init => IInv
  <1> SUFFICES ASSUME Init PROVE IInv
    OBVIOUS
  <1>1. \A r \in Runs : agent[r] = NoTask /\ waiter[r] = "none"
                        /\ \A c \in Calls : appr[r][c] = "none"
    BY DEF Init
  <1>2. TypeOK
    <2>1. (CHOOSE s \in Services : TRUE) \in Services
      OBVIOUS
    <2>2. runs \in [Runs -> RunRow]
      BY <2>1 DEF Init, RunRow
    <2>3. appr \in [Runs -> [Calls -> ApprovalStatuses]]
      BY DEF Init, ApprovalStatuses
    <2>4. agent \in [Runs -> Task]
      BY Values DEF Init
    <2>5. fresh \subseteq Services \X Nat /\ faults \in 0..MaxFaults
      BY DEF Init
    <2>6. QED  BY <2>2, <2>3, <2>4, <2>5 DEF Init, TypeOK
  <1>3. RunsOK
    <2>1. NoTask.pc = "none"
      BY DEF NoTask
    <2>2. \A r \in Runs : agent[r].pc = "none"
      BY <1>1, <2>1
    <2>3. QED  BY <1>1, <2>2 DEF RunsOK, RunOK, ChannelOK, GateOK, FutureOK, Asked, At
  <1>4. WakeOK
    BY DEF Init, WakeOK
  <1>5. QED  BY <1>2, <1>3, <1>4 DEF IInv

LEMMA Invariance == Spec => []IInv
  BY InitInv, InvStep, PTL DEF Spec

-----------------------------------------------------------------------------
\* The store, the services and the tasks of the Core keep their types.
THEOREM TypeCorrect == Spec => []TypeOK
  <1>1. IInv => TypeOK
    BY DEF IInv
  <1>2. QED  BY <1>1, Invariance, PTL

\* Whatever the interleaving of decisions, deadlines, polls, failing stores,
\* crashes and recoveries, a gated tool runs only if this call was approved.
THEOREM GatedOnlyApproved == Spec => []OnlyApproved
  <1>1. IInv => OnlyApproved
    BY DEF IInv, RunsOK, RunOK, GateOK, OnlyApproved
  <1>2. QED  BY <1>1, Invariance, PTL

\* With a taint effect other than allow, and whatever the rules of the policy
\* file are, a steered call runs only if a person approved it.
THEOREM SteeredOnlyApproved == OnEffect # "allow" => (Spec => []NeverSteered)
  <1> SUFFICES ASSUME OnEffect # "allow" PROVE Spec => []NeverSteered
    OBVIOUS
  <1>1. IInv => NeverSteered
    BY DEF IInv, RunsOK, RunOK, GateOK, NeverSteered, Decision, Evaluate
  <1>2. QED  BY <1>1, Invariance, PTL

\* Where the store answers, an approved call is not refused, also when the
\* approval raced the deadline: it waits, is read again, or runs.
THEOREM NoApprovalLost == ~StoreErrors => (Spec => ApprovalIsUsed)
  <1> SUFFICES ASSUME ~StoreErrors PROVE Spec => ApprovalIsUsed
    OBVIOUS
  <1> DEFINE Used == \A r \in Runs :
               agent[r].pc \in {"waiting", "expiring", "reading"} /\ Approved(r)
                 => agent'[r].pc # "thinking"
  <1>1. IInv /\ [Next]_vars => [Used]_vars
    <2> SUFFICES ASSUME IInv, Next, NEW r \in Runs,
                        agent[r].pc \in {"waiting", "expiring", "reading"},
                        Approved(r), agent'[r].pc = "thinking"
                 PROVE  FALSE
      OBVIOUS
    <2>0. TypeOK /\ RunOK(r)
      BY DEF IInv, RunsOK
    <2> USE DEF store, service
    <2>1. \E q \in Runs : Step(q) /\ q = r
      <3>1. ASSUME NEW q \in Runs \ {r}, Step(q) PROVE agent'[r] = agent[r]
        <4> DEFINE Elsewhere(a) == agent' = [agent EXCEPT ![q] = a]
        <4>1. \E a : Elsewhere(a)
          BY <3>1, Zenon
             DEF Step, Begin, CannotBegin, Answer, Refused, Allowed, Ask, AskFails,
                 Delivered, Poll, Deadline, Expire, Reread, ExpiryFails, Execute,
                 End, Go, Calling, Resume
        <4>2. QED  BY <2>0, <4>1 DEF TypeOK
      <3>2. ASSUME NEW s \in Services, NEW q \in Runs, StartRun(s, q)
            PROVE  agent'[r].pc # "thinking"
        BY <2>0, <3>2 DEF StartRun, TypeOK, NoTask
      <3>3. ASSUME NEW s \in Services, Crash(s) PROVE agent'[r].pc # "thinking"
        BY <3>3 DEF Crash, NoTask
      <3>4. \/ \E q \in Runs : Step(q)
            \/ \E s \in Services, q \in Runs : StartRun(s, q)
            \/ \E s \in Services : Crash(s)
            \/ UNCHANGED agent
        BY DEF Next, Decide, Wake, Notice, Stall, Start
      <3>5. QED  BY <3>1, <3>2, <3>3, <3>4
    <2>2. Step(r)
      BY <2>1
    <2>3. \/ Delivered(r) /\ waiter[r] = "denied"
          \/ Poll(r) /\ ~Approved(r)
          \/ Reread(r) /\ ~Approved(r)
      BY <2>0, <2>2, GoValue
         DEF Step, Begin, CannotBegin, Answer, Refused, Allowed, Ask, AskFails,
             Delivered, Poll, Deadline, Expire, Reread, ExpiryFails, Execute, End,
             At, Resume, StoreFails, Truth, Approved
    <2>4. QED  BY <2>0, <2>3 DEF RunOK, ChannelOK, Approved
  <1>2. QED  BY <1>1, Invariance, PTL DEF ApprovalIsUsed, Spec

-----------------------------------------------------------------------------
(***************************************************************************)
(* Approvals and the runs they are of, where the store answers.            *)
(***************************************************************************)

Pending(r, c) == appr[r][c] = "pending"

\* The pending approval is the one the task of the run is at, or was at when
\* its service died: a run has one at a time.
ShownOK(r) ==
  /\ \A c \in Calls : Pending(r, c) =>
       /\ runs[r].status = "waiting_approval"
       /\ \/ agent[r].pc = "none"
          \/ agent[r].pc \in {"waiting", "expiring"} /\ agent[r].call = c
  /\ \A c, k \in Calls : Pending(r, c) /\ Pending(r, k) => c = k

Shown == \A r \in Runs : ShownOK(r)

\* What a step of a run's task leaves alone.
LEMMA OthersStay ==
  ASSUME IInv, NEW r \in Runs, Step(r)
  PROVE  /\ agent[r].pc # "none" /\ UNCHANGED service
         /\ runs'[r].by = runs[r].by
         /\ \A q \in Runs \ {r} : /\ runs'[q] = runs[q] /\ appr'[q] = appr[q]
                                  /\ agent'[q] = agent[q]
  <1>0. TypeOK /\ RunOK(r)
    BY DEF IInv, RunsOK
  <1>1. agent[r].pc # "none" /\ UNCHANGED service
    BY DEF Step, Begin, CannotBegin, Answer, Refused, Allowed, Ask, AskFails,
           Delivered, Poll, Deadline, Expire, Reread, ExpiryFails, Execute, End, At
  <1>2. \E a : agent' = [agent EXCEPT ![r] = a]
    BY Zenon
       DEF Step, Begin, CannotBegin, Answer, Refused, Allowed, Ask, AskFails,
           Delivered, Poll, Deadline, Expire, Reread, ExpiryFails, Execute,
           End, Go, Calling, Resume
  <1>3. UNCHANGED runs \/ \E st : SetStatus(r, st)
    BY Zenon
       DEF Step, Begin, CannotBegin, Answer, Refused, Allowed, Ask, AskFails,
           Delivered, Poll, Deadline, Expire, Reread, ExpiryFails, Execute, End, store
  <1>4. UNCHANGED appr \/ \E f : appr' = [appr EXCEPT ![r] = f]
    BY Zenon
       DEF Step, Begin, CannotBegin, Answer, Refused, Allowed, Ask, AskFails,
           Delivered, Poll, Deadline, Expire, Reread, ExpiryFails, Execute, End,
           store, SetApproval
  <1>5. \A q \in Runs \ {r} : agent'[q] = agent[q]
    BY <1>0, <1>2 DEF TypeOK
  <1>6. /\ runs'[r].by = runs[r].by
        /\ \A q \in Runs \ {r} : runs'[q] = runs[q]
    BY <1>0, <1>3 DEF SetStatus, TypeOK, RunRow
  <1>7. \A q \in Runs \ {r} : appr'[q] = appr[q]
    BY <1>0, <1>4 DEF TypeOK
  <1>8. QED  BY <1>1, <1>5, <1>6, <1>7

\* A run that waits for nobody has nothing pending.
LEMMA NothingPending ==
  ASSUME Shown, NEW r \in Runs, agent[r].pc \notin {"none", "waiting", "expiring"}
  PROVE  \A c \in Calls : ~Pending(r, c)
  BY DEF Shown, ShownOK

LEMMA NothingShown ==
  ASSUME NEW r \in Runs, \A c \in Calls : ~Pending(r, c)'
  PROVE  ShownOK(r)'
  BY DEF ShownOK

\* A step of the task of a run: what it asked is pending until it is answered
\* or settled, and it does not go on before.
LEMMA ShownStep ==
  ASSUME ~StoreErrors, IInv, Shown, NEW r \in Runs, Step(r)
  PROVE  Shown'
  <1>0. TypeOK /\ RunOK(r) /\ ShownOK(r) /\ agent[r] \in Task
    BY DEF IInv, RunsOK, Shown, TypeOK
  <1>1. ShownOK(r)'
    <2>1. ASSUME NEW tool \in Tools, Ask(r, tool) PROVE ShownOK(r)'
      <3>1. /\ agent'[r].pc = "waiting" /\ agent'[r].call = agent[r].call + 1
            /\ agent[r].call + 1 \in Calls
        BY <1>0, <2>1, CallingValue DEF Ask
      <3>2. \A k \in Calls \ {agent[r].call + 1} : appr'[r][k] = appr[r][k]
        BY <1>0, <2>1, <3>1, ApprovalValue DEF Ask, ApprovalStatuses
      <3>3. runs'[r].status = "waiting_approval"
        BY <1>0, <2>1, StatusValue DEF Ask
      <3>4. \A k \in Calls : ~Pending(r, k)
        BY <2>1, NothingPending DEF Ask, At
      <3>5. \A k \in Calls \ {agent[r].call + 1} : ~Pending(r, k)'
        BY <3>2, <3>4 DEF Pending
      <3>6. QED  BY <3>1, <3>3, <3>5 DEF ShownOK
    <2>2. ASSUME Deadline(r) PROVE ShownOK(r)'
      <3>1. agent'[r].pc = "expiring" /\ agent'[r].call = agent[r].call
        BY <1>0, <2>2, GoValue DEF Deadline
      <3>2. QED  BY <1>0, <2>2, <3>1 DEF Deadline, At, store, ShownOK, Pending
    <2>3. ASSUME Expire(r) PROVE ShownOK(r)'
      <3>1. PICK c \in Calls : c = agent[r].call /\ agent[r].pc = "expiring"
        BY <1>0, <2>3 DEF Expire, RunOK, GateOK, Asked, At
      <3>2. /\ appr'[r][c] # "pending"
            /\ \A k \in Calls \ {c} : appr'[r][k] = appr[r][k]
        <4>1. CASE appr[r][c] = "pending"
          <5>1. SetApproval(r, c, "expired")
            BY <2>3, <3>1, <4>1 DEF Expire
          <5>2. QED  BY <1>0, <5>1, ApprovalValue DEF ApprovalStatuses
        <4>2. CASE appr[r][c] # "pending"
          BY <2>3, <3>1, <4>2 DEF Expire
        <4>3. QED  BY <4>1, <4>2
      <3>3. \A k \in Calls \ {c} : ~Pending(r, k)
        BY <1>0, <3>1 DEF ShownOK
      <3>4. \A k \in Calls : ~Pending(r, k)'
        BY <3>2, <3>3 DEF Pending
      <3>5. QED  BY <3>4, NothingShown
    <2>4. ASSUME Delivered(r) \/ Poll(r) PROVE ShownOK(r)'
      <3>1. ~Pending(r, agent[r].call)
        BY <1>0, <2>4 DEF Delivered, Poll, RunOK, ChannelOK, Pending
      <3>2. \A k \in Calls : ~Pending(r, k)
        BY <1>0, <2>4, <3>1 DEF Delivered, Poll, At, ShownOK
      <3>3. \A k \in Calls : ~Pending(r, k)'
        BY <2>4, <3>2 DEF Delivered, Poll, store, Pending
      <3>4. QED  BY <3>3, NothingShown
    <2>5. ASSUME agent[r].pc \notin {"none", "waiting", "expiring"}, UNCHANGED appr
          PROVE  ShownOK(r)'
      <3>1. \A k \in Calls : ~Pending(r, k)
        BY <2>5, NothingPending
      <3>2. \A k \in Calls : ~Pending(r, k)'
        BY <2>5, <3>1 DEF Pending
      <3>3. QED  BY <3>2, NothingShown
    <2>6. \/ \E tool \in Tools : Ask(r, tool)
          \/ Deadline(r) \/ Expire(r) \/ Delivered(r) \/ Poll(r)
          \/ agent[r].pc \notin {"none", "waiting", "expiring"} /\ UNCHANGED appr
      BY DEF Step, Begin, CannotBegin, Answer, Refused, Allowed, AskFails,
             Reread, ExpiryFails, Execute, End, At, StoreFails, store
    <2>7. QED  BY <2>1, <2>2, <2>3, <2>4, <2>5, <2>6
  <1>2. ASSUME NEW q \in Runs \ {r} PROVE ShownOK(q)'
    BY <1>2, OthersStay DEF Shown, ShownOK, Pending
  <1>3. QED  BY <1>1, <1>2 DEF Shown

LEMMA ShownInv == ~StoreErrors /\ IInv /\ Shown /\ [Next]_vars => Shown'
  <1> SUFFICES ASSUME ~StoreErrors, IInv, Shown, [Next]_vars PROVE Shown'
    OBVIOUS
  <1>0. TypeOK /\ RunsOK
    BY DEF IInv
  <1>1. ASSUME NEW s \in Services, NEW r \in Runs, StartRun(s, r) PROVE Shown'
    <2>1. \A c \in Calls : ~Pending(r, c)
      BY <1>0, <1>1 DEF StartRun, RunsOK, RunOK, FutureOK, Pending
    <2>2. ShownOK(r)'
      BY <1>1, <2>1 DEF StartRun, ShownOK, Pending
    <2>3. \A q \in Runs \ {r} : agent'[q] = agent[q] /\ runs'[q] = runs[q]
      BY <1>0, <1>1 DEF StartRun, TypeOK
    <2>4. ASSUME NEW q \in Runs \ {r} PROVE ShownOK(q)'
      BY <1>1, <2>3 DEF StartRun, Shown, ShownOK, Pending
    <2>5. QED  BY <2>2, <2>4 DEF Shown
  <1>2. ASSUME NEW r \in Runs, Step(r) PROVE Shown'
    BY <1>2, ShownStep
  <1>3. ASSUME NEW s \in Services, NEW r \in Runs, NEW c \in Calls,
               NEW answer \in Answers, Decide(s, r, c, answer)
        PROVE  Shown'
    <2>1. /\ Pending(r, c) /\ appr'[r][c] = answer
          /\ \A k \in Calls \ {c} : appr'[r][k] = appr[r][k]
          /\ \A q \in Runs \ {r} : appr'[q] = appr[q]
      BY <1>0, <1>3, ApprovalValue DEF Decide, ApprovalStatuses, Pending
    <2>2. \A k \in Calls \ {c} : ~Pending(r, k)
      BY <2>1 DEF Shown, ShownOK
    <2>3. \A k \in Calls : ~Pending(r, k)'
      BY <2>1, <2>2 DEF Pending
    <2>4. ShownOK(r)'
      BY <2>3, NothingShown
    <2>5. \A q \in Runs \ {r} : runs'[q] = runs[q]
      BY <1>0, <1>3 DEF Decide, TypeOK
    <2>6. ASSUME NEW q \in Runs \ {r} PROVE ShownOK(q)'
      BY <1>3, <2>1, <2>5 DEF Decide, Shown, ShownOK, Pending
    <2>7. QED  BY <2>4, <2>6 DEF Shown
  <1>4. ASSUME NEW s \in Services, Crash(s) PROVE Shown'
    <2>1. \A q \in Runs : agent'[q].pc = "none" \/ agent'[q] = agent[q]
      BY <1>4 DEF Crash, NoTask
    <2>2. ASSUME NEW q \in Runs PROVE ShownOK(q)'
      BY <1>4, <2>1 DEF Crash, store, Shown, ShownOK, Pending
    <2>3. QED  BY <2>2 DEF Shown
  <1>5. ASSUME NEW s \in Services, Start(s) PROVE Shown'
    <2>1. PICK gone \in SUBSET Runs :
            /\ runs' = [r \in Runs |-> IF r \in gone
                                       THEN [runs[r] EXCEPT !.status = "failed"]
                                       ELSE runs[r]]
            /\ appr' = [r \in Runs |-> IF r \in gone
                                       THEN [c \in Calls |-> Closed(appr[r][c])]
                                       ELSE appr[r]]
      BY <1>5 DEF Start
    <2>2. ASSUME NEW q \in gone PROVE ShownOK(q)'
      <3>1. \A c \in Calls : ~Pending(q, c)'
        BY <2>1 DEF Pending, Closed, Settled
      <3>2. QED  BY <3>1, NothingShown
    <2>3. ASSUME NEW q \in Runs \ gone PROVE ShownOK(q)'
      <3>1. runs'[q] = runs[q] /\ appr'[q] = appr[q] /\ agent'[q] = agent[q]
        BY <1>5, <2>1 DEF Start
      <3>2. QED  BY <3>1 DEF Shown, ShownOK, Pending
    <2>4. QED  BY <2>2, <2>3 DEF Shown
  <1>6. CASE UNCHANGED <<runs, appr, agent>>
    BY <1>6 DEF Shown, ShownOK, Pending
  <1>7. QED
    BY <1>1, <1>2, <1>3, <1>4, <1>5, <1>6 DEF Next, Wake, Notice, Stall, vars, store

\* Where the store answers, a pending approval is of a run that shows it is
\* waiting: deadlines, late answers, crashes and recoveries leave none behind.
THEOREM PendingShown == ~StoreErrors => (Spec => []PendingIsShown)
  <1> SUFFICES ASSUME ~StoreErrors PROVE Spec => []PendingIsShown
    OBVIOUS
  <1>1. Init => Shown
    BY DEF Init, Shown, ShownOK, Pending
  <1>2. IInv /\ Shown /\ [Next]_vars => Shown'
    BY ShownInv
  <1>3. Shown => PendingIsShown
    BY DEF Shown, ShownOK, Pending, PendingIsShown
  <1>4. QED  BY <1>1, <1>2, <1>3, Invariance, PTL DEF Spec

-----------------------------------------------------------------------------
(***************************************************************************)
(* Runs that ended, where a live instance is always seen.                  *)
(***************************************************************************)

\* The task of a run is of the instance that is up, and that instance is seen.
Living ==
  \A r \in Runs : agent[r].pc # "none" =>
    /\ Open(r) /\ up[ServiceOf(r)]
    /\ runs[r].by = Self(ServiceOf(r))

Seen == \A s \in Services : up[s] => Self(s) \in fresh

Alive == Living /\ Seen

\* A step of its task keeps a run open until the task ends.
LEMMA StaysOpen ==
  ASSUME TypeOK, NEW r \in Runs, Step(r), Open(r)
  PROVE  agent'[r].pc = "none" \/ Open(r)'
  <1>1. ASSUME SetStatus(r, "running") \/ SetStatus(r, "waiting_approval")
        PROVE  Open(r)'
    BY <1>1, StatusValue DEF Open
  <1>2. CASE UNCHANGED runs
    BY <1>2 DEF Open
  <1>3. CASE End(r)
    BY <1>3 DEF End, NoTask, TypeOK
  <1>4. \/ SetStatus(r, "running") \/ SetStatus(r, "waiting_approval")
        \/ UNCHANGED runs \/ End(r)
    BY DEF Step, Begin, CannotBegin, Answer, Refused, Allowed, Ask, AskFails,
           Delivered, Poll, Deadline, Expire, Reread, ExpiryFails, Execute, store
  <1>5. QED  BY <1>1, <1>2, <1>3, <1>4

LEMMA AliveStep == ~MayStall /\ IInv /\ Alive /\ [Next]_vars => Alive'
  <1> SUFFICES ASSUME ~MayStall, IInv, Alive, [Next]_vars PROVE Alive'
    OBVIOUS
  <1>0. TypeOK /\ \A q \in Runs : runs[q] \in RunRow /\ ServiceOf(q) \in Services
    BY DEF IInv, TypeOK, RunRow, ServiceOf
  <1>1. ASSUME NEW s \in Services, NEW r \in Runs, StartRun(s, r) PROVE Alive'
    <2>1. Open(r)' /\ ServiceOf(r)' = s /\ runs'[r].by = Self(s)
          /\ \A q \in Runs \ {r} : agent'[q] = agent[q] /\ runs'[q] = runs[q]
      BY <1>0, <1>1 DEF StartRun, Open, ServiceOf, Self, TypeOK
    <2>2. Living'
      BY <1>1, <2>1 DEF StartRun, service, Alive, Living, Open, ServiceOf, Self
    <2>3. Seen'
      BY <1>1 DEF StartRun, service, Alive, Seen, Self
    <2>4. QED  BY <2>2, <2>3 DEF Alive
  <1>2. ASSUME NEW r \in Runs, Step(r) PROVE Alive'
    <2>1. /\ agent[r].pc # "none" /\ UNCHANGED <<up, epoch, fresh>>
          /\ runs'[r].by = runs[r].by
          /\ \A q \in Runs \ {r} : runs'[q] = runs[q] /\ agent'[q] = agent[q]
      BY <1>2, OthersStay DEF service
    <2>2. agent'[r].pc = "none" \/ Open(r)'
      BY <1>0, <1>2, <2>1, StaysOpen DEF Alive, Living
    <2>3. Living'
      BY <2>1, <2>2 DEF Alive, Living, Open, ServiceOf, Self
    <2>4. Seen'
      BY <2>1 DEF Alive, Seen, Self
    <2>5. QED  BY <2>3, <2>4 DEF Alive
  <1>3. ASSUME NEW s \in Services, NEW r \in Runs, NEW c \in Calls,
               NEW answer \in Answers, Decide(s, r, c, answer)
        PROVE  Alive'
    <2>1. \A q \in Runs : runs'[q].by = runs[q].by /\ (Open(q) => Open(q)')
      BY <1>0, <1>3 DEF Decide, Open, TypeOK, RunRow
    <2>2. Living'
      BY <1>3, <2>1 DEF Decide, service, Alive, Living, ServiceOf, Self
    <2>3. Seen'
      BY <1>3 DEF Decide, service, Alive, Seen, Self
    <2>4. QED  BY <2>2, <2>3 DEF Alive
  <1>4. ASSUME NEW s \in Services, Crash(s) PROVE Alive'
    <2>1. \A q \in Runs : agent'[q].pc # "none" =>
                            agent'[q] = agent[q] /\ ServiceOf(q) # s
      BY <1>4 DEF Crash, NoTask
    <2>2. /\ UNCHANGED <<runs, epoch, fresh>> /\ ~up'[s]
          /\ \A t \in Services \ {s} : up'[t] = up[t]
      BY <1>0, <1>4 DEF Crash, store, TypeOK
    <2>3. Living'
      BY <1>0, <2>1, <2>2 DEF Alive, Living, Open, ServiceOf, Self
    <2>4. Seen'
      BY <2>2 DEF Alive, Seen, Self
    <2>5. QED  BY <2>3, <2>4 DEF Alive
  <1>5. ASSUME NEW s \in Services, Notice(s) PROVE Alive'
    <2>1. UNCHANGED <<runs, agent, up, epoch>>
      BY <1>5 DEF Notice, store
    <2>2. Living'
      BY <2>1 DEF Alive, Living, Open, ServiceOf, Self
    <2>3. Seen'
      BY <1>0, <1>5, <2>1 DEF Notice, Alive, Seen, Self
    <2>4. QED  BY <2>2, <2>3 DEF Alive
  <1>6. ASSUME NEW s \in Services, Start(s) PROVE Alive'
    <2>1. /\ ~up[s] /\ up' = [up EXCEPT ![s] = TRUE]
          /\ epoch' = [epoch EXCEPT ![s] = epoch[s] + 1]
          /\ fresh' = fresh \cup {<<s, epoch[s] + 1>>}
          /\ UNCHANGED agent
      BY <1>6 DEF Start
    <2>2. ASSUME NEW q \in Runs, agent'[q].pc # "none"
          PROVE  Open(q)' /\ up'[ServiceOf(q)'] /\ runs'[q].by = Self(ServiceOf(q))'
      <3>1. Open(q) /\ up[ServiceOf(q)] /\ runs[q].by = Self(ServiceOf(q))
        BY <2>1, <2>2 DEF Alive, Living
      <3>2. runs[q].by \in fresh /\ ServiceOf(q) # s
        BY <1>0, <2>1, <3>1 DEF Alive, Seen
      <3>3. runs'[q] = runs[q]
        BY <1>6, <3>2 DEF Start, Gone
      <3>4. up'[ServiceOf(q)] = up[ServiceOf(q)] /\ epoch'[ServiceOf(q)] = epoch[ServiceOf(q)]
        BY <1>0, <2>1, <3>2 DEF TypeOK
      <3>5. QED  BY <3>1, <3>3, <3>4 DEF Open, ServiceOf, Self
    <2>3. Living'
      BY <2>2 DEF Living
    <2>4. Seen'
      BY <1>0, <2>1 DEF Alive, Seen, Self, TypeOK
    <2>5. QED  BY <2>3, <2>4 DEF Alive
  <1>7. CASE UNCHANGED <<runs, agent, service>>
    BY <1>7 DEF service, Alive, Living, Seen, Open, ServiceOf, Self
  <1>8. QED
    BY <1>1, <1>2, <1>3, <1>4, <1>5, <1>6, <1>7
       DEF Next, Wake, Stall, vars, store, service

\* Where a live instance is never taken for a dead one, a run stays as it
\* ended, whichever services crash, restart and recover, and whatever fails.
THEOREM EndedForGood == ~MayStall => (Spec => EndIsFinal)
  <1> SUFFICES ASSUME ~MayStall PROVE Spec => EndIsFinal
    OBVIOUS
  <1> DEFINE Final == \A r \in Runs : runs[r].status \in Finals => runs'[r] = runs[r]
  <1>1. Init => Alive
    <2>1. NoTask.pc = "none"
      BY DEF NoTask
    <2>2. Init => \A r \in Runs : agent[r].pc = "none"
      BY <2>1 DEF Init
    <2>3. Init => Seen
      BY DEF Init, Seen, Self
    <2>4. QED  BY <2>2, <2>3 DEF Alive, Living
  <1>2. IInv /\ Alive /\ [Next]_vars => Alive'
    BY AliveStep
  <1>3. IInv /\ Alive /\ [Next]_vars => [Final]_vars
    <2> SUFFICES ASSUME IInv, Alive, Next, NEW r \in Runs, runs[r].status \in Finals
                 PROVE  runs'[r] = runs[r]
      OBVIOUS
    <2>0. TypeOK /\ agent[r].pc = "none"
      BY DEF IInv, Alive, Living, Open
    <2>1. ASSUME NEW s \in Services, NEW q \in Runs, StartRun(s, q)
          PROVE  runs'[r] = runs[r]
      BY <2>0, <2>1 DEF StartRun, TypeOK
    <2>2. ASSUME NEW q \in Runs, Step(q) PROVE runs'[r] = runs[r]
      BY <2>0, <2>2, OthersStay
    <2>3. ASSUME NEW s \in Services, NEW q \in Runs, NEW c \in Calls,
                 NEW answer \in Answers, Decide(s, q, c, answer)
          PROVE  runs'[r] = runs[r]
      BY <2>0, <2>3 DEF Decide, TypeOK
    <2>4. ASSUME NEW s \in Services, Start(s) PROVE runs'[r] = runs[r]
      BY <2>4 DEF Start, Gone, Open
    <2>5. QED
      BY <2>1, <2>2, <2>3, <2>4 DEF Next, Wake, Crash, Notice, Stall, store
  <1>4. QED  BY <1>1, <1>2, <1>3, Invariance, PTL DEF EndIsFinal, Spec
=============================================================================
