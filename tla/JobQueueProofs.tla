--------------------------- MODULE JobQueueProofs ---------------------------
(***************************************************************************)
(* What the job queue guarantees for every set of rows, workers, slots and *)
(* tenants, when heartbeats of live workers arrive and no thread ends its  *)
(* run after its process gave the row back (Reliable).                     *)
(***************************************************************************)
EXTENDS JobQueue, TLAPS, FiniteSetTheorems

\* The conditions under which the runs of the queue exclude one another.  On
\* SQLite a worker that starts requeues every running row, so it must be the
\* only worker of the file.
Reliable ==
  /\ ~MayStall /\ ~ExitOverlap
  /\ Sqlite => \A v, w \in Workers : v = w

(***************************************************************************)
(* The inductive invariant.                                                *)
(***************************************************************************)

\* A slot runs a row, at an attempt it has counted, or is idle; the slots of
\* a process that is down are idle.
HoldOK ==
  \A s \in Slots :
    /\ hold[s] = Idle \/ (Busy(s) /\ hold[s].attempts > 0)
    /\ state[WorkerOf[s]] = "down" => ~Busy(s)

\* Only a leaving worker lists runs, and the list says what its slots hold.
LeftOK ==
  \A s \in Slots : left[s] # Idle => /\ state[WorkerOf[s]] = "leaving"
                                     /\ left[s] = hold[s]

\* A running row has a heartbeat, stale only when nobody runs it.
BeatOK ==
  \A j \in JobIds : Is(j, "running") => /\ jobs[j].beat # "none"
                                        /\ jobs[j].beat = "stale" => ~HeldBySomeone(j)

\* Fresh running rows do not clash.
FreshApart ==
  \A j, k \in JobIds : j # k /\ FreshlyRunning(j) /\ FreshlyRunning(k) =>
    ~SameWork(jobs[j].work, jobs[k].work)

IInv == TypeOK /\ HoldOK /\ LeftOK /\ BeatOK /\ FreshApart /\ RowIsOwn

-----------------------------------------------------------------------------
USE JobQueueAssumption

\* Max of two naturals is the larger one.
LEMMA MaxPair ==
  ASSUME NEW a \in Nat, NEW b \in Nat
  PROVE  /\ Max({a, b}) \in Nat
         /\ Max({a, b}) >= a /\ Max({a, b}) >= b
         /\ Max({a, b}) \in {a, b}
  <1>1. \E x \in {a, b} : \A y \in {a, b} : x >= y
    <2>1. CASE a >= b  BY <2>1
    <2>2. CASE b >= a  BY <2>2
    <2>3. QED  BY <2>1, <2>2
  <1>2. QED  BY <1>1 DEF Max

\* Every change of a row gives a row.
LEMMA RowTypes ==
  /\ NoRow \in Row
  /\ \A w \in Works : NewRow(w) \in Row
  /\ \A row \in Row, s \in Slots : Claimed(row, s) \in Row
  /\ \A row \in Row, st \in Statuses :
       [row EXCEPT !.status = st, !.beat = "none"] \in Row
  /\ \A row \in Row : [row EXCEPT !.due = TRUE] \in Row
  /\ \A row \in Row, b \in {"stale", "fresh"} : [row EXCEPT !.beat = b] \in Row
  /\ \A row \in Row, a \in Nat : PutOff(row, a) \in Row
  /\ \A row \in Row : Requeued(row) \in Row
  /\ \A row \in Row, a \in Nat : Released(row, a) \in Row
  <1> USE DEF Row, Statuses
  <1>1. NoRow \in Row
    <2>1. (CHOOSE w \in Works : TRUE) \in Works
      OBVIOUS
    <2>2. QED  BY <2>1 DEF NoRow
  <1>2. \A w \in Works : NewRow(w) \in Row
    <2> SUFFICES ASSUME NEW w \in Works PROVE NewRow(w) \in Row
      OBVIOUS
    <2>1. FirstAttempts \in Nat
      OBVIOUS
    <2>2. QED  BY <2>1 DEF NewRow
  <1>3. \A row \in Row, s \in Slots : Claimed(row, s) \in Row
    <2> SUFFICES ASSUME NEW row \in Row, NEW s \in Slots PROVE Claimed(row, s) \in Row
      OBVIOUS
    <2>1. row.attempts + 1 \in Nat
      OBVIOUS
    <2>2. QED  BY <2>1 DEF Claimed
  <1>4. \A row \in Row, st \in Statuses :
          [row EXCEPT !.status = st, !.beat = "none"] \in Row
    OBVIOUS
  <1>5. \A row \in Row : [row EXCEPT !.due = TRUE] \in Row
    OBVIOUS
  <1>6. \A row \in Row, b \in {"stale", "fresh"} : [row EXCEPT !.beat = b] \in Row
    OBVIOUS
  <1>7. \A row \in Row, a \in Nat : PutOff(row, a) \in Row
    <2> SUFFICES ASSUME NEW row \in Row, NEW a \in Nat PROVE PutOff(row, a) \in Row
      OBVIOUS
    <2>1. Max({a + 1, FirstAttempts}) \in Nat
      <3>1. a + 1 \in Nat /\ FirstAttempts \in Nat  OBVIOUS
      <3>2. QED  BY <3>1, MaxPair
    <2>2. QED  BY <2>1 DEF PutOff
  <1>8. \A row \in Row : Requeued(row) \in Row
    BY DEF Requeued
  <1>9. \A row \in Row, a \in Nat : Released(row, a) \in Row
    BY DEF Released
  <1>10. QED
    BY <1>1, <1>2, <1>3, <1>4, <1>5, <1>6, <1>7, <1>8, <1>9

\* Every step keeps the types.
LEMMA TypeInv == IInv /\ [Next]_vars => TypeOK'
  <1> SUFFICES ASSUME IInv, [Next]_vars PROVE TypeOK'
    OBVIOUS
  <1> USE DEF IInv, TypeOK, Idle, Is, Busy, Fault
  <1>1. ASSUME NEW w \in Works, Enqueue(w) PROVE TypeOK'
    BY <1>1, RowTypes DEF Enqueue
  <1>2. ASSUME NEW s \in Slots, Claim(s) PROVE TypeOK'
    <2>1. PICK j \in JobIds :
            /\ jobs' = [jobs EXCEPT ![j] = Claimed(jobs[j], s)]
            /\ hold' = [hold EXCEPT ![s] = [job |-> j, attempts |-> jobs[j].attempts + 1]]
            /\ since' = {p \in since : j \notin {p[1], p[2]}} \cup {<<k, j>> : k \in JobIds \ {j}}
      BY <1>2 DEF Claim
    <2>2. jobs' \in [JobIds -> Row]
      BY <2>1, RowTypes
    <2>3. jobs[j].attempts + 1 \in Nat
      BY DEF Row
    <2>4. hold' \in [Slots -> [job : JobIds \cup {NoJob}, attempts : Nat]]
      BY <2>1, <2>3
    <2>5. since' \subseteq JobIds \X JobIds
      BY <2>1
    <2>6. QED  BY <1>2, <2>2, <2>4, <2>5 DEF Claim
  <1>3. ASSUME NEW s \in Slots, NEW r \in {"done", "failed"}, Finish(s, r) PROVE TypeOK'
    BY <1>3, RowTypes DEF Finish, CanEnd, Statuses
  <1>4. ASSUME NEW s \in Slots, Later(s) PROVE TypeOK'
    BY <1>4, RowTypes DEF Later, CanEnd
  <1>5. ASSUME NEW s \in Slots, EndLost(s) PROVE TypeOK'
    BY <1>5 DEF EndLost
  <1>6. ASSUME NEW j \in JobIds, WaitOver(j) PROVE TypeOK'
    BY <1>6, RowTypes DEF WaitOver
  <1>7. ASSUME NEW j \in JobIds, Expire(j) PROVE TypeOK'
    <2>1. jobs' \in [JobIds -> Row]
      BY <1>7, RowTypes DEF Expire
    <2>2. faults' \in 0..MaxFaults
      BY <1>7 DEF Expire
    <2>3. QED  BY <1>7, <2>1, <2>2 DEF Expire
  <1>8. ASSUME NEW s \in Slots, Beat(s) PROVE TypeOK'
    BY <1>8, RowTypes DEF Beat
  <1>9. ASSUME RequeueStale PROVE TypeOK'
    BY <1>9, RowTypes DEF RequeueStale
  <1>10. ASSUME NEW w \in Workers, Stop(w) PROVE TypeOK'
    BY <1>10 DEF Stop
  <1>11. ASSUME NEW w \in Workers, GraceOver(w) PROVE TypeOK'
    BY <1>11 DEF GraceOver
  <1>12. ASSUME NEW s \in Slots, Release(s) PROVE TypeOK'
    <2>1. left[s].attempts - 1 \in Nat
      BY <1>12 DEF Release, LeftOK, HoldOK
    <2>2. QED  BY <1>12, <2>1, RowTypes DEF Release
  <1>13. ASSUME NEW s \in Slots, ReleaseFails(s) PROVE TypeOK'
    BY <1>13 DEF ReleaseFails
  <1>14. ASSUME NEW w \in Workers, Exit(w) PROVE TypeOK'
    BY <1>14 DEF Exit, Gone
  <1>15. ASSUME NEW w \in Workers, Crash(w) PROVE TypeOK'
    BY <1>15 DEF Crash, Gone
  <1>16. ASSUME NEW w \in Workers, Start(w) PROVE TypeOK'
    BY <1>16, RowTypes DEF Start
  <1>17. ASSUME NEW t \in Tenants, SetActive(t) PROVE TypeOK'
    BY <1>17 DEF SetActive
  <1>18. CASE UNCHANGED vars
    BY <1>18 DEF vars
  <1>19. QED
    BY <1>1, <1>2, <1>3, <1>4, <1>5, <1>6, <1>7, <1>8, <1>9, <1>10, <1>11,
       <1>12, <1>13, <1>14, <1>15, <1>16, <1>17, <1>18 DEF Next
\* Clashing is symmetric.
LEMMA SameWorkSym == \A v, w \in Works : SameWork(v, w) <=> SameWork(w, v)
  BY DEF SameWork

\* A requeued row waits or has failed, with an attempt left if it waits.
LEMMA RequeuedRow ==
  \A row \in Row :
    /\ Requeued(row).status \in {"queued", "failed"}
    /\ Requeued(row).status = "queued" => row.attempts < row.max
    /\ Requeued(row).attempts = row.attempts /\ Requeued(row).max = row.max
    /\ Requeued(row).work = row.work
  <1> SUFFICES ASSUME NEW row \in Row
               PROVE  /\ Requeued(row).status \in {"queued", "failed"}
                      /\ Requeued(row).status = "queued" => row.attempts < row.max
                      /\ Requeued(row).attempts = row.attempts
                      /\ Requeued(row).max = row.max
                      /\ Requeued(row).work = row.work
    OBVIOUS
  <1>1. CASE row.attempts < row.max
    BY <1>1 DEF Requeued, Row
  <1>2. CASE ~(row.attempts < row.max)
    BY <1>2 DEF Requeued, Row
  <1>3. QED  BY <1>1, <1>2

\* Every step keeps the rest of the invariant.
LEMMA InvStep ==
  ASSUME Reliable, IInv, [Next]_vars
  PROVE  HoldOK' /\ LeftOK' /\ BeatOK' /\ FreshApart' /\ RowIsOwn'
  <1> DEFINE Rest == HoldOK' /\ LeftOK' /\ BeatOK' /\ FreshApart' /\ RowIsOwn'
  <1> USE DEF IInv, TypeOK, Idle, Is, Busy, Attached, FreshlyRunning, HeldBySomeone
  <1>1. ASSUME NEW w \in Works, Enqueue(w) PROVE Rest
    <2>1. PICK j \in JobIds : Is(j, "absent") /\ jobs' = [jobs EXCEPT ![j] = NewRow(w)]
      BY <1>1 DEF Enqueue
    <2>2. \A k \in JobIds : jobs'[k].status = "running" => k # j /\ jobs'[k] = jobs[k]
      BY <2>1 DEF NewRow
    <2>3. \A s \in Slots : Attached(s) => hold[s].job \in JobIds \ {j}
      BY <2>1 DEF RowIsOwn, Is
    <2>4. HoldOK' /\ LeftOK'
      BY <1>1 DEF Enqueue, HoldOK, LeftOK
    <2>5. BeatOK'
      <3>1. hold' = hold /\ state' = state
        BY <1>1 DEF Enqueue
      <3>2. \A k \in JobIds : HeldBySomeone(k)' <=> HeldBySomeone(k)
        BY <3>1
      <3>3. QED  BY <2>2, <3>2 DEF BeatOK, Is
    <2>6. FreshApart'
      BY <2>2 DEF FreshApart, Is
    <2>7. RowIsOwn'
      BY <1>1, <2>1, <2>3 DEF Enqueue, RowIsOwn
    <2>8. QED  BY <2>4, <2>5, <2>6, <2>7
  <1>2. ASSUME NEW s \in Slots, Claim(s) PROVE Rest
    <2>1. PICK j \in JobIds :
            /\ Claimable(j)
            /\ jobs' = [jobs EXCEPT ![j] = Claimed(jobs[j], s)]
            /\ hold' = [hold EXCEPT ![s] = [job |-> j, attempts |-> jobs[j].attempts + 1]]
      BY <1>2 DEF Claim
    <2>2. /\ jobs'[j].status = "running" /\ jobs'[j].beat = "fresh"
          /\ jobs'[j].worker = s /\ jobs'[j].attempts = jobs[j].attempts + 1
          /\ jobs'[j].work = jobs[j].work
      BY <2>1 DEF Claimed, Row
    <2>3. \A k \in JobIds \ {j} : jobs'[k] = jobs[k]
      BY <2>1
    <2>4. /\ state' = state /\ left' = left /\ state[WorkerOf[s]] = "up" /\ ~Busy(s)
          /\ hold'[s] = [job |-> j, attempts |-> jobs[j].attempts + 1]
          /\ \A t \in Slots \ {s} : hold'[t] = hold[t]
      BY <1>2, <2>1 DEF Claim
    <2>5. jobs[j].attempts + 1 > 0
      <3>1. jobs[j].attempts \in Nat
        BY DEF Row
      <3>2. QED  BY <3>1
    <2>6. HoldOK'
      BY <2>4, <2>5 DEF HoldOK
    <2>7. LeftOK'
      BY <2>4 DEF LeftOK
    <2>8. BeatOK'
      <3>1. \A k \in JobIds \ {j} : HeldBySomeone(k)' => HeldBySomeone(k)
        BY <2>4
      <3>2. QED  BY <2>2, <2>3, <3>1 DEF BeatOK, Is
    <2>9. FreshApart'
      <3>1. \A k \in JobIds : FreshlyRunning(k) => ~SameWork(jobs[k].work, jobs[j].work)
        BY <2>1 DEF Claimable
      <3>2. QED  BY <2>2, <2>3, <3>1, SameWorkSym DEF FreshApart, Is, Row
    <2>10. RowIsOwn'
      <3>1. \A t \in Slots : Attached(t) => hold[t].job \in JobIds \ {j}
        BY <2>1 DEF RowIsOwn, Claimable, Is
      <3>2. \A t \in Slots \ {s} : Attached(t)' => Attached(t)
        BY <2>4
      <3>3. ASSUME NEW t \in Slots, Attached(t)'
            PROVE  LET row == jobs'[hold'[t].job] IN
                     /\ row.status = "running" /\ row.beat = "fresh"
                     /\ row.worker = t /\ row.attempts = hold'[t].attempts
        <4>1. CASE t = s
          BY <2>2, <2>4, <4>1
        <4>2. CASE t # s
          <5>1. hold'[t] = hold[t]
            BY <2>4, <4>2
          <5>2. Attached(t)
            BY <3>2, <3>3, <4>2
          <5>3. jobs'[hold[t].job] = jobs[hold[t].job]
            BY <2>3, <3>1, <5>2
          <5>4. QED  BY <5>1, <5>2, <5>3 DEF RowIsOwn
        <4>3. QED  BY <4>1, <4>2
      <3>4. QED  BY <3>3 DEF RowIsOwn
    <2>11. QED  BY <2>6, <2>7, <2>8, <2>9, <2>10
  <1>3. ASSUME NEW s \in Slots, NEW r \in {"done", "failed"}, Finish(s, r) PROVE Rest
    <2>1. HoldOK'
      BY <1>3 DEF Finish, CanEnd, HoldOK, LeftOK, BeatOK, FreshApart, RowIsOwn
    <2>2. LeftOK'
      BY <1>3 DEF Finish, CanEnd, HoldOK, LeftOK, BeatOK, FreshApart, RowIsOwn, Row, Is, Reliable, Statuses
    <2>3. BeatOK'
      BY <1>3 DEF Finish, CanEnd, HoldOK, LeftOK, BeatOK, FreshApart, RowIsOwn
    <2>4. FreshApart'
      BY <1>3 DEF Finish, CanEnd, HoldOK, LeftOK, BeatOK, FreshApart, RowIsOwn
    <2>5. RowIsOwn'
      BY <1>3 DEF Finish, CanEnd, HoldOK, LeftOK, BeatOK, FreshApart, RowIsOwn, Row, Is, Reliable, Statuses
    <2>6. QED  BY <2>1, <2>2, <2>3, <2>4, <2>5
  <1>4. ASSUME NEW s \in Slots, Later(s) PROVE Rest
    <2>1. HoldOK'
      BY <1>4 DEF Later, PutOff, CanEnd, HoldOK, LeftOK, BeatOK, FreshApart, RowIsOwn
    <2>2. LeftOK'
      BY <1>4 DEF Later, PutOff, CanEnd, HoldOK, LeftOK, BeatOK, FreshApart, RowIsOwn, Row, Is, Reliable, Statuses
    <2>3. BeatOK'
      BY <1>4 DEF Later, PutOff, CanEnd, HoldOK, LeftOK, BeatOK, FreshApart, RowIsOwn
    <2>4. FreshApart'
      BY <1>4 DEF Later, PutOff, CanEnd, HoldOK, LeftOK, BeatOK, FreshApart, RowIsOwn
    <2>5. RowIsOwn'
      BY <1>4 DEF Later, PutOff, CanEnd, HoldOK, LeftOK, BeatOK, FreshApart, RowIsOwn, Row, Is, Reliable, Statuses
    <2>6. QED  BY <2>1, <2>2, <2>3, <2>4, <2>5
  <1>5. ASSUME NEW s \in Slots, EndLost(s) PROVE Rest
    <2>1. HoldOK'
      BY <1>5 DEF EndLost, CanEnd, HoldOK, LeftOK, BeatOK, FreshApart, RowIsOwn
    <2>2. LeftOK'
      BY <1>5 DEF EndLost, CanEnd, HoldOK, LeftOK, BeatOK, FreshApart, RowIsOwn, Row, Is, Reliable, Statuses
    <2>3. BeatOK'
      BY <1>5 DEF EndLost, CanEnd, HoldOK, LeftOK, BeatOK, FreshApart, RowIsOwn
    <2>4. FreshApart'
      BY <1>5 DEF EndLost, CanEnd, HoldOK, LeftOK, BeatOK, FreshApart, RowIsOwn
    <2>5. RowIsOwn'
      BY <1>5 DEF EndLost, CanEnd, HoldOK, LeftOK, BeatOK, FreshApart, RowIsOwn
    <2>6. QED  BY <2>1, <2>2, <2>3, <2>4, <2>5
  <1>6. ASSUME NEW j \in JobIds, WaitOver(j) PROVE Rest
    <2>1. HoldOK'
      BY <1>6 DEF WaitOver, HoldOK, LeftOK, BeatOK, FreshApart, RowIsOwn
    <2>2. LeftOK'
      BY <1>6 DEF WaitOver, HoldOK, LeftOK, BeatOK, FreshApart, RowIsOwn
    <2>3. BeatOK'
      BY <1>6 DEF WaitOver, HoldOK, LeftOK, BeatOK, FreshApart, RowIsOwn
    <2>4. FreshApart'
      BY <1>6 DEF WaitOver, HoldOK, LeftOK, BeatOK, FreshApart, RowIsOwn
    <2>5. RowIsOwn'
      BY <1>6 DEF WaitOver, HoldOK, LeftOK, BeatOK, FreshApart, RowIsOwn
    <2>6. QED  BY <2>1, <2>2, <2>3, <2>4, <2>5
  <1>7. ASSUME NEW j \in JobIds, Expire(j) PROVE Rest
    <2>1. HoldOK'
      BY <1>7 DEF Expire, HoldOK, LeftOK, BeatOK, FreshApart, RowIsOwn
    <2>2. LeftOK'
      BY <1>7 DEF Expire, HoldOK, LeftOK, BeatOK, FreshApart, RowIsOwn
    <2>3. BeatOK'
      BY <1>7 DEF Expire, HoldOK, LeftOK, BeatOK, FreshApart, RowIsOwn, Row, Is, Reliable, Statuses
    <2>4. FreshApart'
      BY <1>7 DEF Expire, HoldOK, LeftOK, BeatOK, FreshApart, RowIsOwn
    <2>5. RowIsOwn'
      BY <1>7 DEF Expire, HoldOK, LeftOK, BeatOK, FreshApart, RowIsOwn, Row, Is, Reliable, Statuses
    <2>6. QED  BY <2>1, <2>2, <2>3, <2>4, <2>5
  <1>8. ASSUME NEW s \in Slots, Beat(s) PROVE Rest
    <2>1. HoldOK'
      BY <1>8 DEF Beat, HoldOK, LeftOK, BeatOK, FreshApart, RowIsOwn
    <2>2. LeftOK'
      BY <1>8 DEF Beat, HoldOK, LeftOK, BeatOK, FreshApart, RowIsOwn
    <2>3. BeatOK'
      BY <1>8 DEF Beat, HoldOK, LeftOK, BeatOK, FreshApart, RowIsOwn
    <2>4. FreshApart'
      BY <1>8 DEF Beat, HoldOK, LeftOK, BeatOK, FreshApart, RowIsOwn, Row, Is, Reliable, Statuses
    <2>5. RowIsOwn'
      BY <1>8 DEF Beat, HoldOK, LeftOK, BeatOK, FreshApart, RowIsOwn
    <2>6. QED  BY <2>1, <2>2, <2>3, <2>4, <2>5
  <1>9. ASSUME RequeueStale PROVE Rest
    <2>1. \A k \in JobIds : \/ jobs'[k] = jobs[k]
                            \/ Stale(k) /\ jobs'[k].status # "running"
      BY <1>9, RequeuedRow DEF RequeueStale
    <2>2. HoldOK' /\ LeftOK'
      BY <1>9 DEF RequeueStale, HoldOK, LeftOK
    <2>3. BeatOK'
      BY <1>9, <2>1 DEF RequeueStale, BeatOK, Is
    <2>4. FreshApart'
      BY <2>1 DEF FreshApart, Is
    <2>5. RowIsOwn'
      <3>1. \A t \in Slots : Attached(t) => ~Stale(hold[t].job)
        BY DEF RowIsOwn, Stale
      <3>2. \A t \in Slots : Attached(t) => hold[t].job \in JobIds
        OBVIOUS
      <3>3. QED  BY <1>9, <2>1, <3>1, <3>2 DEF RequeueStale, RowIsOwn
    <2>6. QED  BY <2>2, <2>3, <2>4, <2>5
  <1>10. ASSUME NEW w \in Workers, Stop(w) PROVE Rest
    <2>1. HoldOK'
      BY <1>10 DEF Stop, HoldOK, LeftOK, BeatOK, FreshApart, RowIsOwn
    <2>2. LeftOK'
      BY <1>10 DEF Stop, HoldOK, LeftOK, BeatOK, FreshApart, RowIsOwn
    <2>3. BeatOK'
      BY <1>10 DEF Stop, HoldOK, LeftOK, BeatOK, FreshApart, RowIsOwn
    <2>4. FreshApart'
      BY <1>10 DEF Stop, HoldOK, LeftOK, BeatOK, FreshApart, RowIsOwn
    <2>5. RowIsOwn'
      BY <1>10 DEF Stop, HoldOK, LeftOK, BeatOK, FreshApart, RowIsOwn
    <2>6. QED  BY <2>1, <2>2, <2>3, <2>4, <2>5
  <1>11. ASSUME NEW w \in Workers, GraceOver(w) PROVE Rest
    <2>1. HoldOK'
      BY <1>11 DEF GraceOver, HoldOK, LeftOK, BeatOK, FreshApart, RowIsOwn
    <2>2. LeftOK'
      BY <1>11 DEF GraceOver, HoldOK, LeftOK, BeatOK, FreshApart, RowIsOwn
    <2>3. BeatOK'
      BY <1>11 DEF GraceOver, HoldOK, LeftOK, BeatOK, FreshApart, RowIsOwn
    <2>4. FreshApart'
      BY <1>11 DEF GraceOver, HoldOK, LeftOK, BeatOK, FreshApart, RowIsOwn
    <2>5. RowIsOwn'
      BY <1>11 DEF GraceOver, HoldOK, LeftOK, BeatOK, FreshApart, RowIsOwn
    <2>6. QED  BY <2>1, <2>2, <2>3, <2>4, <2>5
  <1>12. ASSUME NEW s \in Slots, Release(s) PROVE Rest
    <2>1. HoldOK'
      BY <1>12 DEF Release, Released, HoldOK, LeftOK, BeatOK, FreshApart, RowIsOwn
    <2>2. LeftOK'
      BY <1>12 DEF Release, Released, HoldOK, LeftOK, BeatOK, FreshApart, RowIsOwn
    <2>3. BeatOK'
      BY <1>12 DEF Release, Released, HoldOK, LeftOK, BeatOK, FreshApart, RowIsOwn
    <2>4. FreshApart'
      BY <1>12 DEF Release, Released, HoldOK, LeftOK, BeatOK, FreshApart, RowIsOwn
    <2>5. RowIsOwn'
      BY <1>12 DEF Release, Released, HoldOK, LeftOK, BeatOK, FreshApart, RowIsOwn
    <2>6. QED  BY <2>1, <2>2, <2>3, <2>4, <2>5
  <1>13. ASSUME NEW s \in Slots, ReleaseFails(s) PROVE Rest
    <2>1. HoldOK'
      BY <1>13 DEF ReleaseFails, HoldOK, LeftOK, BeatOK, FreshApart, RowIsOwn
    <2>2. LeftOK'
      BY <1>13 DEF ReleaseFails, HoldOK, LeftOK, BeatOK, FreshApart, RowIsOwn
    <2>3. BeatOK'
      BY <1>13 DEF ReleaseFails, HoldOK, LeftOK, BeatOK, FreshApart, RowIsOwn
    <2>4. FreshApart'
      BY <1>13 DEF ReleaseFails, HoldOK, LeftOK, BeatOK, FreshApart, RowIsOwn
    <2>5. RowIsOwn'
      BY <1>13 DEF ReleaseFails, HoldOK, LeftOK, BeatOK, FreshApart, RowIsOwn
    <2>6. QED  BY <2>1, <2>2, <2>3, <2>4, <2>5
  <1>14. ASSUME NEW w \in Workers, Exit(w) PROVE Rest
    <2>1. HoldOK'
      BY <1>14 DEF Exit, Gone, HoldOK, LeftOK, BeatOK, FreshApart, RowIsOwn
    <2>2. LeftOK'
      BY <1>14 DEF Exit, Gone, HoldOK, LeftOK, BeatOK, FreshApart, RowIsOwn
    <2>3. BeatOK'
      BY <1>14 DEF Exit, Gone, HoldOK, LeftOK, BeatOK, FreshApart, RowIsOwn
    <2>4. FreshApart'
      BY <1>14 DEF Exit, Gone, HoldOK, LeftOK, BeatOK, FreshApart, RowIsOwn
    <2>5. RowIsOwn'
      BY <1>14 DEF Exit, Gone, HoldOK, LeftOK, BeatOK, FreshApart, RowIsOwn
    <2>6. QED  BY <2>1, <2>2, <2>3, <2>4, <2>5
  <1>15. ASSUME NEW w \in Workers, Crash(w) PROVE Rest
    <2>1. HoldOK'
      BY <1>15 DEF Crash, Gone, HoldOK, LeftOK, BeatOK, FreshApart, RowIsOwn
    <2>2. LeftOK'
      BY <1>15 DEF Crash, Gone, HoldOK, LeftOK, BeatOK, FreshApart, RowIsOwn
    <2>3. BeatOK'
      BY <1>15 DEF Crash, Gone, HoldOK, LeftOK, BeatOK, FreshApart, RowIsOwn
    <2>4. FreshApart'
      BY <1>15 DEF Crash, Gone, HoldOK, LeftOK, BeatOK, FreshApart, RowIsOwn
    <2>5. RowIsOwn'
      BY <1>15 DEF Crash, Gone, HoldOK, LeftOK, BeatOK, FreshApart, RowIsOwn
    <2>6. QED  BY <2>1, <2>2, <2>3, <2>4, <2>5
  <1>16. ASSUME NEW w \in Workers, Start(w) PROVE Rest
    <2>1. \A k \in JobIds : \/ jobs'[k] = jobs[k]
                            \/ Sqlite /\ jobs'[k].status # "running"
      BY <1>16, RequeuedRow DEF Start
    <2>2. Sqlite => \A t \in Slots : ~Busy(t)
      BY <1>16 DEF Start, Reliable, HoldOK
    <2>3. HoldOK' /\ LeftOK'
      BY <1>16 DEF Start, HoldOK, LeftOK
    <2>4. BeatOK'
      <3>1. \A t \in Slots : WorkerOf[t] = w => ~Busy(t)
        BY <1>16 DEF Start, HoldOK
      <3>2. QED  BY <1>16, <2>1, <3>1 DEF Start, BeatOK, Is
    <2>5. FreshApart'
      BY <2>1 DEF FreshApart, Is
    <2>6. RowIsOwn'
      <3>1. \A t \in Slots : WorkerOf[t] = w => ~Busy(t)
        BY <1>16 DEF Start, HoldOK
      <3>2. \A t \in Slots : Attached(t)' => Attached(t) /\ jobs'[hold[t].job] = jobs[hold[t].job]
        BY <1>16, <2>1, <2>2, <3>1 DEF Start
      <3>3. QED  BY <1>16, <3>2 DEF Start, RowIsOwn
    <2>7. QED  BY <2>3, <2>4, <2>5, <2>6
  <1>17. ASSUME NEW t \in Tenants, SetActive(t) PROVE Rest
    <2>1. HoldOK'
      BY <1>17 DEF SetActive, HoldOK, LeftOK, BeatOK, FreshApart, RowIsOwn
    <2>2. LeftOK'
      BY <1>17 DEF SetActive, HoldOK, LeftOK, BeatOK, FreshApart, RowIsOwn
    <2>3. BeatOK'
      BY <1>17 DEF SetActive, HoldOK, LeftOK, BeatOK, FreshApart, RowIsOwn
    <2>4. FreshApart'
      BY <1>17 DEF SetActive, HoldOK, LeftOK, BeatOK, FreshApart, RowIsOwn
    <2>5. RowIsOwn'
      BY <1>17 DEF SetActive, HoldOK, LeftOK, BeatOK, FreshApart, RowIsOwn
    <2>6. QED  BY <2>1, <2>2, <2>3, <2>4, <2>5
  <1>18. CASE UNCHANGED vars
    BY <1>18 DEF vars, HoldOK, LeftOK, BeatOK, FreshApart, RowIsOwn
  <1>19. QED
    BY <1>1, <1>2, <1>3, <1>4, <1>5, <1>6, <1>7, <1>8, <1>9, <1>10, <1>11,
       <1>12, <1>13, <1>14, <1>15, <1>16, <1>17, <1>18 DEF Next

-----------------------------------------------------------------------------
(* The theorems *)

\* The invariant holds at the start.
LEMMA InitInv == Init => IInv
  <1> SUFFICES ASSUME Init PROVE IInv
    OBVIOUS
  <1> USE DEF Init
  <1>1. TypeOK
    <2>1. jobs \in [JobIds -> Row]
      BY RowTypes
    <2>2. /\ hold \in [Slots -> [job : JobIds \cup {NoJob}, attempts : Nat]]
          /\ left \in [Slots -> [job : JobIds \cup {NoJob}, attempts : Nat]]
      BY DEF Idle
    <2>3. faults \in 0..MaxFaults
      OBVIOUS
    <2>4. state \in [Workers -> {"up", "stopping", "leaving", "down"}]
      OBVIOUS
    <2>5. QED  BY <2>1, <2>2, <2>3, <2>4 DEF TypeOK
  <1>2. \A j \in JobIds : jobs[j].status = "absent"
    BY DEF NoRow
  <1>3. HoldOK /\ LeftOK /\ RowIsOwn
    BY DEF HoldOK, LeftOK, RowIsOwn, Attached, Busy, Idle
  <1>4. BeatOK /\ FreshApart
    BY <1>2 DEF BeatOK, FreshApart, FreshlyRunning, Is
  <1>5. QED  BY <1>1, <1>3, <1>4 DEF IInv

\* Every step of a reliable queue keeps it.
LEMMA StepInv == Reliable /\ IInv /\ [Next]_vars => IInv'
  BY TypeInv, InvStep DEF IInv

\* In every behaviour of a reliable queue the invariant holds.
LEMMA Invariance == Reliable => (Spec => []IInv)
  <1>1. SUFFICES ASSUME Reliable PROVE Spec => []IInv
    OBVIOUS
  <1>2. IInv /\ [Next]_vars => IInv'
    BY <1>1, StepInv
  <1>3. QED  BY <1>2, InitInv, PTL DEF Spec

\* Every variable keeps its type: a row's counters are natural numbers, a
\* release never takes the attempts below zero.
THEOREM TypeCorrect == Reliable => (Spec => []TypeOK)
  <1> SUFFICES ASSUME Reliable PROVE Spec => []TypeOK
    OBVIOUS
  <1>1. Spec => []IInv
    BY Invariance
  <1>2. IInv => TypeOK
    BY DEF IInv
  <1>3. QED  BY <1>1, <1>2, PTL

\* The row of a run not given back is running, fresh, and of this slot and
\* attempt: the UPDATEs by id alone never reach another run.
THEOREM OwnRow == Reliable => (Spec => []RowIsOwn)
  <1> SUFFICES ASSUME Reliable PROVE Spec => []RowIsOwn
    OBVIOUS
  <1>1. Spec => []IInv
    BY Invariance
  <1>2. IInv => RowIsOwn
    BY DEF IInv
  <1>3. QED  BY <1>1, <1>2, PTL

\* Two runs not given back never do the same work, nor a tick and a collection
\* of one tenant: their rows are different, both running and both fresh.
THEOREM Exclusion == Reliable => (Spec => []NoClash)
  <1> SUFFICES ASSUME Reliable PROVE Spec => []NoClash
    OBVIOUS
  <1>1. Spec => []IInv
    BY Invariance
  <1>2. IInv => NoClash
    <2> SUFFICES ASSUME IInv, NEW s \in Slots, NEW t \in Slots, s # t,
                        Attached(s), Attached(t)
                 PROVE  ~SameWork(jobs[hold[s].job].work, jobs[hold[t].job].work)
      BY DEF NoClash
    <2>1. hold[s].job \in JobIds /\ hold[t].job \in JobIds
      BY DEF IInv, TypeOK, Attached, Busy
    <2>2. FreshlyRunning(hold[s].job) /\ FreshlyRunning(hold[t].job)
      BY DEF IInv, RowIsOwn, FreshlyRunning, Is
    <2>3. hold[s].job # hold[t].job
      BY DEF IInv, RowIsOwn
    <2>4. QED  BY <2>1, <2>2, <2>3 DEF IInv, FreshApart
  <1>3. QED  BY <1>1, <1>2, PTL

\* What ended is never queued or run again: finish and later belong to a run
\* whose row is running, claim takes queued rows, requeues take running ones.
THEOREM EndedForGood == Reliable => (Spec => EndedStays)
  <1> SUFFICES ASSUME Reliable PROVE Spec => EndedStays
    OBVIOUS
  <1>1. Spec => []IInv
    BY Invariance
  <1>2. IInv /\ [Next]_vars => [\A j \in JobIds : Ended(j) => jobs'[j] = jobs[j]]_vars
    <2> SUFFICES ASSUME IInv, Next, NEW j \in JobIds, Ended(j)
                 PROVE  jobs'[j] = jobs[j]
      OBVIOUS
    <2> USE DEF IInv, TypeOK, Ended, Is, Idle
    <2>0. \A s \in Slots : CanEnd(s) => hold[s].job \in JobIds \ {j}
      BY DEF CanEnd, RowIsOwn, Attached, Busy, Reliable
    <2>1. ASSUME NEW w \in Works, Enqueue(w) PROVE jobs'[j] = jobs[j]
      BY <2>1 DEF Enqueue
    <2>2. ASSUME NEW s \in Slots, Claim(s) PROVE jobs'[j] = jobs[j]
      BY <2>2 DEF Claim, Claimable
    <2>3. ASSUME NEW s \in Slots, NEW r \in {"done", "failed"}, Finish(s, r)
          PROVE  jobs'[j] = jobs[j]
      BY <2>0, <2>3 DEF Finish
    <2>4. ASSUME NEW s \in Slots, Later(s) PROVE jobs'[j] = jobs[j]
      BY <2>0, <2>4 DEF Later
    <2>5. ASSUME NEW k \in JobIds, WaitOver(k) PROVE jobs'[j] = jobs[j]
      BY <2>5 DEF WaitOver
    <2>6. ASSUME NEW k \in JobIds, Expire(k) PROVE jobs'[j] = jobs[j]
      BY <2>6 DEF Expire, FreshlyRunning
    <2>7. ASSUME NEW s \in Slots, Beat(s) PROVE jobs'[j] = jobs[j]
      BY <2>7 DEF Beat, Busy
    <2>8. ASSUME RequeueStale PROVE jobs'[j] = jobs[j]
      BY <2>8 DEF RequeueStale, Stale
    <2>9. ASSUME NEW s \in Slots, Release(s) PROVE jobs'[j] = jobs[j]
      BY <2>9 DEF Release
    <2>10. ASSUME NEW w \in Workers, Start(w) PROVE jobs'[j] = jobs[j]
      BY <2>10 DEF Start
    <2>11. CASE \/ \E s \in Slots : EndLost(s) \/ ReleaseFails(s)
                \/ \E w \in Workers : Stop(w) \/ GraceOver(w) \/ Exit(w) \/ Crash(w)
                \/ \E t \in Tenants : SetActive(t)
      BY <2>11 DEF EndLost, ReleaseFails, Stop, GraceOver, Exit, Crash, SetActive
    <2>12. QED
      BY <2>1, <2>2, <2>3, <2>4, <2>5, <2>6, <2>7, <2>8, <2>9, <2>10, <2>11 DEF Next
  <1>3. QED  BY <1>1, <1>2, PTL DEF Spec, EndedStays

-----------------------------------------------------------------------------
(***************************************************************************)
(* The queue implements the board.  First the steps of the board, told row *)
(* by row.                                                                 *)
(***************************************************************************)
Same(k) == PhaseOf(k)' = PhaseOf(k) /\ HandsOf(k)' = HandsOf(k) /\ jobs'[k].work = jobs[k].work

BoardStep == Board!Next \/ UNCHANGED Board!boardVars

LEMMA BoardRests ==
  ASSUME \A k \in JobIds : Same(k)
  PROVE  BoardStep
  BY DEF BoardStep, Same, Board!boardVars

LEMMA BoardPost ==
  ASSUME NEW j \in JobIds, NEW w \in Works,
         PhaseOf(j) = "none", PhaseOf(j)' = "waiting", HandsOf(j)' = HandsOf(j),
         jobs'[j].work = w, \A k \in JobIds \ {j} : Same(k)
  PROVE  BoardStep
  <1>1. Board!Post(j)  BY DEF Board!Post, Same
  <1>2. QED  BY <1>1 DEF BoardStep, Board!Next

LEMMA BoardTake ==
  ASSUME NEW j \in JobIds, NEW s \in Slots,
         PhaseOf(j) = "waiting", PhaseOf(j)' = "taken", HandsOf(j)' = {s}, HandsOf(j) = {},
         \A k \in JobIds : s \notin HandsOf(k),
         \A k \in JobIds \ {j} : HandsOf(k) # {} => ~SameWork(jobs[k].work, jobs[j].work),
         jobs'[j].work = jobs[j].work, \A k \in JobIds \ {j} : Same(k)
  PROVE  BoardStep
  <1>1. Board!Take(j, s)  BY DEF Board!Take, Same
  <1>2. QED  BY <1>1 DEF BoardStep, Board!Next

LEMMA BoardHand ==
  ASSUME NEW j \in JobIds, NEW s \in Slots, NEW next \in {"waiting", "ended"},
         PhaseOf(j) = "taken", HandsOf(j) = {s}, PhaseOf(j)' = next, HandsOf(j)' = {},
         jobs'[j].work = jobs[j].work, \A k \in JobIds \ {j} : Same(k)
  PROVE  BoardStep
  <1>1. Board!Hand(j, s, next)  BY DEF Board!Hand, Same
  <1>2. \E k \in JobIds, h \in Slots, n \in {"waiting", "ended"} : Board!Hand(k, h, n)
    BY <1>1
  <1>3. Board!Next  BY <1>2, Zenon DEF Board!Next
  <1>4. QED  BY <1>3 DEF BoardStep

LEMMA BoardDrop ==
  ASSUME NEW lost \in SUBSET Slots,
         \A k \in JobIds : /\ PhaseOf(k)' = PhaseOf(k) /\ jobs'[k].work = jobs[k].work
                           /\ HandsOf(k)' = HandsOf(k) \ lost
  PROVE  BoardStep
  <1>1. Board!Drop(lost)  BY DEF Board!Drop
  <1>2. QED  BY <1>1 DEF BoardStep, Board!Next

LEMMA BoardRecover ==
  ASSUME NEW again \in SUBSET JobIds, NEW over \in SUBSET JobIds,
         \A k \in again \cup over : PhaseOf(k) = "taken" /\ HandsOf(k) = {},
         \A k \in JobIds : /\ HandsOf(k)' = HandsOf(k) /\ jobs'[k].work = jobs[k].work
                           /\ PhaseOf(k)' = IF k \in again THEN "waiting"
                                            ELSE IF k \in over THEN "ended" ELSE PhaseOf(k)
  PROVE  BoardStep
  <1>1. Board!Recover(again, over)  BY DEF Board!Recover
  <1>2. QED  BY <1>1 DEF BoardStep, Board!Next

-----------------------------------------------------------------------------
\* A run attached to a row is the only one.
LEMMA OneHand ==
  ASSUME IInv, NEW s \in Slots, Attached(s)
  PROVE  /\ hold[s].job \in JobIds /\ HandsOf(hold[s].job) = {s}
         /\ FreshlyRunning(hold[s].job) /\ PhaseOf(hold[s].job) = "taken"
  <1>1. hold[s].job \in JobIds  BY DEF IInv, TypeOK, Attached, Busy
  <1>2. FreshlyRunning(hold[s].job)  BY DEF IInv, RowIsOwn, FreshlyRunning, Is
  <1>3. HandsOf(hold[s].job) = {s}  BY DEF IInv, RowIsOwn, HandsOf
  <1>4. QED  BY <1>1, <1>2, <1>3 DEF FreshlyRunning, PhaseOf, Is

LEMMA HandsRun ==
  ASSUME IInv, NEW j \in JobIds, HandsOf(j) # {}
  PROVE  FreshlyRunning(j)
  BY OneHand DEF HandsOf

\* What a row does not show to the board.
LEMMA SamePhase ==
  ASSUME NEW j \in JobIds, jobs'[j].status = jobs[j].status
  PROVE  PhaseOf(j)' = PhaseOf(j)
  BY DEF PhaseOf, Is

\* Slots that stay as they are.
LEMMA SameHands ==
  ASSUME NEW lost \in SUBSET Slots,
         \A t \in Slots : /\ t \notin lost /\ Attached(t)' => Attached(t) /\ hold'[t] = hold[t]
                          /\ t \notin lost /\ Attached(t) => Attached(t)' /\ hold'[t] = hold[t]
                          /\ t \in lost => ~Attached(t)'
  PROVE  \A j : HandsOf(j)' = HandsOf(j) \ lost
  BY DEF HandsOf

\* The rows are recovered, and the hands stay.
LEMMA Recovers ==
  ASSUME IInv, NEW C \in SUBSET JobIds,
         \A j \in C : Is(j, "running") /\ HandsOf(j) = {},
         \A j \in JobIds : jobs'[j] = IF j \in C THEN Requeued(jobs[j]) ELSE jobs[j],
         \A j \in JobIds : HandsOf(j)' = HandsOf(j)
  PROVE  BoardStep
  <1> DEFINE again == {j \in C : Requeued(jobs[j]).status = "queued"}
             over == C \ again
  <1>1. ASSUME NEW j \in JobIds
        PROVE  /\ jobs'[j].work = jobs[j].work
               /\ PhaseOf(j)' = IF j \in again THEN "waiting"
                                ELSE IF j \in over THEN "ended" ELSE PhaseOf(j)
    <2>1. jobs[j] \in Row  BY DEF IInv, TypeOK
    <2>2. CASE j \notin C  BY <2>2, SamePhase
    <2>3. CASE j \in C
      <3>1. jobs'[j] = Requeued(jobs[j])  BY <2>3
      <3>2. Requeued(jobs[j]).status \in {"queued", "failed"} /\ Requeued(jobs[j]).work = jobs[j].work
        BY <2>1, RequeuedRow
      <3>3. PhaseOf(j)' = IF jobs'[j].status = "queued" THEN "waiting" ELSE "ended"
        BY <3>1, <3>2 DEF PhaseOf, Is
      <3>4. QED  BY <2>3, <3>1, <3>2, <3>3
    <2>4. QED  BY <2>2, <2>3
  <1>2. \A j \in again \cup over : PhaseOf(j) = "taken" /\ HandsOf(j) = {}
    BY DEF PhaseOf, Is
  <1> HIDE DEF again, over
  <1>3. PICK A \in SUBSET JobIds, B \in SUBSET JobIds : A = again /\ B = over
    BY DEF again, over
  <1>4. \A j \in A \cup B : PhaseOf(j) = "taken" /\ HandsOf(j) = {}
    BY <1>2, <1>3
  <1>5. \A j \in JobIds :
          /\ HandsOf(j)' = HandsOf(j) /\ jobs'[j].work = jobs[j].work
          /\ PhaseOf(j)' = IF j \in A THEN "waiting" ELSE IF j \in B THEN "ended" ELSE PhaseOf(j)
    BY <1>1, <1>3
  <1>6. /\ \A j \in A \cup B : PhaseOf(j) = "taken" /\ HandsOf(j) = {}
        /\ \A j \in JobIds :
             /\ HandsOf(j)' = HandsOf(j) /\ jobs'[j].work = jobs[j].work
             /\ PhaseOf(j)' = IF j \in A THEN "waiting" ELSE IF j \in B THEN "ended" ELSE PhaseOf(j)
        => BoardStep
    BY BoardRecover, Zenon
  <1>7. QED  BY <1>4, <1>5, <1>6

\* A run ends, or gives its row back: the row was its own.
LEMMA GivesBack ==
  ASSUME IInv, NEW s \in Slots, Attached(s), NEW row \in Row, row.status \in {"queued", "done", "failed"},
         row.work = jobs[hold[s].job].work,
         jobs' = [jobs EXCEPT ![hold[s].job] = row], ~Attached(s)',
         \A t \in Slots \ {s} : (Attached(t)' <=> Attached(t)) /\ hold'[t] = hold[t]
  PROVE  BoardStep
  <1> DEFINE next == IF row.status = "queued" THEN "waiting" ELSE "ended"
  <1>1. PICK j \in JobIds : j = hold[s].job
    BY OneHand
  <1>2. HandsOf(j) = {s} /\ PhaseOf(j) = "taken"
    BY <1>1, OneHand
  <1>3. /\ jobs'[j] = row /\ \A k \in JobIds \ {j} : jobs'[k] = jobs[k]
    BY <1>1 DEF IInv, TypeOK
  <1>4. \A k : HandsOf(k)' = HandsOf(k) \ {s}
    BY SameHands
  <1>5. \A k \in JobIds \ {j} : s \notin HandsOf(k)
    BY <1>1 DEF HandsOf
  <1>6. PhaseOf(j)' = next /\ next \in {"waiting", "ended"}
    BY <1>3 DEF PhaseOf, Is
  <1>7. \A k \in JobIds \ {j} : Same(k)
    BY <1>3, <1>4, <1>5, SamePhase DEF Same
  <1>8. HandsOf(j)' = {} /\ jobs'[j].work = jobs[j].work
    BY <1>1, <1>2, <1>3, <1>4
  <1> HIDE DEF next
  <1>9. QED  BY <1>2, <1>6, <1>7, <1>8, BoardHand

\* The workers and their runs stay.
LEMMA QuietHands ==
  ASSUME UNCHANGED <<hold, state, left>>
  PROVE  \A j : HandsOf(j)' = HandsOf(j)
  BY DEF HandsOf, Attached, Busy

\* Only one row changes, and not what the board sees of it.
LEMMA QuietRow ==
  ASSUME IInv, NEW j \in JobIds, NEW row, jobs' = [jobs EXCEPT ![j] = row],
         row.status = jobs[j].status, row.work = jobs[j].work, UNCHANGED <<hold, state, left>>
  PROVE  BoardStep
  <1>1. jobs'[j] = row /\ \A k \in JobIds \ {j} : jobs'[k] = jobs[k]
    BY DEF IInv, TypeOK
  <1>2. \A k \in JobIds : Same(k)
    BY <1>1, SamePhase, QuietHands DEF Same
  <1>3. QED  BY <1>2, BoardRests

\* The table stays, and so do the runs but those that are lost.
LEMMA HandsLost ==
  ASSUME UNCHANGED jobs, NEW lost \in SUBSET Slots,
         \A t \in Slots : /\ t \notin lost => (Attached(t)' <=> Attached(t)) /\ (Attached(t) => hold'[t] = hold[t])
                          /\ t \in lost => ~Attached(t)'
  PROVE  BoardStep
  <1>1. \A k : HandsOf(k)' = HandsOf(k) \ lost
    BY SameHands
  <1>2. \A k \in JobIds : PhaseOf(k)' = PhaseOf(k) /\ jobs'[k].work = jobs[k].work
    BY SamePhase
  <1>3. QED  BY <1>1, <1>2, BoardDrop

LEMMA EnqueuePosts ==
  ASSUME IInv, NEW w \in Works, Enqueue(w)
  PROVE  BoardStep
  <1>1. PICK j \in JobIds : Is(j, "absent") /\ jobs' = [jobs EXCEPT ![j] = NewRow(w)]
    BY DEF Enqueue
  <1>2. /\ jobs'[j] = NewRow(w) /\ \A k \in JobIds \ {j} : jobs'[k] = jobs[k]
        /\ NewRow(w).status = "queued" /\ NewRow(w).work = w
    BY <1>1 DEF IInv, TypeOK, NewRow
  <1>3. \A k : HandsOf(k)' = HandsOf(k)
    BY QuietHands DEF Enqueue
  <1>4. PhaseOf(j) = "none" /\ PhaseOf(j)' = "waiting" /\ jobs'[j].work = w
    BY <1>1, <1>2 DEF PhaseOf, Is
  <1>5. \A k \in JobIds \ {j} : Same(k)
    BY <1>2, <1>3, SamePhase DEF Same
  <1>6. QED  BY <1>3, <1>4, <1>5, BoardPost

LEMMA ClaimTakes ==
  ASSUME IInv, NEW s \in Slots, Claim(s)
  PROVE  BoardStep
  <1>1. PICK j \in JobIds :
          /\ Claimable(j) /\ jobs' = [jobs EXCEPT ![j] = Claimed(jobs[j], s)]
          /\ hold' = [hold EXCEPT ![s] = [job |-> j, attempts |-> jobs[j].attempts + 1]]
          /\ state' = state /\ left' = left /\ state[WorkerOf[s]] = "up" /\ ~Busy(s)
    BY DEF Claim
  <1>2. /\ jobs'[j].status = "running" /\ jobs'[j].work = jobs[j].work
        /\ \A k \in JobIds \ {j} : jobs'[k] = jobs[k]
    BY <1>1 DEF IInv, TypeOK, Claimed, Row
  <1>3. /\ hold'[s].job = j /\ \A t \in Slots \ {s} : hold'[t] = hold[t]
    BY <1>1 DEF IInv, TypeOK
  <1>4. ~Attached(s) /\ Attached(s)' /\ \A t \in Slots \ {s} : Attached(t)' <=> Attached(t)
    BY <1>1, <1>3 DEF Attached, Busy
  <1>5. HandsOf(j) = {}
    BY <1>1, HandsRun DEF Claimable, FreshlyRunning, Is
  <1>6. HandsOf(j)' = {s} /\ \A k \in JobIds \ {j} : HandsOf(k)' = HandsOf(k)
    <2>1. HandsOf(j)' = {s}
      BY <1>3, <1>4, <1>5 DEF HandsOf
    <2>2. \A k \in JobIds \ {j} : HandsOf(k)' = HandsOf(k)
      BY <1>3, <1>4 DEF HandsOf
    <2>3. QED  BY <2>1, <2>2
  <1>7. \A k \in JobIds : s \notin HandsOf(k)
    BY <1>4 DEF HandsOf
  <1>8. \A k \in JobIds \ {j} : HandsOf(k) # {} => ~SameWork(jobs[k].work, jobs[j].work)
    BY <1>1, HandsRun DEF Claimable
  <1>9. PhaseOf(j) = "waiting" /\ PhaseOf(j)' = "taken"
    BY <1>1, <1>2 DEF PhaseOf, Is, Claimable
  <1>10. \A k \in JobIds \ {j} : Same(k)
    BY <1>2, <1>6, SamePhase DEF Same
  <1>11. QED  BY <1>2, <1>5, <1>6, <1>7, <1>8, <1>9, <1>10, BoardTake

\* A run that may end is attached: its process has not given the row back.
LEMMA EndsAttached ==
  ASSUME Reliable, IInv, NEW s \in Slots, CanEnd(s)
  PROVE  Attached(s)
  BY DEF Reliable, CanEnd, Attached, IInv, TypeOK

\* The slot is idle, the others stay.
LEMMA IdleSlot ==
  ASSUME IInv, NEW s \in Slots, hold' = [hold EXCEPT ![s] = Idle], UNCHANGED <<state, left>>
  PROVE  /\ ~Attached(s)'
         /\ \A t \in Slots \ {s} : (Attached(t)' <=> Attached(t)) /\ hold'[t] = hold[t]
  BY DEF Attached, Busy, Idle, IInv, TypeOK

LEMMA FinishHands ==
  ASSUME Reliable, IInv, NEW s \in Slots, NEW result \in {"done", "failed"}, Finish(s, result)
  PROVE  BoardStep
  <1> DEFINE row == [jobs[hold[s].job] EXCEPT !.status = result, !.beat = "none"]
  <1>1. Attached(s) /\ jobs' = [jobs EXCEPT ![hold[s].job] = row]
    BY EndsAttached DEF Finish
  <1>2. jobs[hold[s].job] \in Row  BY <1>1, OneHand DEF IInv, TypeOK
  <1>3. row \in Row /\ row.status = result /\ row.work = jobs[hold[s].job].work
    BY <1>2 DEF Row, Statuses
  <1>4. ~Attached(s)' /\ \A t \in Slots \ {s} : (Attached(t)' <=> Attached(t)) /\ hold'[t] = hold[t]
    BY IdleSlot DEF Finish
  <1> HIDE DEF row
  <1>5. QED  BY <1>1, <1>3, <1>4, GivesBack

LEMMA LaterHands ==
  ASSUME Reliable, IInv, NEW s \in Slots, Later(s)
  PROVE  BoardStep
  <1> DEFINE row == PutOff(jobs[hold[s].job], hold[s].attempts)
  <1>1. Attached(s) /\ jobs' = [jobs EXCEPT ![hold[s].job] = row]
    BY EndsAttached DEF Later
  <1>2. jobs[hold[s].job] \in Row /\ hold[s].attempts \in Nat
    BY <1>1, OneHand DEF IInv, TypeOK
  <1>3. row \in Row  BY <1>2, RowTypes
  <1>4. row.status = "queued" /\ row.work = jobs[hold[s].job].work
    BY <1>2 DEF PutOff, Row
  <1>5. ~Attached(s)' /\ \A t \in Slots \ {s} : (Attached(t)' <=> Attached(t)) /\ hold'[t] = hold[t]
    BY IdleSlot DEF Later
  <1> HIDE DEF row
  <1>6. QED  BY <1>1, <1>3, <1>4, <1>5, GivesBack

LEMMA ReleaseHands ==
  ASSUME IInv, NEW s \in Slots, Release(s)
  PROVE  BoardStep
  <1> DEFINE row == Released(jobs[hold[s].job], left[s].attempts - 1)
  <1>1. /\ left[s] # Idle /\ left[s] = hold[s] /\ state[WorkerOf[s]] = "leaving"
        /\ left' = [left EXCEPT ![s] = Idle] /\ UNCHANGED <<hold, state>>
        /\ hold[s].attempts > 0 /\ Busy(s)
    BY DEF Release, IInv, LeftOK, HoldOK
  <1>2. Attached(s)
    BY <1>1 DEF Attached
  <1>3. /\ Is(hold[s].job, "running") /\ jobs[hold[s].job] \in Row
        /\ left[s].attempts - 1 \in Nat
    <2>1. hold[s].job \in JobIds /\ FreshlyRunning(hold[s].job)
      BY <1>2, OneHand
    <2>2. Is(hold[s].job, "running")  BY <2>1 DEF FreshlyRunning
    <2>3. jobs[hold[s].job] \in Row  BY <2>1 DEF IInv, TypeOK
    <2>4. left[s].attempts - 1 \in Nat  BY <1>1 DEF IInv, TypeOK
    <2>5. QED  BY <2>2, <2>3, <2>4
  <1>4. jobs' = [jobs EXCEPT ![hold[s].job] = row]
    BY <1>1, <1>3 DEF Release
  <1>5. row \in Row  BY <1>3, RowTypes
  <1>6. row.status = "queued" /\ row.work = jobs[hold[s].job].work
    BY <1>3 DEF Released, Row
  <1>7. ~Attached(s)' /\ \A t \in Slots \ {s} : (Attached(t)' <=> Attached(t)) /\ hold'[t] = hold[t]
    BY <1>1 DEF Attached, Busy, IInv, TypeOK
  <1> HIDE DEF row
  <1>8. QED  BY <1>2, <1>4, <1>5, <1>6, <1>7, GivesBack

LEMMA RequeueRecovers ==
  ASSUME IInv, RequeueStale
  PROVE  BoardStep
  <1> DEFINE C == {j \in JobIds : Stale(j)}
  <1>1. \A j \in C : Is(j, "running") /\ HandsOf(j) = {}
    BY HandsRun DEF Stale, FreshlyRunning
  <1>2. \A j \in JobIds : jobs'[j] = IF j \in C THEN Requeued(jobs[j]) ELSE jobs[j]
    BY DEF RequeueStale
  <1>3. \A j \in JobIds : HandsOf(j)' = HandsOf(j)
    BY QuietHands DEF RequeueStale
  <1>4. QED  BY <1>1, <1>2, <1>3, Recovers

LEMMA StartRecovers ==
  ASSUME Reliable, IInv, NEW w \in Workers, Start(w)
  PROVE  BoardStep
  <1>1. /\ state[w] = "down" /\ state' = [state EXCEPT ![w] = "up"] /\ UNCHANGED <<hold, left>>
    BY DEF Start
  <1>2. \A s \in Slots : WorkerOf[s] = w => ~Busy(s)
    BY <1>1 DEF IInv, HoldOK
  <1>3. \A s \in Slots : Attached(s)' <=> Attached(s)
    BY <1>1, <1>2 DEF Attached, Busy, IInv, TypeOK
  <1>4. \A j : HandsOf(j)' = HandsOf(j)
    BY <1>1, <1>3 DEF HandsOf
  <1>5. CASE ~Sqlite
    <2>1. jobs' = jobs  BY <1>5 DEF Start
    <2>2. \A k \in JobIds : Same(k)  BY <1>4, <2>1, SamePhase DEF Same
    <2>3. QED  BY <2>2, BoardRests
  <1>6. CASE Sqlite
    <2> DEFINE C == {j \in JobIds : Is(j, "running")}
    <2>1. \A s \in Slots : ~Attached(s)
      BY <1>2, <1>6 DEF Reliable, Attached
    <2>2. \A j \in C : Is(j, "running") /\ HandsOf(j) = {}
      BY <2>1 DEF HandsOf
    <2>3. \A j \in JobIds : jobs'[j] = IF j \in C THEN Requeued(jobs[j]) ELSE jobs[j]
      BY <1>6 DEF Start
    <2>4. QED  BY <1>4, <2>2, <2>3, Recovers
  <1>7. QED  BY <1>5, <1>6

\* Every step of the queue is a step of the board, or none.
LEMMA BoardFollows ==
  ASSUME Reliable, IInv, [Next]_vars
  PROVE  BoardStep
  <1>1. ASSUME NEW w \in Works, Enqueue(w)  PROVE BoardStep
    BY <1>1, EnqueuePosts
  <1>2. ASSUME NEW s \in Slots, Claim(s)  PROVE BoardStep
    BY <1>2, ClaimTakes
  <1>3. ASSUME NEW s \in Slots, NEW r \in {"done", "failed"}, Finish(s, r)  PROVE BoardStep
    BY <1>3, FinishHands
  <1>4. ASSUME NEW s \in Slots, Later(s)  PROVE BoardStep
    BY <1>4, LaterHands
  <1>5. ASSUME NEW s \in Slots, EndLost(s)  PROVE BoardStep
    <2>1. jobs' = jobs /\ ~Attached(s)'
          /\ \A t \in Slots \ {s} : (Attached(t)' <=> Attached(t)) /\ hold'[t] = hold[t]
      BY <1>5, IdleSlot DEF EndLost
    <2>2. {s} \in SUBSET Slots  OBVIOUS
    <2>3. QED  BY <2>1, <2>2, HandsLost
  <1>6. ASSUME NEW j \in JobIds, WaitOver(j)  PROVE BoardStep
    <2>1. jobs[j] \in Row  BY DEF IInv, TypeOK
    <2>2. QED  BY <1>6, <2>1, QuietRow DEF WaitOver, Row
  <1>7. ASSUME NEW j \in JobIds, Expire(j)  PROVE BoardStep
    <2>1. jobs[j] \in Row  BY DEF IInv, TypeOK
    <2>2. QED  BY <1>7, <2>1, QuietRow DEF Expire, Row
  <1>8. ASSUME NEW s \in Slots, Beat(s)  PROVE BoardStep
    <2>1. hold[s].job \in JobIds  BY <1>8 DEF Beat, Busy, IInv, TypeOK
    <2>2. PICK j \in JobIds : j = hold[s].job  BY <2>1
    <2>3. jobs[j] \in Row  BY DEF IInv, TypeOK
    <2>4. /\ jobs' = [jobs EXCEPT ![j] = [jobs[j] EXCEPT !.beat = "fresh"]]
          /\ UNCHANGED <<hold, state, left>>
      BY <1>8, <2>2 DEF Beat
    <2>5. QED  BY <2>3, <2>4, QuietRow DEF Row
  <1>9. ASSUME RequeueStale  PROVE BoardStep
    BY <1>9, RequeueRecovers
  <1>10. ASSUME NEW w \in Workers, Stop(w)  PROVE BoardStep
    <2>1. jobs' = jobs /\ \A t \in Slots : (Attached(t)' <=> Attached(t)) /\ hold'[t] = hold[t]
      BY <1>10 DEF Stop, Attached, Busy, IInv, TypeOK
    <2>2. {} \in SUBSET Slots  OBVIOUS
    <2>3. QED  BY <2>1, <2>2, HandsLost
  <1>11. ASSUME NEW w \in Workers, GraceOver(w)  PROVE BoardStep
    <2>1. jobs' = jobs /\ \A t \in Slots : (Attached(t)' <=> Attached(t)) /\ hold'[t] = hold[t]
      BY <1>11 DEF GraceOver, Attached, Busy, Idle, IInv, TypeOK, HoldOK, LeftOK
    <2>2. {} \in SUBSET Slots  OBVIOUS
    <2>3. QED  BY <2>1, <2>2, HandsLost
  <1>12. ASSUME NEW s \in Slots, Release(s)  PROVE BoardStep
    BY <1>12, ReleaseHands
  <1>13. ASSUME NEW s \in Slots, ReleaseFails(s)  PROVE BoardStep
    <2>1. /\ jobs' = jobs /\ ~Attached(s)'
          /\ \A t \in Slots \ {s} : (Attached(t)' <=> Attached(t)) /\ hold'[t] = hold[t]
      BY <1>13 DEF ReleaseFails, Attached, Busy, IInv, TypeOK, LeftOK
    <2>2. {s} \in SUBSET Slots  OBVIOUS
    <2>3. QED  BY <2>1, <2>2, HandsLost
  <1>14. ASSUME NEW w \in Workers, Gone(w), jobs' = jobs  PROVE BoardStep
    <2> DEFINE lost == {s \in Slots : WorkerOf[s] = w}
    <2>1. /\ \A t \in lost : ~Attached(t)'
          /\ \A t \in Slots \ lost : (Attached(t)' <=> Attached(t)) /\ hold'[t] = hold[t]
      BY <1>14 DEF Gone, Attached, Busy, Idle, IInv, TypeOK
    <2>2. lost \in SUBSET Slots  OBVIOUS
    <2>3. QED  BY <1>14, <2>1, <2>2, HandsLost
  <1>15. ASSUME NEW w \in Workers, Exit(w) \/ Crash(w)  PROVE BoardStep
    BY <1>14, <1>15 DEF Exit, Crash
  <1>16. ASSUME NEW w \in Workers, Start(w)  PROVE BoardStep
    BY <1>16, StartRecovers
  <1>17. ASSUME UNCHANGED <<jobs, hold, state, left>>  PROVE BoardStep
    BY <1>17, QuietHands, SamePhase, BoardRests DEF Same
  <1>18. ASSUME NEW t \in Tenants, SetActive(t)  PROVE BoardStep
    BY <1>17, <1>18 DEF SetActive
  <1>19. CASE UNCHANGED vars
    BY <1>17, <1>19 DEF vars
  <1>20. QED
    BY <1>1, <1>2, <1>3, <1>4, <1>5, <1>6, <1>7, <1>8, <1>9, <1>10, <1>11,
       <1>12, <1>13, <1>15, <1>16, <1>18, <1>19 DEF Next

\* The queue implements the board: seen by its rows and by the runs that have
\* not given theirs back, whatever claims, ends, stale rows, stops and crashes
\* do is a job posted, taken, handed in, dropped or recovered.
THEOREM Implements == Reliable => (Spec => ImplementsBoard)
  <1> SUFFICES ASSUME Reliable PROVE Spec => ImplementsBoard
    OBVIOUS
  <1>1. Spec => []IInv
    BY Invariance
  <1>2. Init => Board!Init
    <2> SUFFICES ASSUME Init PROVE Board!Init
      OBVIOUS
    <2>1. jobs \in [JobIds -> Row]  BY InitInv DEF IInv, TypeOK
    <2>2. \A j \in JobIds : PhaseOf(j) = "none" /\ HandsOf(j) = {} /\ jobs[j].work \in Works
      BY <2>1 DEF Init, NoRow, PhaseOf, HandsOf, Is, Attached, Busy, Idle, Row
    <2>3. QED  BY <2>2 DEF Board!Init
  <1>3. IInv /\ [Next]_vars => [Board!Next]_(Board!boardVars)
    BY BoardFollows DEF BoardStep
  <1>4. QED  BY <1>1, <1>2, <1>3, PTL DEF Spec, ImplementsBoard, Board!Spec

-----------------------------------------------------------------------------
(***************************************************************************)
(* A tenant's share: claim_job counts the fresh running rows of the        *)
(* tenant, and every run has one of its own.                               *)
(***************************************************************************)
ShareOK ==
  \A t \in Tenants : IsFiniteSet(RunningOf(t)) /\ Cardinality(RunningOf(t)) <= PerTenant

\* No row begins to run fresh, and none changes its work.
NoneBegins ==
  \A j \in JobIds : FreshlyRunning(j)' => FreshlyRunning(j) /\ jobs'[j].work = jobs[j].work

LEMMA ShareShrinks ==
  ASSUME ShareOK, NoneBegins
  PROVE  ShareOK'
  <1> SUFFICES ASSUME NEW t \in Tenants
               PROVE  IsFiniteSet(RunningOf(t)') /\ Cardinality(RunningOf(t)') <= PerTenant
    BY DEF ShareOK
  <1> DEFINE R == RunningOf(t)
  <1>1. R' \in SUBSET R
    BY DEF NoneBegins, RunningOf, TenantOf
  <1>2. IsFiniteSet(R) /\ Cardinality(R) <= PerTenant
    BY DEF ShareOK
  <1> HIDE DEF R
  <1>3. IsFiniteSet(R') /\ Cardinality(R') <= Cardinality(R)
    BY <1>1, <1>2, FS_Subset
  <1>4. Cardinality(R) \in Nat /\ Cardinality(R') \in Nat /\ PerTenant \in Nat
    BY <1>2, <1>3, FS_CardinalityType
  <1>5. IsFiniteSet(R') /\ Cardinality(R') <= PerTenant
    BY <1>2, <1>3, <1>4
  <1>6. QED  BY <1>5 DEF R

\* One row of one tenant begins, for which there was room.
LEMMA ClaimShares ==
  ASSUME IInv, ShareOK, NEW s \in Slots, Claim(s)
  PROVE  ShareOK'
  <1>1. PICK j \in JobIds : Claimable(j) /\ jobs' = [jobs EXCEPT ![j] = Claimed(jobs[j], s)]
    BY DEF Claim
  <1>2. /\ jobs'[j].work = jobs[j].work /\ \A k \in JobIds \ {j} : jobs'[k] = jobs[k]
    BY <1>1 DEF IInv, TypeOK, Claimed, Row
  <1> SUFFICES ASSUME NEW t \in Tenants
               PROVE  IsFiniteSet(RunningOf(t)') /\ Cardinality(RunningOf(t)') <= PerTenant
    BY DEF ShareOK
  <1> DEFINE R == RunningOf(t)
  <1>3. /\ IsFiniteSet(R) /\ Cardinality(R) <= PerTenant
        /\ Cardinality(R) \in Nat /\ PerTenant \in Nat
    BY FS_CardinalityType DEF ShareOK
  <1>4. R' \in SUBSET (R \cup {j}) /\ (TenantOf(j) # t => R' \in SUBSET R)
    BY <1>2 DEF RunningOf, FreshlyRunning, Is, TenantOf
  <1>5. TenantOf(j) = t => Cardinality(R) < PerTenant
    BY <1>1 DEF Claimable
  <1> HIDE DEF R
  <1>6. /\ IsFiniteSet(R \cup {j}) /\ Cardinality(R \cup {j}) \in Nat
        /\ Cardinality(R \cup {j}) <= Cardinality(R) + 1
    <2>1. /\ IsFiniteSet(R \cup {j})
          /\ Cardinality(R \cup {j}) = IF j \in R THEN Cardinality(R) ELSE Cardinality(R) + 1
      BY <1>3, FS_AddElement
    <2>2. QED  BY <1>3, <2>1
  <1>7. IsFiniteSet(R') /\ Cardinality(R') <= PerTenant
    <2>1. CASE TenantOf(j) # t
      <3>1. IsFiniteSet(R') /\ Cardinality(R') <= Cardinality(R)
        BY <1>3, <1>4, <2>1, FS_Subset
      <3>2. QED  BY <1>3, <3>1, FS_CardinalityType
    <2>2. CASE TenantOf(j) = t
      <3>1. IsFiniteSet(R') /\ Cardinality(R') <= Cardinality(R \cup {j})
        BY <1>4, <1>6, FS_Subset
      <3>2. Cardinality(R') \in Nat
        BY <3>1, FS_CardinalityType
      <3>3. QED  BY <1>3, <1>5, <1>6, <2>2, <3>1, <3>2
    <2>3. QED  BY <2>1, <2>2
  <1>8. QED  BY <1>7 DEF R

\* Every other step begins no run: a heartbeat refreshes only a row that was
\* fresh, since the rows of live runs never become stale.
LEMMA OthersBeginNone ==
  ASSUME Reliable, IInv, [Next]_vars, \A s \in Slots : ~Claim(s)
  PROVE  NoneBegins
  <1> USE DEF NoneBegins, FreshlyRunning, Is
  <1>0. jobs \in [JobIds -> Row]  BY DEF IInv, TypeOK
  <1>1. ASSUME NEW w \in Works, Enqueue(w)  PROVE NoneBegins
    BY <1>0, <1>1 DEF Enqueue, NewRow
  <1>2. ASSUME NEW s \in Slots, NEW r \in {"done", "failed"}, Finish(s, r)  PROVE NoneBegins
    BY <1>0, <1>2 DEF Finish, Row
  <1>3. ASSUME NEW s \in Slots, Later(s)  PROVE NoneBegins
    BY <1>0, <1>3 DEF Later, PutOff, Row
  <1>4. ASSUME NEW k \in JobIds, WaitOver(k)  PROVE NoneBegins
    BY <1>0, <1>4 DEF WaitOver, Row
  <1>5. ASSUME NEW k \in JobIds, Expire(k)  PROVE NoneBegins
    BY <1>0, <1>5 DEF Expire, Row
  <1>6. ASSUME NEW s \in Slots, Beat(s)  PROVE NoneBegins
    <2>1. hold[s].job \in JobIds  BY <1>6 DEF Beat, Busy, IInv, TypeOK
    <2>2. PICK k \in JobIds : k = hold[s].job  BY <2>1
    <2>3. jobs[k].beat = "fresh" /\ jobs[k].status = "running"
      BY <1>0, <1>6, <2>2 DEF Beat, IInv, BeatOK, HeldBySomeone, Row
    <2>4. jobs' = [jobs EXCEPT ![k] = [jobs[k] EXCEPT !.beat = "fresh"]]
      BY <1>6, <2>2 DEF Beat
    <2>5. QED  BY <1>0, <2>3, <2>4 DEF Row
  <1>7. ASSUME RequeueStale  PROVE NoneBegins
    BY <1>0, <1>7, RequeuedRow DEF RequeueStale
  <1>8. ASSUME NEW s \in Slots, Release(s)  PROVE NoneBegins
    BY <1>0, <1>8 DEF Release, Released, Row
  <1>9. ASSUME NEW w \in Workers, Start(w)  PROVE NoneBegins
    BY <1>0, <1>9, RequeuedRow DEF Start
  <1>10. ASSUME UNCHANGED jobs  PROVE NoneBegins
    BY <1>10
  <1>11. CASE \/ \E s \in Slots : EndLost(s) \/ ReleaseFails(s)
              \/ \E w \in Workers : Stop(w) \/ GraceOver(w) \/ Exit(w) \/ Crash(w)
              \/ \E t \in Tenants : SetActive(t)
              \/ UNCHANGED vars
    BY <1>10, <1>11 DEF EndLost, ReleaseFails, Stop, GraceOver, Exit, Crash, SetActive, vars
  <1>12. QED
    BY <1>1, <1>2, <1>3, <1>4, <1>5, <1>6, <1>7, <1>8, <1>9, <1>11 DEF Next

\* The runs of a tenant are no more than its fresh running rows.
LEMMA RunsOwnRows ==
  ASSUME IInv, ShareOK
  PROVE  TenantShare
  <1> SUFFICES ASSUME NEW t \in Tenants
               PROVE  Cardinality({s \in Slots : Attached(s) /\ TenantOf(hold[s].job) = t}) <= PerTenant
    BY DEF TenantShare
  <1> DEFINE S == {s \in Slots : Attached(s) /\ TenantOf(hold[s].job) = t}
             R == RunningOf(t)
             f == [s \in S |-> hold[s].job]
  <1>1. f \in [S -> R]
    BY OneHand DEF RunningOf
  <1>2. \A s, u \in S : f[s] = f[u] => s = u
    BY DEF IInv, RowIsOwn
  <1>3. f \in Injection(S, R)
    BY <1>1, <1>2 DEF Injection, IsInjective
  <1>4. /\ IsFiniteSet(R) /\ Cardinality(R) <= PerTenant
        /\ Cardinality(R) \in Nat /\ PerTenant \in Nat
    BY FS_CardinalityType DEF ShareOK
  <1> HIDE DEF S, R, f
  <1>5. IsFiniteSet(S) /\ Cardinality(S) <= Cardinality(R)
    BY <1>3, <1>4, FS_Injection
  <1>6. Cardinality(S) <= PerTenant
    BY <1>4, <1>5, FS_CardinalityType
  <1>7. QED  BY <1>6 DEF S

LEMMA ShareInit ==
  ASSUME Init
  PROVE  ShareOK
  <1> SUFFICES ASSUME NEW t \in Tenants
               PROVE  IsFiniteSet(RunningOf(t)) /\ Cardinality(RunningOf(t)) <= PerTenant
    BY DEF ShareOK
  <1>1. RunningOf(t) = {}
    BY DEF Init, NoRow, RunningOf, FreshlyRunning, Is
  <1>2. QED  BY <1>1, FS_EmptySet

LEMMA ShareStep ==
  ASSUME Reliable, IInv, ShareOK, [Next]_vars
  PROVE  ShareOK'
  BY ClaimShares, OthersBeginNone, ShareShrinks

\* "A tenant takes at most two worker slots": the runs in progress of a tenant
\* never exceed its share, through stale rows, releases and restarts; on
\* SQLite, where the share is one, a newsroom does one thing at a time.
THEOREM ShareKept == Reliable => (Spec => []TenantShare)
  <1> SUFFICES ASSUME Reliable PROVE Spec => []TenantShare
    OBVIOUS
  <1>1. Spec => []IInv
    BY Invariance
  <1>2. IInv /\ ShareOK /\ [Next]_vars => ShareOK'
    BY ShareStep
  <1>3. QED  BY <1>1, <1>2, ShareInit, RunsOwnRows, PTL DEF Spec
==============================================================================
