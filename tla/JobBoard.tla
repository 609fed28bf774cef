------------------------------ MODULE JobBoard ------------------------------
(***************************************************************************)
(* What the job queue promises to the newsroom, without rows, heartbeats   *)
(* or processes: a job waits, is taken by one slot, and is given back or   *)
(* ended; what is ended stays ended, and two jobs that may not run         *)
(* together are never in two hands.  JobQueue implements it.               *)
(***************************************************************************)
CONSTANTS Jobs, Hands, Works, Clash(_, _)

VARIABLES phase,   \* [Jobs -> "none" | "waiting" | "taken" | "ended"]
          work,    \* [Jobs -> Works]
          by       \* [Jobs -> SUBSET Hands]: who is doing it

boardVars == <<phase, work, by>>

Phases == {"none", "waiting", "taken", "ended"}

Post(j) ==
  /\ phase[j] = "none"
  /\ phase' = [phase EXCEPT ![j] = "waiting"]
  /\ \E w \in Works : work' = [work EXCEPT ![j] = w]
  /\ UNCHANGED by

Take(j, h) ==
  /\ phase[j] = "waiting"
  /\ \A k \in Jobs : h \notin by[k]
  /\ \A k \in Jobs \ {j} : by[k] # {} => ~Clash(work[k], work[j])
  /\ phase' = [phase EXCEPT ![j] = "taken"]
  /\ by' = [by EXCEPT ![j] = {h}]
  /\ UNCHANGED work

\* The one that does it puts it back or ends it.
Hand(j, h, next) ==
  /\ phase[j] = "taken" /\ by[j] = {h}
  /\ phase' = [phase EXCEPT ![j] = next]
  /\ by' = [by EXCEPT ![j] = {}]
  /\ UNCHANGED work

\* Some of the hands are lost, with what they were doing.
Drop(lost) ==
  /\ by' = [j \in Jobs |-> by[j] \ lost]
  /\ UNCHANGED <<phase, work>>

\* Jobs in nobody's hands are put back on the board or given up.
Recover(again, over) ==
  /\ \A j \in again \cup over : phase[j] = "taken" /\ by[j] = {}
  /\ phase' = [j \in Jobs |-> IF j \in again THEN "waiting"
                              ELSE IF j \in over THEN "ended" ELSE phase[j]]
  /\ UNCHANGED <<work, by>>

Init == /\ phase = [j \in Jobs |-> "none"]
        /\ work \in [Jobs -> Works]
        /\ by = [j \in Jobs |-> {}]

Next ==
  \/ \E j \in Jobs : Post(j)
  \/ \E j \in Jobs, h \in Hands : Take(j, h)
  \/ \E j \in Jobs, h \in Hands, next \in {"waiting", "ended"} : Hand(j, h, next)
  \/ \E lost \in SUBSET Hands : Drop(lost)
  \/ \E again, over \in SUBSET Jobs : Recover(again, over)

Spec == Init /\ [][Next]_boardVars
=============================================================================
