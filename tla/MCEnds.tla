------------------------------- MODULE MCEnds -------------------------------
(***************************************************************************)
(* What the worker must eventually do: end the jobs of its queue, whatever *)
(* it meets, and put a source that works again back to work.  The two      *)
(* share no state, so each behaviour runs one of them; the other rests     *)
(* where its fairness asks for nothing.                                    *)
(***************************************************************************)
EXTENDS MCJobQueue

CONSTANTS f1, r1, d1
VARIABLES part,
          says, arch, own, round, nightly, again, finder, decided, overrun, decisions, changes

\* One feed that changes what it answers, read by one round at a time.
Feeds == INSTANCE Sources WITH
  Feed <- {f1}, Round <- {r1}, Discovery <- {d1}, AutoOn <- FALSE, PlanSources <- 1,
  ErrorLimit <- 2, OutageMin <- 2, RetryDays <- 2, StaleDays <- 2,
  MaxDecisions <- 0, MaxChanges <- 1

feedVars == <<says, arch, own, round, nightly, again, finder, decided, overrun, decisions, changes>>

\* The sources at rest: a night that does not end.
AtRest == [done |-> TRUE, due |-> {r1}]

EndsInit ==
  /\ part \in {"jobs", "feeds"}
  /\ Init
  /\ says = [f \in {f1} |-> "news"] /\ changes = 0
  /\ arch = [f \in {f1} |-> Feeds!NoRow] /\ own = [f \in {f1} |-> Feeds!NoRow]
  /\ round = [r \in {r1} |-> Feeds!NoRound] /\ finder = [d \in {d1} |-> Feeds!NoFinder]
  /\ nightly = (IF part = "feeds" THEN Feeds!Asleep ELSE AtRest) /\ again = Feeds!Reread
  /\ decided = [f \in {f1} |-> "none"] /\ overrun = {} /\ decisions = 0

EndsNext ==
  \/ part = "jobs" /\ Next /\ UNCHANGED <<part, feedVars>>
  \/ part = "feeds" /\ Feeds!SourcesNext /\ UNCHANGED <<part, vars>>

EndsSpec ==
  /\ EndsInit /\ [][EndsNext]_<<part, vars, feedVars>>
  /\ Fairness /\ Feeds!NightsGoOn

\* "A site down for a day is not a dead feed": a source that publishes again
\* goes back to work, whatever it was suspended for.
ComesBack == Feeds!ComesBack
=============================================================================
