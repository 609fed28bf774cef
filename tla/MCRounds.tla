------------------------------ MODULE MCRounds ------------------------------
(***************************************************************************)
(* Small instances of what a newsroom does by itself: the rounds of the    *)
(* automatic newsroom, the hourly tick and what it sends, the sources it   *)
(* finds and looks after.  They share no state here, so each behaviour     *)
(* runs one of them.  While the rounds rest, the one that runs keeps its   *)
(* state in the variables v1 to v11.                                       *)
(***************************************************************************)
EXTENDS AutoRounds, TLC

CONSTANTS a1, a2, a3   \* proposals
VARIABLES part, v1, v2, v3, v4, v5, v6, v7, v8, v9, v10, v11

\* A newsroom that borrows an article, one that pays for one, one for breaking news.
MCSettings == {[fix |-> TRUE, borrow |-> 1, extra |-> 0, breaking |-> 0],
               [fix |-> FALSE, borrow |-> 0, extra |-> 1, breaking |-> 0],
               [fix |-> TRUE, borrow |-> 0, extra |-> 0, breaking |-> 1]}

\* Two days of the briefing; three of the weekly report and of the evening's article.
Briefing == INSTANCE Ticks WITH
  Proposal <- {"q"}, Kind <- {"briefing"}, Week <- 3, LastDay <- 2, MaxDeaths <- 1, MaxTrouble <- 1,
  now <- v1, tick <- v2, last <- v3, queued <- v4, props <- v5, post <- v6, sending <- v7,
  deaths <- v8, trouble <- v9
Weekly == INSTANCE Ticks WITH
  Proposal <- {}, Kind <- {"report", "article"}, Week <- 3, LastDay <- 3, MaxDeaths <- 1, MaxTrouble <- 1,
  now <- v1, tick <- v2, last <- v3, queued <- v4, props <- v5, post <- v6, sending <- v7,
  deaths <- v8, trouble <- v9

\* Two feeds, found and looked at again, and a person who decides once.
Feeds == INSTANCE Sources WITH
  Feed <- {"f", "g"}, Round <- {}, Discovery <- {"d"}, AutoOn <- TRUE, PlanSources <- 1,
  ErrorLimit <- 1, OutageMin <- 2, RetryDays <- 1, StaleDays <- 1, MaxDecisions <- 1, MaxChanges <- 0,
  says <- v1, arch <- v2, own <- v3, round <- v4, nightly <- v5, again <- v6, finder <- v7,
  decided <- v8, overrun <- v9, decisions <- v10, changes <- v11

otherVars == <<v1, v2, v3, v4, v5, v6, v7, v8, v9, v10, v11>>
Unused == v10 = 0 /\ v11 = 0

RoundsInit ==
  /\ \/ /\ part = "rounds"
        /\ v1 = 0 /\ v2 = 0 /\ v3 = 0 /\ v4 = 0 /\ v5 = 0
        /\ v6 = 0 /\ v7 = 0 /\ v8 = 0 /\ v9 = 0 /\ Unused
     \/ part = "briefing" /\ Briefing!TickInit /\ Unused
     \/ part = "weekly" /\ Weekly!TickInit /\ Unused
     \/ part = "feeds" /\ Feeds!SourcesInit
  /\ AutoInit /\ (part # "rounds" => cfg.extra = 1)

RoundsNext ==
  \/ part = "rounds" /\ AutoNext /\ UNCHANGED <<part, otherVars>>
  \/ /\ UNCHANGED <<part, autoVars>>
     /\ \/ part = "briefing" /\ Briefing!TickNext /\ UNCHANGED <<v10, v11>>
        \/ part = "weekly" /\ Weekly!TickNext /\ UNCHANGED <<v10, v11>>
        \/ part = "feeds" /\ Feeds!SourcesNext

RoundsSpec == RoundsInit /\ [][RoundsNext]_<<part, autoVars, otherVars>>

\* The proposals of the rounds are alike.
MCSymmetry == Permutations(Prop)
-----------------------------------------------------------------------------
\* Whatever is discarded, lost or deleted, the ordinary articles taken on in a
\* day stay within its tries and the extras within what the director allowed,
\* but for a record a crash forgot; the tables hold what the code may write.
DayKeepsItsNumber == AutoTypeOK /\ TriesWithinDay /\ ExtrasWithinDay

\* Each channel has the day's briefing, the week's report and the article
\* once, but for a death between sending and recording; the evening analysis
\* is asked for once a day; and after the first briefing what waits for a
\* decision is told by the next one built.
TicksTell ==
  /\ part = "briefing" => Briefing!SentOnce /\ Briefing!WaitingIsTold /\ Briefing!EveningOnce
  /\ part = "weekly" => Weekly!SentOnce /\ Weekly!EveningOnce

\* What a person decided of a source stands, but for a re-evaluation that was
\* under way (sources.maintain, discover; ui_sources, api).
DecisionStands == part = "feeds" => Feeds!DecisionStands
=============================================================================
