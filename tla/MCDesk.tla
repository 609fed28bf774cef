------------------------------- MODULE MCDesk -------------------------------
(***************************************************************************)
(* A small newsroom's desk: what it publishes, the articles it writes by   *)
(* itself, the text and the cover of a draft, the versions of its line,    *)
(* what it proposes and on what evidence.  They share no state here, so    *)
(* each behaviour runs one of them.  While publishing rests, the one that  *)
(* runs keeps its state in the variables v1 to v7, whichever it is: the    *)
(* search has no other variables to carry.                                 *)
(***************************************************************************)
EXTENDS MCPublishing

CONSTANT topic   \* one the owner takes out of the line
VARIABLES part, v1, v2, v3, v4, v5, v6, v7

\* Two articles of one story, or the evening's; the other kind was not asked for.
Stories == {w1, w2}
Evening == {original}
Newsroom == INSTANCE Articles WITH
  News <- Stories, Evening <- Evening, MaxVersion <- 3, FixRounds <- 1, MaxUpsets <- 1,
  on <- v1, fix <- v2, draft <- v3, job <- v4, translation <- v5, mishaps <- v6

\* Two sentences, each of which passes the check or not.
Text == INSTANCE Texts WITH
  Slot <- {1, 2}, Wording <- {"a", "bad"}, Bad <- {"bad"}, MaxSaves <- 2, MaxDraws <- 2,
  rows <- v1, body <- v2, draft <- v3, at <- v4, saves <- v5, cover <- v6, picture <- v7

\* Three versions: two pages saved, or a topic and no page.
Settings == INSTANCE Profiles WITH
  Topic <- {}, MaxVersion <- 3, MaxSaves <- 2,
  profile <- v1, page <- v2, brief <- v3, saved <- v4, crossed <- v5,
  out <- v6, saves <- v7
Topics == INSTANCE Profiles WITH
  Topic <- {topic}, MaxVersion <- 3, MaxSaves <- 0,
  profile <- v1, page <- v2, brief <- v3, saved <- v4, crossed <- v5,
  out <- v6, saves <- v7

\* A site that mixes its themes with the news, one of themes on proposals only,
\* one of a theme a day.
Plan == INSTANCE Plans WITH
  Story <- {"s"}, Theme <- {"h"},
  PlanCfg <- {[mode |-> "mixed", perDay |-> 2, only |-> FALSE],
              [mode |-> "evergreen", perDay |-> 3, only |-> TRUE],
              [mode |-> "evergreen", perDay |-> 1, only |-> FALSE]},
  OnlyPerDay <- 2, RoundMost <- 3, NotAgain <- 1, Recent <- 1, MaxDate <- 2, MaxProps <- 2,
  date <- v1, setup <- v2, told <- v3, props <- v4, plan <- v5

\* One item, one primary document, two proposals.
Archive == INSTANCE Evidence WITH
  Item <- {"n"}, Doc <- {"d"}, Pro <- Stories, NoItem <- "none",
  Retention <- 0, EventDays <- 0, PerDay <- 2, LastDate <- 2, MaxLooks <- 1,
  today <- v1, item <- v2, pro <- v3, writer <- v4, asked <- v5, calls <- v6

deskVars == <<v1, v2, v3, v4, v5, v6, v7>>

DeskInit ==
  /\ Init
  /\ \/ /\ part = "publishing"
        /\ v1 = 0 /\ v2 = 0 /\ v3 = 0 /\ v4 = 0 /\ v5 = 0 /\ v6 = 0 /\ v7 = 0
     \/ /\ part = "articles" /\ v7 = 0
        /\ \E asked \in {Stories, Evening} : Newsroom!AskedFor(asked)
     \/ part = "text" /\ Text!TextInit
     \/ part \in {"settings", "topics"} /\ Settings!ProfilesInit
     \/ part = "plan" /\ Plan!PlanInit /\ v6 = 0 /\ v7 = 0
     \/ part = "archive" /\ Archive!EvidenceInit /\ v7 = 0

DeskNext ==
  \/ part = "publishing" /\ Next /\ UNCHANGED <<part, deskVars>>
  \/ /\ UNCHANGED <<part, vars>>
     /\ \/ part = "articles" /\ Newsroom!ArticlesNext /\ UNCHANGED v7
        \/ part = "text" /\ Text!TextNext
        \/ part = "settings" /\ Settings!ProfilesNext
        \/ part = "topics" /\ Topics!ProfilesNext
        \/ part = "plan" /\ Plan!PlanNext /\ UNCHANGED <<v6, v7>>
        \/ part = "archive" /\ Archive!EvidenceNext /\ UNCHANGED v7

DeskSpec == DeskInit /\ [][DeskNext]_<<part, vars, deskVars>>
-----------------------------------------------------------------------------
\* Every table and job holds what the code may write in it.
DeskTypeOK ==
  /\ TypeOK
  /\ part = "articles" => Newsroom!ArticlesTypeOK
  /\ part = "topics" => Topics!ProfilesTypeOK

\* Nothing goes out by itself whose text neither the editor-in-chief nor a
\* person let through (autopilot.finish, correct, drafts.edit, translate).
PassedGoesOut == part = "articles" => Newsroom!PassedGoesOut

\* "With on_problem fix nothing waits for a person" (autopilot.finish).
NothingWaits == part = "articles" => Newsroom!NothingWaits

\* What a person saves of a line, and takes out of it, is what the line in
\* use has, whatever analyses, versions and other pages follow.
OwnersWordStands ==
  part \in {"settings", "topics"} => Settings!SavedIsInUse /\ Settings!TakenOutStaysOut

\* The text published is what its checked sentences say, and the translation
\* shows the same cover, whoever writes and draws at the same time.
WhatIsShown == part = "text" => Text!BodyIsTheSentences /\ Text!SameCover

\* "A story proposed to the site is not proposed again for this long", where
\* one planner at a time is at work (plan, picks, proposals.top_up).
NotProposedAgain == part = "plan" => Plan!NotProposedAgain

\* What a proposal or a sentence cites stays in the archive, and articles
\* written together pass the day's cap of searches by no more than one's calls
\* each.
EvidenceStands == part = "archive" => Archive!CitedStays /\ Archive!CapNearlyHolds
=============================================================================
