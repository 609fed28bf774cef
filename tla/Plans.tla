------------------------------- MODULE Plans --------------------------------
(***************************************************************************)
(* How a site gets its proposals.  A planner (the tick, in the morning or  *)
(* in the newsroom's round; the job of a person who asks) reads what was   *)
(* proposed, waits for the model and writes its proposals one transaction  *)
(* at a time: first articles on a theme, then stories told by several      *)
(* sources, then single news.  Beside them people ask for titles and       *)
(* articles of their own.                                                  *)
(***************************************************************************)
EXTENDS Integers, FiniteSets, SequencesExt

CONSTANTS Story,        \* topics of the archive
          Theme,        \* themes of the site: gaps, searches, season
          PlanCfg,      \* the site: content_mode, proposals_per_day, proposals_only
          OnlyPerDay,   \* PROPOSALS_ONLY_PER_DAY
          RoundMost,    \* what the newsroom's round asks for
          NotAgain,     \* days a story or a theme is not proposed again
          Recent,       \* days a story is news
          MaxDate, MaxProps  \* bounds of the exploration

VARIABLES date,     \* the day
          setup,    \* the site
          told,     \* each story: the day of its last news, 0 before any
          props,    \* the proposals
          plan      \* the planner's call under way

planVars == <<date, setup, told, props, plan>>

Planner == {"tick", "person"}
Kinds == {"theme", "topic", "news", "titles", "request"}
NoPlan == [step |-> "idle", limit |-> 0, left |-> 0, from |-> {}, made |-> 0, alone |-> TRUE]

PlanInit ==
  /\ date = 1 /\ setup \in PlanCfg
  /\ told = [t \in Story |-> 0]
  /\ props = <<>> /\ plan = [c \in Planner |-> NoPlan]

Fewer(a, b) == IF a < b THEN a ELSE b

(* Proposals of one transaction. *)
Proposal(kind, about, alone) == [kind |-> kind, about |-> about, born |-> date, alone |-> alone]
Room(n) == Len(props) + n <= MaxProps
Insert(kind, abouts, alone) ==
  Room(Cardinality(abouts)) /\ props' = props \o SetToSeq({Proposal(kind, a, alone) : a \in abouts})

(* recent_props, cited and told, recent_themes: proposed in the last days.  *)
Proposed == {props[i].about : i \in {j \in DOMAIN props : props[j].born >= date - NotAgain}}
MadeToday == Cardinality({i \in DOMAIN props : props[i].born = date})

InTheNews == {t \in Story : told[t] > 0 /\ told[t] >= date - Recent}

(* evergreen.split: half of a mixed site's number on a theme (round to even)*)
Themed(n) == CASE setup.mode = "news" -> 0
               [] setup.mode = "evergreen" -> n
               [] setup.mode = "mixed" -> IF n % 4 = 3 THEN (n + 1) \div 2 ELSE n \div 2

-----------------------------------------------------------------------------
(* proposals.plan *)

Begin(c, limit) ==
  LET n == IF setup.only THEN Fewer(limit, OnlyPerDay) ELSE limit
      others == {o \in Planner \ {c} : plan[o].step # "idle"}
  IN /\ plan[c].step = "idle"
     /\ plan' = [o \in Planner |->
          IF o = c THEN [NoPlan EXCEPT !.step = "themes", !.limit = n, !.left = Themed(n), !.alone = others = {}]
          ELSE [plan[o] EXCEPT !.alone = @ /\ plan[o].step = "idle"]]
     /\ UNCHANGED <<date, setup, told, props>>

(* The tick: in the morning the day's number, in the newsroom's round      *)
(* (never of a newsroom on proposals only) what is missing.                *)
TickPlans ==
  \E limit \in {setup.perDay} \cup (IF setup.only THEN {} ELSE {RoundMost}) : Begin("tick", limit)

(* top_up: asked for by a person, a full day's number; on proposals only,  *)
(* or through the API, what the day has left of it.                        *)
TopUp(manual) ==
  LET perDay == IF setup.only THEN Fewer(setup.perDay, OnlyPerDay) ELSE setup.perDay
      left == IF manual /\ ~setup.only THEN perDay ELSE perDay - MadeToday
  IN left > 0 /\ Begin("person", left)

(* evergreen.themes: what the model, the site's articles and the searches  *)
(* give, without what was proposed lately.                                 *)
ReadThemes(c) ==
  /\ plan[c].step = "themes"
  /\ plan' = [plan EXCEPT ![c].step = "theme", ![c].from = IF plan[c].left > 0 THEN Theme \ Proposed ELSE {}]
  /\ UNCHANGED <<date, setup, told, props>>

(* One theme: written of when the site follows two items on it from two    *)
(* sources and the model answers.                                          *)
ProposeTheme(c) ==
  /\ plan[c].step = "theme" /\ plan[c].left > 0
  /\ \E th \in plan[c].from :
       \/ /\ Insert("theme", {th}, plan[c].alone)
          /\ plan' = [plan EXCEPT ![c].from = @ \ {th}, ![c].left = @ - 1, ![c].made = @ + 1]
       \/ plan' = [plan EXCEPT ![c].from = @ \ {th}] /\ UNCHANGED props
  /\ UNCHANGED <<date, setup, told>>

(* Then the news: in a mixed site the places no theme took are theirs.      *)
NewsLeft(c) == IF setup.mode = "mixed" THEN plan[c].limit - plan[c].made ELSE plan[c].limit - Themed(plan[c].limit)
AfterThemes(c) ==
  /\ plan[c].step = "theme" /\ (plan[c].left = 0 \/ plan[c].from = {})
  /\ plan' = [plan EXCEPT ![c] = IF NewsLeft(c) <= 0 THEN NoPlan
                                 ELSE [NoPlan EXCEPT !.step = "score", !.left = NewsLeft(c), !.alone = plan[c].alone]]
  /\ UNCHANGED <<date, setup, told, props>>

(* score_site: the stories of the last days not proposed lately.            *)
Score(c) ==
  /\ plan[c].step = "score"
  /\ plan' = [plan EXCEPT ![c].step = "select", ![c].from = InTheNews \ Proposed]
  /\ UNCHANGED <<date, setup, told, props>>

(* Those that score enough for the site and are a story (is_story): told    *)
(* by two sources, or one item of a strong one.                            *)
Select(c) ==
  /\ plan[c].step = "select"
  /\ \E work \in SUBSET plan[c].from :
       /\ Cardinality(work) <= plan[c].left
       /\ plan' = [plan EXCEPT ![c].step = "stories", ![c].from = work]
  /\ UNCHANGED <<date, setup, told, props>>

ProposeStory(c) ==
  /\ plan[c].step = "stories"
  /\ \E t \in plan[c].from :
       /\ Insert("topic", {t}, plan[c].alone)
       /\ plan' = [plan EXCEPT ![c].from = @ \ {t}, ![c].left = @ - 1]
  /\ UNCHANGED <<date, setup, told>>

(* picks.fill: the news nobody proposed, one for each story, for what is    *)
(* left of the number.                                                     *)
\* A slip: only the items cited are left out, not the stories told.
CandidatesCited == InTheNews
Candidates == InTheNews \ Proposed
ReadNews(c) ==
  /\ plan[c].step = "stories" /\ plan[c].from = {}
  /\ plan' = [plan EXCEPT ![c] = IF plan[c].left <= 0 \/ Candidates = {} THEN NoPlan
                                 ELSE [@ EXCEPT !.step = "fill", !.from = Candidates]]
  /\ UNCHANGED <<date, setup, told, props>>

FillIn(c) ==
  /\ plan[c].step = "fill"
  /\ \E chosen \in SUBSET plan[c].from :
       Cardinality(chosen) <= plan[c].left /\ Insert("news", chosen, plan[c].alone)
  /\ plan' = [plan EXCEPT ![c] = NoPlan]
  /\ UNCHANGED <<date, setup, told>>

(* Its process dies: what is written stays, the rest is not tried again.    *)
PlanDies(c) ==
  /\ plan[c].step # "idle" /\ plan' = [plan EXCEPT ![c] = NoPlan]
  /\ UNCHANGED <<date, setup, told, props>>

-----------------------------------------------------------------------------
(* What goes on beside the planners. *)

(* detect_topics: news of the collection opens a story or joins one.        *)
Told(t) ==
  /\ told' = [told EXCEPT ![t] = date]
  /\ UNCHANGED <<date, setup, props, plan>>

(* propose_titles: titles a person asks for, whatever was proposed.         *)
Titles(t) ==
  /\ told[t] > 0 /\ Insert("titles", {t}, FALSE)
  /\ UNCHANGED <<date, setup, told, plan>>

(* requested.ask: an article in the newsroom's own words, when there is    *)
(* something to cite.                                                      *)
Ask ==
  /\ Insert("request", {"asked"}, FALSE)
  /\ UNCHANGED <<date, setup, told, plan>>

DatePasses == date < MaxDate /\ date' = date + 1 /\ UNCHANGED <<setup, told, props, plan>>

PlanNext ==
  \/ TickPlans \/ Ask \/ DatePasses
  \/ \E manual \in BOOLEAN : TopUp(manual)
  \/ \E c \in Planner : \/ ReadThemes(c) \/ ProposeTheme(c) \/ AfterThemes(c) \/ Score(c) \/ Select(c)
                        \/ ProposeStory(c) \/ ReadNews(c) \/ FillIn(c) \/ PlanDies(c)
  \/ \E t \in Story : Told(t) \/ Titles(t)

PlanSpec == PlanInit /\ [][PlanNext]_planVars

-----------------------------------------------------------------------------
Planned(i) == props[i].kind \in {"theme", "topic", "news"}

(* "A story proposed to the site is not proposed again for this long": two *)
(* proposals on one theme or story are never both the work of planners     *)
(* that had the site to themselves, in whatever order news, titles,        *)
(* decisions and crashes come; two planners at a time may propose it twice.*)
NotProposedAgain ==
  \A i, j \in DOMAIN props :
    i # j /\ Planned(i) /\ Planned(j) /\ props[i].alone /\ props[j].alone /\ props[i].about = props[j].about
      => props[i].born - props[j].born \notin (-NotAgain)..NotAgain
=============================================================================
