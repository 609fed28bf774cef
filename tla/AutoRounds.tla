----------------------------- MODULE AutoRounds -----------------------------
(***************************************************************************)
(* The hourly round of the automatic newsroom (autopilot.run): it counts   *)
(* what the day already has, takes on proposals for what is missing, goes  *)
(* beyond the day's number with articles brought forward from tomorrow,    *)
(* paid with credits or on breaking news, and keeps the record of those in *)
(* a transaction of its own, after the others.  How an article is written  *)
(* and read again is in Articles; here it ends kept, discarded or failed.  *)
(***************************************************************************)
EXTENDS Integers, FiniteSets

CONSTANTS Prop,      \* proposals
          PerDay,    \* per_day: articles the day should keep
          Tries,     \* TRIES_PER_ARTICLE
          Settings,  \* what the director may have set: on_problem is fix (nothing waits for
                     \* a person), how many articles may be borrowed from tomorrow, paid
                     \* with credits, or be breaking news (BREAKING_PER_DAY or none)
          MaxDay,    \* bound of the exploration: days
          MaxDeaths  \* and crashes in the middle of a round and interventions of the director

VARIABLES today,     \* the day
          enabled,   \* the automatic newsroom is on
          cfg,       \* the settings
          over,      \* auto_over: the record of the extras
          prop,      \* proposals
          art,       \* the last version of each one's article
          auto,      \* its `auto` job
          round,     \* the round under way
          deaths, acts   \* how many of those there were

autoVars == <<today, enabled, cfg, over, prop, art, auto, round, deaths, acts>>
events == <<deaths, acts>>

Most(a, b) == IF a > b THEN a ELSE b
Least(a, b) == IF a < b THEN a ELSE b

Nobody == "nobody"
NewProp == [status |-> "none", born |-> 0, as |-> "none", day |-> 0]
Upset == deaths + acts < MaxDeaths
Acts == Upset /\ acts' = acts + 1 /\ UNCHANGED deaths

NoArt == [status |-> "none", day |-> 0]
NoRecord == [day |-> 0, borrowed |-> 0, paid |-> 0, breaking |-> 0, debt |-> 0]
NoRound == [step |-> "idle", picks |-> {}, next |-> Nobody, as |-> "none", over |-> NoRecord, took |-> 0]

AutoInit ==
  /\ today = 1 /\ enabled = TRUE /\ cfg \in Settings
  /\ over = NoRecord
  /\ prop = [p \in Prop |-> NewProp] /\ art = [p \in Prop |-> NoArt]
  /\ auto = [p \in Prop |-> "none"] /\ round = NoRound /\ deaths = 0 /\ acts = 0

-----------------------------------------------------------------------------
(* made_since: what the day has, by the drafts' and the jobs' rows. *)

OfAuto(p) == prop[p].as # "none"
Working(p) == auto[p] = "working"
Alive(p) == IF cfg.fix THEN art[p].status = "approved" \/ (art[p].status = "open" /\ Working(p))
                   ELSE art[p].status \in {"open", "approved"}
Mine(day) == {p \in Prop : OfAuto(p) /\ art[p].status # "none" /\ art[p].day = day}
Writing == {p \in Prop : OfAuto(p) /\ prop[p].status = "accepted" /\ prop[p].born >= today - 1}
Lost == {p \in Writing : auto[p] = "failed"}
KeptOn(day) == Cardinality({p \in Mine(day) : Alive(p)})
Kept == KeptOn(today) + Cardinality(Writing) - Cardinality(Lost)
\* A slip: an article counts as tried once it is written.
TriedWritten == Cardinality(Mine(today))
Tried == Cardinality(Mine(today)) + Cardinality(Writing)

(* over_today: the record of today, or a new one that owes what yesterday  *)
(* kept beyond its number.                                                 *)
OverToday ==
  LET beyond == KeptOn(today - 1) - Most(1, PerDay - over.debt)
      owed == IF over.day = today - 1 THEN Least(over.borrowed + over.breaking, Most(0, beyond)) ELSE 0
  IN IF over.day = today THEN over
     ELSE [day |-> today, borrowed |-> 0, paid |-> 0, breaking |-> 0, debt |-> owed]

(* What this round takes on: an ordinary article, an extra or nothing.     *)
Target(o) == Most(1, PerDay - o.debt)
Pays(o, credits) == credits /\ cfg.extra > o.paid
KindOf(o, pays, monthOver) ==
  IF monthOver THEN IF pays THEN "paid" ELSE "wait"
  ELSE IF Kept < Target(o) THEN IF Tried < PerDay * Tries THEN "day" ELSE "tried"
  ELSE IF Kept - Target(o) - o.breaking < cfg.borrow /\ o.borrowed < cfg.borrow * Tries THEN "borrowed"
  ELSE IF pays THEN "paid"
  ELSE "done"

-----------------------------------------------------------------------------
(* Each hour, with the newsroom on: the proposals past the day and a half   *)
(* it chooses from are closed.                                             *)
Round ==
  /\ round = NoRound /\ enabled
  /\ \E old \in SUBSET {p \in Prop : prop[p].status = "proposed" /\ prop[p].born < today} :
       /\ \A p \in Prop : prop[p].status = "proposed" /\ prop[p].born < today - 2 => p \in old
       /\ prop' = [p \in Prop |-> IF p \in old THEN [prop[p] EXCEPT !.status = "rejected"] ELSE prop[p]]
  /\ round' = [NoRound EXCEPT !.step = "choose"]
  /\ UNCHANGED <<today, enabled, cfg, over, art, auto, events>>

(* choose and breaking_news read what was proposed in those hours; choose  *)
(* turns down what is on a topic to avoid.                                 *)
Fresh == {p \in Prop : prop[p].status = "proposed" /\ prop[p].born >= today - 2}
TakesOn(kind, o, least, most) ==
  \E picks \in SUBSET Fresh, avoid \in SUBSET Fresh :
    /\ Cardinality(picks) \in least..most /\ picks \cap avoid = {} /\ (kind = "breaking" => avoid = {})
    /\ prop' = [p \in Prop |-> IF p \in avoid THEN [prop[p] EXCEPT !.status = "rejected"] ELSE prop[p]]
    /\ round' = [NoRound EXCEPT !.step = "accept", !.picks = picks, !.as = kind, !.over = o]

(* run, up to the choice: the ordinary articles within the tries the day   *)
(* has left, one extra at a time, breaking news out of hours and once the  *)
(* day is done or no proposal is worth an extra.                           *)
Choose ==
  /\ round.step = "choose"
  /\ \E credits, monthOver, hours \in BOOLEAN :
       LET o == OverToday
           kind == KindOf(o, Pays(o, credits), monthOver)
       IN \/ /\ hours /\ kind = "day"
             /\ TakesOn(kind, o, 0, Least(Target(o) - Kept, PerDay * Tries - Tried))
          \/ hours /\ kind \in {"borrowed", "paid"} /\ TakesOn(kind, o, 1, 1)
          \/ /\ ~hours \/ kind \in {"borrowed", "paid", "done"}
             /\ ~monthOver /\ o.breaking < cfg.breaking /\ TakesOn("breaking", o, 1, 1)
          \/ ~(hours /\ kind = "day") /\ round' = NoRound /\ UNCHANGED prop
  /\ UNCHANGED <<today, enabled, cfg, over, art, auto, events>>

(* proposals.decide: one somebody decided meanwhile is passed over.        *)
TakeOn(p) ==
  /\ round.step = "accept" /\ p \in round.picks
  /\ IF prop[p].status # "proposed"
     THEN round' = [round EXCEPT !.picks = @ \ {p}] /\ UNCHANGED prop
     ELSE /\ prop' = [prop EXCEPT ![p].status = "accepted",
                                  ![p].as = round.as, ![p].day = round.over.day]
          /\ round' = [round EXCEPT !.picks = @ \ {p}, !.next = p, !.step = "queue"]
  /\ UNCHANGED <<today, enabled, cfg, over, art, auto, events>>

Queue ==
  /\ round.step = "queue"
  /\ auto' = [auto EXCEPT ![round.next] = IF Working(round.next) THEN @ ELSE "working"]
  /\ round' = [round EXCEPT !.step = "accept", !.next = Nobody, !.took = @ + 1]
  /\ UNCHANGED <<today, enabled, cfg, over, prop, art, events>>

(* The record, at the end; the extra added to what was read at the start.  *)
Record ==
  /\ round.step = "accept" /\ round.picks = {}
  /\ over' = IF round.as = "day" THEN round.over
             ELSE IF round.took > 0 THEN [round.over EXCEPT ![round.as] = @ + round.took]
             ELSE IF round.as = "breaking" THEN over ELSE round.over
  /\ round' = NoRound
  /\ UNCHANGED <<today, enabled, cfg, prop, art, auto, events>>

(* The process dies: the tick runs again as a new round.                   *)
RoundDies ==
  /\ round # NoRound /\ Upset /\ deaths' = deaths + 1 /\ round' = NoRound
  /\ UNCHANGED <<today, enabled, cfg, over, prop, art, auto, acts>>

-----------------------------------------------------------------------------
(* What goes on beside the rounds. *)

(* proposals.plan, in the round or in the morning.                         *)
Propose(p) ==
  /\ prop[p].status = "none"
  /\ prop' = [prop EXCEPT ![p].status = "proposed", ![p].born = today]
  /\ UNCHANGED <<today, enabled, cfg, over, art, auto, round, events>>

(* work.auto: the article is written, again after a crash or to correct it *)
(* (the version before is discarded first); or its news are too thin.      *)
WriteIt(p) ==
  /\ Working(p) /\ prop[p].status \in {"accepted", "drafted"}
  /\ art' = [art EXCEPT ![p] = [status |-> "open", day |-> today]]
  /\ prop' = [prop EXCEPT ![p].status = "drafted"]
  /\ UNCHANGED <<today, enabled, cfg, over, auto, round, events>>

TooThin(p) ==
  /\ Working(p) /\ prop[p].status = "accepted"
  /\ prop' = [prop EXCEPT ![p].status = "rejected"]
  /\ auto' = [auto EXCEPT ![p] = "done"]
  /\ UNCHANGED <<today, enabled, cfg, over, art, round, events>>

(* The job ends: without an article it failed; with one, which is approved,*)
(* discarded or left to a person.                                          *)
EndJob(p) ==
  /\ Working(p)
  /\ IF art[p].status = "none" THEN auto' = [auto EXCEPT ![p] = "failed"] /\ UNCHANGED art
     ELSE /\ auto' = [auto EXCEPT ![p] = "done"]
          /\ \E s \in {"open", "approved", "rejected"} :
               art' = [art EXCEPT ![p].status = IF @ = "open" THEN s ELSE @]
  /\ UNCHANGED <<today, enabled, cfg, over, prop, round, events>>

(* The director decides a proposal or an article, deletes an article       *)
(* (the proposal can be written again), stops the newsroom or starts it.   *)
Decides(p) ==
  /\ Acts
  /\ \/ /\ prop[p].status = "proposed" /\ UNCHANGED art
        /\ \E s \in {"accepted", "rejected"} : prop' = [prop EXCEPT ![p].status = s]
     \/ /\ art[p].status = "open" /\ UNCHANGED prop
        /\ \E s \in {"approved", "rejected"} : art' = [art EXCEPT ![p].status = s]
     \/ /\ art[p].status # "none" /\ art' = [art EXCEPT ![p] = NoArt]
        /\ prop' = [prop EXCEPT ![p].status = IF @ = "drafted" THEN "accepted" ELSE @]
  /\ UNCHANGED <<today, enabled, cfg, over, auto, round>>

Toggle ==
  /\ Acts /\ enabled' = ~enabled
  /\ UNCHANGED <<today, cfg, over, prop, art, auto, round>>

Tomorrow == today < MaxDay /\ today' = today + 1 /\ UNCHANGED <<enabled, cfg, over, prop, art, auto, round, events>>

AutoNext ==
  \/ Round \/ Choose \/ Queue \/ Record \/ RoundDies \/ Toggle \/ Tomorrow
  \/ \E p \in Prop : TakeOn(p) \/ Propose(p) \/ WriteIt(p) \/ TooThin(p) \/ EndJob(p) \/ Decides(p)

AutoSpec == AutoInit /\ [][AutoNext]_autoVars

-----------------------------------------------------------------------------
(* Every proposal, article and job holds what the code may write in it, and *)
(* the record of the extras stays within what the director allowed.        *)
AutoTypeOK ==
  /\ prop \in [Prop -> [status : {"none", "proposed", "accepted", "drafted", "rejected"},
                        born : 0..MaxDay, as : {"none", "day", "borrowed", "paid", "breaking"}, day : 0..today]]
  /\ art \in [Prop -> [status : {"none", "open", "approved", "rejected"}, day : 0..today]]
  /\ auto \in [Prop -> {"none", "working", "failed", "done"}]
  /\ over.paid <= cfg.extra /\ over.breaking <= cfg.breaking

TakenOn(kind) == {p \in Prop : prop[p].as = kind /\ prop[p].day = today}

(* "How many articles a day the newsroom may try": whatever is discarded,  *)
(* lost, deleted or killed half-way, the ordinary articles taken on in a   *)
(* day stay within its tries, leaving out those whose news were too thin   *)
(* and proposals older than yesterday, which made_since does not count.    *)
TriesWithinDay ==
  Cardinality({p \in TakenOn("day") : prop[p].status # "rejected" /\ prop[p].born >= today - 1})
    <= PerDay * Tries

(* The extras of a day stay within what the director allowed; a crash      *)
(* before the record forgets one at most.                                  *)
ExtrasWithinDay ==
  /\ Cardinality(TakenOn("paid")) <= cfg.extra + deaths
  /\ Cardinality(TakenOn("breaking")) <= cfg.breaking + deaths
  /\ Cardinality(TakenOn("borrowed")) <= cfg.borrow * Tries + deaths
=============================================================================
