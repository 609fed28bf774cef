----------------------------- MODULE RoundsProofs -----------------------------
(***************************************************************************)
(* What a newsroom does by itself keeps what it promises: its day keeps    *)
(* its number, its channels have each issue once, its sources stay as a    *)
(* person decided; and the queue it works through, where the newsroom is   *)
(* alone on its file, does one thing at a time.                            *)
(***************************************************************************)
EXTENDS MCRounds, MCQueues, TLAPS, FiniteSetTheorems

-----------------------------------------------------------------------------
(* The instances: what HoursProofs proves of the hours and the sources,    *)
(* for the newsroom whose sources and briefing run here and for the one    *)
(* of the weekly report.  Each definition an instance of MCRounds names is *)
(* the one the theorems speak of.                                          *)

Hours == INSTANCE HoursProofs WITH
  Proposal <- {"q"}, Kind <- {"briefing"}, Week <- 3, LastDay <- 2, MaxDeaths <- 1, MaxTrouble <- 1,
  now <- v1, tick <- v2, last <- v3, queued <- v4, props <- v5, post <- v6, sending <- v7,
  deaths <- v8, trouble <- v9,
  Feed <- {"f", "g"}, Round <- {}, Discovery <- {"d"}, AutoOn <- TRUE, PlanSources <- 1,
  ErrorLimit <- 1, OutageMin <- 2, RetryDays <- 1, StaleDays <- 1, MaxDecisions <- 1, MaxChanges <- 0,
  says <- v1, arch <- v2, own <- v3, round <- v4, nightly <- v5, again <- v6, finder <- v7,
  decided <- v8, overrun <- v9, decisions <- v10, changes <- v11,
  Topic <- {}, MaxVersion <- 1, MaxSaves <- 0,
  profile <- v1, page <- v2, brief <- v3, saved <- v4, crossed <- v5, out <- v6, saves <- v7
Weeks == INSTANCE HoursProofs WITH
  Proposal <- {}, Kind <- {"report", "article"}, Week <- 3, LastDay <- 3, MaxDeaths <- 1, MaxTrouble <- 1,
  now <- v1, tick <- v2, last <- v3, queued <- v4, props <- v5, post <- v6, sending <- v7,
  deaths <- v8, trouble <- v9,
  Feed <- {"f", "g"}, Round <- {}, Discovery <- {"d"}, AutoOn <- TRUE, PlanSources <- 1,
  ErrorLimit <- 1, OutageMin <- 2, RetryDays <- 1, StaleDays <- 1, MaxDecisions <- 1, MaxChanges <- 0,
  says <- v1, arch <- v2, own <- v3, round <- v4, nightly <- v5, again <- v6, finder <- v7,
  decided <- v8, overrun <- v9, decisions <- v10, changes <- v11,
  Topic <- {}, MaxVersion <- 1, MaxSaves <- 0,
  profile <- v1, page <- v2, brief <- v3, saved <- v4, crossed <- v5, out <- v6, saves <- v7

LEMMA SameCardinality ==
  ASSUME NEW S
  PROVE  Feeds!Cardinality(S) = Hours!Cardinality(S)
BY DEF Feeds!Cardinality, Hours!Cardinality

LEMMA SameActive ==
  ASSUME NEW found
  PROVE  Feeds!Active(found) = Hours!Active(found)
BY DEF Feeds!Active, Hours!Active

LEMMA SameRoom == Feeds!Room <=> Hours!Room
<1>1. Feeds!Active(v3) = Hours!Active(v3)
  BY SameActive
<1>2. Feeds!Cardinality(Hours!Active(v3)) = Hours!Cardinality(Hours!Active(v3))
  BY SameCardinality
<1>. QED
  BY <1>1, <1>2 DEF Feeds!Room, Hours!Room

LEMMA SameSet ==
  ASSUME NEW row, NEW status, NEW why
  PROVE  Feeds!SetStatus(row, status, why) = Hours!SetStatus(row, status, why)
BY DEF Feeds!SetStatus, Hours!SetStatus, Feeds!Aged, Hours!Aged

LEMMA SameEvaluated ==
  ASSUME NEW row
  PROVE  Feeds!Evaluated(row) = Hours!Evaluated(row)
BY DEF Feeds!Evaluated, Hours!Evaluated

LEMMA SameTakenOn ==
  ASSUME NEW S
  PROVE  Feeds!TakenOn(S) <=> Hours!TakenOn(S)
<1>1. Feeds!Active(v3) = Hours!Active(v3)
  BY SameActive
<1>2. Feeds!Cardinality(Hours!Active(v3) \cup S) = Hours!Cardinality(Hours!Active(v3) \cup S)
  BY SameCardinality
<1>. QED
  BY <1>1, <1>2 DEF Feeds!TakenOn, Hours!TakenOn

(* Discoveries.                                                            *)
LEMMA SameDiscoveries ==
  ASSUME NEW d, NEW f
  PROVE  /\ Feeds!DiscoverBegins(d) <=> Hours!DiscoverBegins(d)
         /\ Feeds!DiscoverEnds(d) <=> Hours!DiscoverEnds(d)
         /\ Feeds!Try(d, f) <=> Hours!Try(d, f)
         /\ Feeds!Upsert(d, f) <=> Hours!Upsert(d, f)
<1>1. Feeds!DiscoverBegins(d) <=> Hours!DiscoverBegins(d)
  BY DEF
       Feeds!DiscoverBegins, Feeds!NoFinder, Feeds!world, Feeds!people, Hours!DiscoverBegins,
       Hours!NoFinder, Hours!world, Hours!people
<1>2. Feeds!DiscoverEnds(d) <=> Hours!DiscoverEnds(d)
  BY SameTakenOn, SameSet, Zenon DEF
       Feeds!DiscoverEnds, Feeds!NoFinder, Feeds!world, Feeds!people, Hours!DiscoverEnds,
       Hours!NoFinder, Hours!world, Hours!people
<1>3. Feeds!Try(d, f) <=> Hours!Try(d, f)
  BY SameRoom, Zenon DEF
       Feeds!Try, Feeds!Rated, Feeds!world, Feeds!people, Hours!Try, Hours!Rated, Hours!world,
       Hours!people
<1>4. Feeds!Upsert(d, f) <=> Hours!Upsert(d, f)
  BY DEF
       Feeds!Upsert, Feeds!Evaluated, Feeds!New, Feeds!world, Feeds!people, Feeds!NoRow,
       Hours!Upsert, Hours!Evaluated, Hours!New, Hours!world, Hours!people, Hours!NoRow
<1>. QED
  BY <1>1, <1>2, <1>3, <1>4

(* Maintenances, people and days.                                          *)
LEMMA SameCare ==
  ASSUME NEW f, NEW status
  PROVE  /\ Feeds!MaintainArchive <=> Hours!MaintainArchive
         /\ Feeds!MaintainNewsroom <=> Hours!MaintainNewsroom
         /\ Feeds!NextDay <=> Hours!NextDay
         /\ Feeds!TryAgain(f) <=> Hours!TryAgain(f)
         /\ Feeds!Reevaluate(f) <=> Hours!Reevaluate(f)
         /\ Feeds!Change(f) <=> Hours!Change(f)
         /\ Feeds!OnPage(f, status) <=> Hours!OnPage(f, status)
         /\ Feeds!ThroughApi(f, status) <=> Hours!ThroughApi(f, status)
<1>1. Feeds!MaintainArchive <=> Hours!MaintainArchive
  BY DEF
       Feeds!MaintainArchive, Feeds!Kept, Feeds!DueAgain, Feeds!world, Feeds!people,
       Feeds!SetStatus, Feeds!Aged, Hours!MaintainArchive, Hours!Kept, Hours!DueAgain,
       Hours!world, Hours!people, Hours!SetStatus, Hours!Aged
<1>2. Feeds!MaintainNewsroom <=> Hours!MaintainNewsroom
  BY DEF
       Feeds!MaintainNewsroom, Feeds!Suspended, Feeds!Active, Feeds!LooksAgain, Feeds!world,
       Feeds!people, Feeds!SetStatus, Feeds!Aged, Hours!MaintainNewsroom, Hours!Suspended,
       Hours!Active, Hours!LooksAgain, Hours!world, Hours!people, Hours!SetStatus, Hours!Aged
<1>3. Feeds!NextDay <=> Hours!NextDay
  BY DEF
       Feeds!NextDay, Feeds!NoRow, Feeds!Older, Feeds!world, Feeds!people, Hours!NextDay,
       Hours!NoRow, Hours!Older, Hours!world, Hours!people
<1>4. Feeds!TryAgain(f) <=> Hours!TryAgain(f)
  BY DEF
       Feeds!TryAgain, Feeds!Evaluated, Feeds!Fresh, Feeds!SetStatus, Feeds!world,
       Feeds!people, Feeds!Aged, Hours!TryAgain, Hours!Evaluated, Hours!Fresh,
       Hours!SetStatus, Hours!world, Hours!people, Hours!Aged
<1>5. Feeds!Reevaluate(f) <=> Hours!Reevaluate(f)
  BY SameRoom, SameSet, SameEvaluated, Zenon DEF
       Feeds!Reevaluate, Feeds!world, Feeds!people, Hours!Reevaluate, Hours!world, Hours!people
<1>6. Feeds!Change(f) <=> Hours!Change(f)
  BY DEF
       Feeds!Change, Feeds!Answer, Feeds!people, Hours!Change, Hours!Answer, Hours!people
<1>7. Feeds!PersonSets(f, status) <=> Hours!PersonSets(f, status)
  BY DEF
       Feeds!PersonSets, Feeds!Aged, Feeds!world, Hours!PersonSets, Hours!Aged, Hours!world
<1>8. Feeds!OnPage(f, status) <=> Hours!OnPage(f, status)
  BY <1>7, SameRoom DEF Feeds!OnPage, Hours!OnPage
<1>9. Feeds!ThroughApi(f, status) <=> Hours!ThroughApi(f, status)
  BY <1>7 DEF Feeds!ThroughApi, Hours!ThroughApi
<1>. QED
  BY <1>1, <1>2, <1>3, <1>4, <1>5, <1>6, <1>8, <1>9

LEMMA SameSources ==
  /\ Feeds!SourcesInit <=> Hours!SourcesInit
  /\ Feeds!SourcesNext => Hours!SourcesNext
  /\ Feeds!DecisionStands <=> Hours!DecisionStands
<1>1. Feeds!SourcesInit <=> Hours!SourcesInit
  BY DEF
       Feeds!SourcesInit, Feeds!NoRow, Feeds!NoRound, Feeds!Asleep, Feeds!Reread,
       Feeds!NoFinder, Hours!SourcesInit, Hours!NoRow, Hours!NoRound, Hours!Asleep,
       Hours!Reread, Hours!NoFinder
<1>2. Feeds!SourcesNext => Hours!SourcesNext
  BY SameDiscoveries, SameCare, Zenon DEF Feeds!SourcesNext, Hours!SourcesNext
<1>3. Feeds!DecisionStands <=> Hours!DecisionStands
  BY DEF Feeds!DecisionStands, Hours!DecisionStands
<1>. QED
  BY <1>1, <1>2, <1>3

LEMMA SameBriefing ==
  /\ Briefing!TickInit <=> Hours!TickInit
  /\ Briefing!TickNext <=> Hours!TickNext
  /\ Briefing!SentOnce <=> Hours!SentOnce
  /\ Briefing!EveningOnce <=> Hours!EveningOnce
  /\ Briefing!WaitingIsTold <=> Hours!WaitingIsTold
<1>1. Briefing!TickInit <=> Hours!TickInit
  BY DEF
       Briefing!TickInit, Briefing!Night, Briefing!NoTick, Briefing!Unborn, Briefing!Issue,
       Briefing!Quiet, Briefing!Channel, Hours!TickInit, Hours!Night, Hours!NoTick,
       Hours!Unborn, Hours!Issue, Hours!Quiet, Hours!Channel
<1>2. Briefing!TickNext <=> Hours!TickNext
  BY DEF
       Briefing!TickNext, Briefing!TickBegins, Briefing!Maintain, Briefing!MarkEvening,
       Briefing!QueueEvening, Briefing!Review, Briefing!Build, Briefing!NoBuild,
       Briefing!NotSent, Briefing!NewReport, Briefing!ApproveArticle, Briefing!WorkerDies,
       Briefing!NextHour, Briefing!SendReads, Briefing!SendRecords, Briefing!Channel,
       Briefing!Send, Briefing!Refused, Briefing!Proposed, Briefing!Decided, Briefing!NoTick,
       Briefing!mail, Briefing!Tracked, Briefing!MaintenanceDue, Briefing!At,
       Briefing!EveningDue, Briefing!Go, Briefing!ReviewDue, Briefing!InWindow,
       Briefing!Issue, Briefing!Told, Briefing!ReportDue, Briefing!ReportWeek, Briefing!Quiet,
       Briefing!Evening, Briefing!Night, Briefing!MaySend, Briefing!Unsent, Briefing!Unborn,
       Briefing!Hour, Briefing!Morning, Briefing!Step, Briefing!Monday, Briefing!Late,
       Briefing!Since, Hours!TickNext, Hours!TickBegins, Hours!Maintain, Hours!MarkEvening,
       Hours!QueueEvening, Hours!Review, Hours!Build, Hours!NoBuild, Hours!NotSent,
       Hours!NewReport, Hours!ApproveArticle, Hours!WorkerDies, Hours!NextHour,
       Hours!SendReads, Hours!SendRecords, Hours!Channel, Hours!Send, Hours!Refused,
       Hours!Proposed, Hours!Decided, Hours!NoTick, Hours!mail, Hours!Tracked,
       Hours!MaintenanceDue, Hours!At, Hours!EveningDue, Hours!Go, Hours!ReviewDue,
       Hours!InWindow, Hours!Issue, Hours!Told, Hours!ReportDue, Hours!ReportWeek,
       Hours!Quiet, Hours!Evening, Hours!Night, Hours!MaySend, Hours!Unsent, Hours!Unborn,
       Hours!Hour, Hours!Morning, Hours!Step, Hours!Monday, Hours!Late, Hours!Since
<1>3. Briefing!SentOnce <=> Hours!SentOnce
  BY DEF
       Briefing!SentOnce, Briefing!Channel, Hours!SentOnce, Hours!Channel
<1>4. Briefing!EveningOnce <=> Hours!EveningOnce
  BY DEF
       Briefing!EveningOnce, Hours!EveningOnce
<1>5. Briefing!WaitingIsTold <=> Hours!WaitingIsTold
  BY DEF
       Briefing!WaitingIsTold, Hours!WaitingIsTold
<1>. QED
  BY <1>1, <1>2, <1>3, <1>4, <1>5

LEMMA SameWeekly ==
  /\ Weekly!TickInit <=> Weeks!TickInit
  /\ Weekly!TickNext <=> Weeks!TickNext
  /\ Weekly!SentOnce <=> Weeks!SentOnce
  /\ Weekly!EveningOnce <=> Weeks!EveningOnce
<1>1. Weekly!TickInit <=> Weeks!TickInit
  BY DEF
       Weekly!TickInit, Weekly!Night, Weekly!NoTick, Weekly!Unborn, Weekly!Issue,
       Weekly!Quiet, Weekly!Channel, Weeks!TickInit, Weeks!Night, Weeks!NoTick, Weeks!Unborn,
       Weeks!Issue, Weeks!Quiet, Weeks!Channel
<1>2. Weekly!TickNext <=> Weeks!TickNext
  BY DEF
       Weekly!TickNext, Weekly!TickBegins, Weekly!Maintain, Weekly!MarkEvening,
       Weekly!QueueEvening, Weekly!Review, Weekly!Build, Weekly!NoBuild, Weekly!NotSent,
       Weekly!NewReport, Weekly!ApproveArticle, Weekly!WorkerDies, Weekly!NextHour,
       Weekly!SendReads, Weekly!SendRecords, Weekly!Channel, Weekly!Send, Weekly!Refused,
       Weekly!Proposed, Weekly!Decided, Weekly!NoTick, Weekly!mail, Weekly!Tracked,
       Weekly!MaintenanceDue, Weekly!At, Weekly!EveningDue, Weekly!Go, Weekly!ReviewDue,
       Weekly!InWindow, Weekly!Issue, Weekly!Told, Weekly!ReportDue, Weekly!ReportWeek,
       Weekly!Quiet, Weekly!Evening, Weekly!Night, Weekly!MaySend, Weekly!Unsent,
       Weekly!Unborn, Weekly!Hour, Weekly!Morning, Weekly!Step, Weekly!Monday, Weekly!Late,
       Weekly!Since, Weeks!TickNext, Weeks!TickBegins, Weeks!Maintain, Weeks!MarkEvening,
       Weeks!QueueEvening, Weeks!Review, Weeks!Build, Weeks!NoBuild, Weeks!NotSent,
       Weeks!NewReport, Weeks!ApproveArticle, Weeks!WorkerDies, Weeks!NextHour,
       Weeks!SendReads, Weeks!SendRecords, Weeks!Channel, Weeks!Send, Weeks!Refused,
       Weeks!Proposed, Weeks!Decided, Weeks!NoTick, Weeks!mail, Weeks!Tracked,
       Weeks!MaintenanceDue, Weeks!At, Weeks!EveningDue, Weeks!Go, Weeks!ReviewDue,
       Weeks!InWindow, Weeks!Issue, Weeks!Told, Weeks!ReportDue, Weeks!ReportWeek,
       Weeks!Quiet, Weeks!Evening, Weeks!Night, Weeks!MaySend, Weeks!Unsent, Weeks!Unborn,
       Weeks!Hour, Weeks!Morning, Weeks!Step, Weeks!Monday, Weeks!Late, Weeks!Since
<1>3. Weekly!SentOnce <=> Weeks!SentOnce
  BY DEF
       Weekly!SentOnce, Weekly!Channel, Weeks!SentOnce, Weeks!Channel
<1>4. Weekly!EveningOnce <=> Weeks!EveningOnce
  BY DEF
       Weekly!EveningOnce, Weeks!EveningOnce
<1>. QED
  BY <1>1, <1>2, <1>3, <1>4

-----------------------------------------------------------------------------
(* Whichever part runs, its invariant holds while it does.                 *)
PartIInv ==
  /\ part = "feeds" => Hours!SourcesIInv
  /\ part = "briefing" => Hours!TickIInv
  /\ part = "weekly" => Weeks!TickIInv

LEMMA PartInit ==
  ASSUME RoundsInit
  PROVE  PartIInv
<1>1. part = "feeds" => Hours!SourcesIInv
  BY SameSources, Hours!SourcesInitHolds DEF RoundsInit
<1>2. Hours!Calendar /\ Weeks!Calendar
  BY DEF Hours!Calendar, Weeks!Calendar
<1>3. part = "briefing" => Hours!TickIInv
  BY <1>2, SameBriefing, Hours!TickInitHolds DEF RoundsInit
<1>4. part = "weekly" => Weeks!TickIInv
  BY <1>2, SameWeekly, Weeks!TickInitHolds DEF RoundsInit
<1>. QED
  BY <1>1, <1>3, <1>4 DEF PartIInv

LEMMA PartStep ==
  ASSUME PartIInv, [RoundsNext]_<<part, autoVars, otherVars>>
  PROVE  PartIInv'
<1>0. Hours!Calendar /\ Weeks!Calendar
  BY DEF Hours!Calendar, Weeks!Calendar
<1>1. part' = part
  BY DEF RoundsNext
<1>2. part = "feeds" => Hours!SourcesIInv'
  <2>1. part = "feeds" => [Hours!SourcesNext]_(Hours!sourceVars)
    BY SameSources DEF RoundsNext, otherVars, Hours!sourceVars
  <2>. QED
    BY <2>1, Hours!SourcesStep DEF PartIInv
<1>3. part = "briefing" => Hours!TickIInv'
  <2>1. part = "briefing" => [Hours!TickNext]_(Hours!tickVars)
    BY SameBriefing DEF RoundsNext, otherVars, Hours!tickVars
  <2>. QED
    BY <1>0, <2>1, Hours!TickStep DEF PartIInv
<1>4. part = "weekly" => Weeks!TickIInv'
  <2>1. part = "weekly" => [Weeks!TickNext]_(Weeks!tickVars)
    BY SameWeekly DEF RoundsNext, otherVars, Weeks!tickVars
  <2>. QED
    BY <1>0, <2>1, Weeks!TickStep DEF PartIInv
<1>. QED
  BY <1>1, <1>2, <1>3, <1>4 DEF PartIInv

LEMMA PartAlways == RoundsSpec => []PartIInv
<1>1. RoundsInit => PartIInv
  BY PartInit
<1>2. PartIInv /\ [RoundsNext]_<<part, autoVars, otherVars>> => PartIInv'
  BY PartStep
<1>. QED
  BY <1>1, <1>2, PTL DEF RoundsSpec

(* Whatever the newsroom does by itself, the status a person gave a source *)
(* stands, but for a re-evaluation that was under way (sources.maintain,   *)
(* discover; ui_sources, api): HoursProofs!DecidedStands, in the rounds.   *)
THEOREM SourcesHeld == RoundsSpec => []DecisionStands
<1>1. PartIInv => DecisionStands
  BY SameSources, Hours!SourcesTell DEF PartIInv, DecisionStands
<1>. QED
  BY <1>1, PartAlways, PTL

(* In the rounds too each channel has an issue once, the evening is asked  *)
(* for once a day and what waits is told by the next briefing: the three   *)
(* theorems of HoursProofs, for the briefing and for the weekly report.    *)
THEOREM HoursTell == RoundsSpec => []TicksTell
<1>1. PartIInv => TicksTell
  BY SameBriefing, SameWeekly, Hours!TickIInvTells, Weeks!TickIInvTells DEF PartIInv, TicksTell
<1>. QED
  BY <1>1, PartAlways, PTL

-----------------------------------------------------------------------------
(* The rounds of the newsroom.  What a day has of each kind of article is  *)
(* what its record says, what the round under way has taken on since, and  *)
(* what the rounds that died took with them; the articles the day tries    *)
(* are those its drafts and jobs count.                                    *)
DayNumbers ==
  /\ IsFiniteSet(Prop) /\ PerDay \in Nat /\ Tries \in Nat /\ MaxDay \in Nat \ {0}
  /\ Settings \subseteq [fix : BOOLEAN, borrow : Nat, extra : Nat, breaking : Nat]

SettingRow == [fix : BOOLEAN, borrow : Nat, extra : Nat, breaking : Nat]
RecordRow == [day : Nat, borrowed : Nat, paid : Nat, breaking : Nat, debt : Nat]
Extra == {"borrowed", "paid", "breaking"}
PropRow == [status : {"none", "proposed", "accepted", "drafted", "rejected"},
            born : 0..MaxDay, as : {"none", "day", "borrowed", "paid", "breaking"}, day : Nat]
ArtRow == [status : {"none", "open", "approved", "rejected"}, day : Nat]
RoundRow == [step : {"idle", "choose", "accept", "queue"}, picks : SUBSET Prop, next : Prop \cup {Nobody},
             as : {"none", "day", "borrowed", "paid", "breaking"}, over : RecordRow, took : Nat]

\* Its tables; an article written is of that day or later.
PropsOK ==
  /\ prop \in [Prop -> PropRow] /\ art \in [Prop -> ArtRow] /\ auto \in [Prop -> {"none", "working", "failed", "done"}]
  /\ \A p \in Prop : /\ prop[p].day <= today /\ art[p].day <= today
                     /\ prop[p].status \in {"none", "proposed"} => prop[p].as = "none"
                     /\ prop[p].status = "drafted" => art[p].status # "none" /\ prop[p].day <= art[p].day

\* How many extras of a kind a record has, and may have.
Has(o, kind) == IF kind = "paid" THEN o.paid ELSE IF kind = "breaking" THEN o.breaking ELSE o.borrowed
Allowed(kind) == IF kind = "paid" THEN cfg.extra ELSE IF kind = "breaking" THEN cfg.breaking ELSE cfg.borrow * Tries

Recorded(kind) == IF over.day = today THEN Has(over, kind) ELSE 0
Accepting == round.step \in {"accept", "queue"}
Taking == round.took + (IF round.step = "queue" THEN 1 ELSE 0)
InRound(kind) == IF Accepting /\ round.as = kind /\ round.over.day = today THEN Taking ELSE 0

RecordOK == /\ today \in 1..MaxDay /\ cfg \in SettingRow /\ over \in RecordRow /\ over.day <= today
            /\ deaths \in Nat
            /\ \A kind \in Extra : Has(over, kind) <= Allowed(kind)

\* The round under way knows the day's record, or is of a day that is over.
RoundOK ==
  /\ round \in RoundRow /\ round.over.day <= today
  /\ Accepting =>
       /\ round.as # "none"
       /\ round.as \in Extra => Taking + Cardinality(round.picks) <= 1 /\ Has(round.over, round.as) < Allowed(round.as)
       /\ \A kind \in Extra : Has(round.over, kind) <= Allowed(kind)
       /\ round.over.day = today => \A kind \in Extra : Has(round.over, kind) = Recorded(kind)
       /\ round.over.day < today => over.day < today /\ \A p \in Prop : prop[p].day < today

ExtrasOK == \A kind \in Extra : Cardinality(TakenOn(kind)) <= Recorded(kind) + InRound(kind) + deaths

Counted == {p \in TakenOn("day") : prop[p].status # "rejected" /\ prop[p].born >= today - 1}
Picking == IF Accepting /\ round.as = "day" /\ round.over.day = today THEN Cardinality(round.picks) ELSE 0
TriesOK == Cardinality(Counted) + Picking <= PerDay * Tries

DayIInv == PropsOK /\ RecordOK /\ RoundOK /\ ExtrasOK /\ TriesOK

-----------------------------------------------------------------------------
LEMMA SomeProps ==
  ASSUME DayNumbers, NEW S \in SUBSET Prop
  PROVE  IsFiniteSet(S) /\ Cardinality(S) \in Nat
BY FS_Subset, FS_CardinalityType DEF DayNumbers

LEMMA FewerProps ==
  ASSUME DayNumbers, NEW T \in SUBSET Prop, NEW S \in SUBSET T
  PROVE  Cardinality(S) <= Cardinality(T)
BY SomeProps, FS_Subset

LEMMA OneProp ==
  ASSUME DayNumbers, NEW S \in SUBSET Prop, NEW T \in SUBSET Prop, NEW p \in Prop, S \subseteq T \cup {p}
  PROVE  Cardinality(S) <= Cardinality(T) + 1
<1>1. Cardinality(S) <= Cardinality(T \cup {p})
  BY FewerProps
<1>2. Cardinality(T \cup {p}) <= Cardinality(T) + 1
  BY SomeProps, FS_AddElement
<1>. QED
  BY <1>1, <1>2, SomeProps

LEMMA NoProps == Cardinality({}) = 0
BY FS_EmptySet

\* The limits are numbers.
LEMMA Limits ==
  ASSUME DayNumbers, cfg \in SettingRow
  PROVE  PerDay * Tries \in Nat /\ \A kind \in Extra : Allowed(kind) \in Nat
<1>1. cfg.borrow \in Nat /\ cfg.extra \in Nat /\ cfg.breaking \in Nat /\ Tries \in Nat /\ PerDay \in Nat
  BY DEF SettingRow, DayNumbers
<1>2. cfg.borrow * Tries \in Nat /\ PerDay * Tries \in Nat
  BY <1>1
<1>. QED
  BY <1>1, <1>2 DEF Allowed

LEMMA HasNat ==
  ASSUME NEW o \in RecordRow, NEW kind
  PROVE  Has(o, kind) \in Nat
BY DEF Has, RecordRow

\* What is taken on is Prop's, and counted in numbers.
LEMMA DayNat ==
  ASSUME DayNumbers, DayIInv
  PROVE  /\ \A kind \in Extra : /\ Recorded(kind) \in Nat /\ InRound(kind) \in Nat
                                /\ Cardinality(TakenOn(kind)) \in Nat
         /\ Counted \in SUBSET Prop /\ Cardinality(Counted) \in Nat
         /\ Cardinality(round.picks) \in Nat /\ Picking \in Nat /\ Taking \in Nat
<1>1. Taking \in Nat
  BY DEF DayIInv, RoundOK, RoundRow, Taking
<1>2. round.picks \in SUBSET Prop /\ Counted \in SUBSET Prop /\ \A kind \in Extra : TakenOn(kind) \in SUBSET Prop
  BY DEF DayIInv, RoundOK, RoundRow, Counted, TakenOn
<1>3. /\ Cardinality(round.picks) \in Nat /\ Cardinality(Counted) \in Nat
      /\ \A kind \in Extra : Cardinality(TakenOn(kind)) \in Nat
  BY <1>2, SomeProps
<1>4. \A kind \in Extra : Recorded(kind) \in Nat /\ InRound(kind) \in Nat
  BY <1>1, HasNat DEF DayIInv, RecordOK, Recorded, InRound
<1>. QED
  BY <1>1, <1>2, <1>3, <1>4 DEF Picking

-----------------------------------------------------------------------------
(* Proposals move on, none is taken on by the round.                       *)
SameProps ==
  \A p \in Prop :
    /\ prop'[p].as = prop[p].as /\ prop'[p].day = prop[p].day
    /\ prop[p].as # "none" => prop'[p].born = prop[p].born
    /\ prop[p].status = "rejected" => prop'[p].status = "rejected"

LEMMA SameDay ==
  ASSUME SameProps, today' = today
  PROVE  Counted' \subseteq Counted /\ \A kind \in Extra : TakenOn(kind)' = TakenOn(kind)
BY DEF SameProps, Counted, TakenOn, Extra

LEMMA PropsMove ==
  ASSUME DayNumbers, DayIInv, PropsOK', SameProps, UNCHANGED <<today, cfg, over, round, deaths>>
  PROVE  DayIInv'
<1>1. Counted' \subseteq Counted /\ \A kind \in Extra : TakenOn(kind)' = TakenOn(kind)
  BY SameDay
<1>2. Cardinality(Counted') <= Cardinality(Counted)
  BY <1>1, DayNat, FewerProps
<1>3. RecordOK'
  BY DEF DayIInv, RecordOK, Has, Allowed
<1>4. RoundOK'
  BY DEF DayIInv, RoundOK, Accepting, Taking, Has, Allowed, Recorded, SameProps
<1>5. ExtrasOK'
  BY <1>1 DEF DayIInv, ExtrasOK, Recorded, InRound, Accepting, Taking, Has
<1>6. TriesOK'
  <2>1. Picking' = Picking
    BY DEF Picking, Accepting
  <2>2. Cardinality(Counted') \in Nat
    BY <1>1, DayNat, SomeProps
  <2>. QED
    BY <1>2, <2>1, <2>2, DayNat, Limits DEF DayIInv, TriesOK, RecordOK
<1>. QED
  BY <1>3, <1>4, <1>5, <1>6 DEF DayIInv

\* A round begins, takes nothing on, or dies.
LEMMA RoundRests ==
  ASSUME DayNumbers, DayIInv, PropsOK', SameProps, UNCHANGED <<today, cfg, over>>,
         round' \in RoundRow, round'.step \in {"idle", "choose"}, round'.over = NoRecord,
         \/ deaths' = deaths /\ ~Accepting
         \/ deaths' = deaths + 1
  PROVE  DayIInv'
<1>1. Counted' \subseteq Counted /\ \A kind \in Extra : TakenOn(kind)' = TakenOn(kind)
  BY SameDay
<1>2. Cardinality(Counted') <= Cardinality(Counted)
  BY <1>1, DayNat, FewerProps
<1>3. RecordOK'
  BY DEF DayIInv, RecordOK, Has, Allowed
<1>4. ~Accepting'
  BY DEF Accepting
<1>5. RoundOK'
  BY <1>4 DEF RoundOK, NoRecord, DayIInv, RecordOK
<1>6. ASSUME NEW kind \in Extra PROVE Cardinality(TakenOn(kind)') <= Recorded(kind)' + InRound(kind)' + deaths'
  <2>1. InRound(kind)' = 0 /\ Recorded(kind)' = Recorded(kind)
    BY <1>4 DEF InRound, Recorded, Has
  <2>2. InRound(kind) <= 1 /\ (~Accepting => InRound(kind) = 0)
    BY DayNat DEF InRound, DayIInv, RoundOK
  <2>3. Cardinality(TakenOn(kind)) <= Recorded(kind) + InRound(kind) + deaths
    BY DEF DayIInv, ExtrasOK
  <2>4. deaths \in Nat
    BY DEF DayIInv, RecordOK
  <2>. QED
    BY <1>1, <2>1, <2>2, <2>3, <2>4, DayNat
<1>7. TriesOK'
  <2>1. Picking' = 0
    BY <1>4 DEF Picking
  <2>2. Cardinality(Counted') \in Nat
    BY <1>1, DayNat, SomeProps
  <2>. QED
    BY <1>2, <2>1, <2>2, DayNat, Limits DEF DayIInv, TriesOK, RecordOK
<1>. QED
  BY <1>3, <1>5, <1>6, <1>7 DEF DayIInv, ExtrasOK

-----------------------------------------------------------------------------
(* What proposals, articles and jobs come to beside the rounds.            *)
LEMMA ProposeStep ==
  ASSUME DayNumbers, DayIInv, NEW p \in Prop, Propose(p)
  PROVE  DayIInv'
<1>1. /\ prop[p] \in PropRow /\ prop[p].status = "none" /\ prop' = [prop EXCEPT ![p].status = "proposed", ![p].born = today]
      /\ UNCHANGED <<today, cfg, over, art, auto, round, deaths>>
  BY DEF Propose, events, DayIInv, PropsOK
<1>. DEFINE new == [prop[p] EXCEPT !.status = "proposed", !.born = today]
<1>2. /\ new \in PropRow /\ new.status = "proposed" /\ new.as = prop[p].as /\ new.day = prop[p].day
  <2>1. today \in 0..MaxDay
    BY DEF DayNumbers, DayIInv, RecordOK
  <2>. QED
    BY <1>1, <2>1 DEF PropRow
<1>3. prop' = [prop EXCEPT ![p] = new]
  BY <1>1
<1>. HIDE DEF new
<1>4. prop' \in [Prop -> PropRow] /\ \A q \in Prop : prop'[q] = IF q = p THEN new ELSE prop[q]
  BY <1>2, <1>3 DEF DayIInv, PropsOK
<1>5. prop[p].as = "none"
  BY <1>1 DEF DayIInv, PropsOK
<1>6. PropsOK'
  BY <1>1, <1>2, <1>4, <1>5 DEF DayIInv, PropsOK
<1>7. SameProps
  BY <1>1, <1>2, <1>4, <1>5 DEF SameProps
<1>. QED
  BY <1>1, <1>6, <1>7, PropsMove

LEMMA WriteStep ==
  ASSUME DayNumbers, DayIInv, NEW p \in Prop, WriteIt(p)
  PROVE  DayIInv'
<1>1. /\ prop[p] \in PropRow /\ prop[p].status # "rejected"
      /\ prop' = [prop EXCEPT ![p].status = "drafted"] /\ art' = [art EXCEPT ![p] = [status |-> "open", day |-> today]]
      /\ UNCHANGED <<today, cfg, over, auto, round, deaths>>
  BY DEF WriteIt, events, DayIInv, PropsOK
<1>. DEFINE new == [prop[p] EXCEPT !.status = "drafted"]
            text == [status |-> "open", day |-> today]
<1>2. /\ new \in PropRow /\ new.status = "drafted" /\ new.as = prop[p].as /\ new.day = prop[p].day /\ new.born = prop[p].born
  BY <1>1 DEF PropRow
<1>3. text \in ArtRow /\ text.status = "open" /\ text.day = today
  BY DEF ArtRow, DayIInv, RecordOK
<1>4. prop' = [prop EXCEPT ![p] = new] /\ art' = [art EXCEPT ![p] = text]
  BY <1>1
<1>. HIDE DEF new, text
<1>5. /\ prop' \in [Prop -> PropRow] /\ \A q \in Prop : prop'[q] = IF q = p THEN new ELSE prop[q]
      /\ art' \in [Prop -> ArtRow] /\ \A q \in Prop : art'[q] = IF q = p THEN text ELSE art[q]
  BY <1>2, <1>3, <1>4 DEF DayIInv, PropsOK
<1>6. today \in Nat
  BY DEF DayIInv, RecordOK
<1>7. PropsOK'
  BY <1>1, <1>2, <1>3, <1>5, <1>6 DEF DayIInv, PropsOK
<1>8. SameProps
  BY <1>1, <1>2, <1>5 DEF SameProps
<1>. QED
  BY <1>1, <1>7, <1>8, PropsMove

LEMMA ThinStep ==
  ASSUME DayNumbers, DayIInv, NEW p \in Prop, TooThin(p)
  PROVE  DayIInv'
<1>1. /\ prop[p] \in PropRow /\ prop' = [prop EXCEPT ![p].status = "rejected"]
      /\ auto' = [auto EXCEPT ![p] = "done"]
      /\ UNCHANGED <<today, cfg, over, art, round, deaths>>
  BY DEF TooThin, events, DayIInv, PropsOK
<1>. DEFINE new == [prop[p] EXCEPT !.status = "rejected"]
<1>2. /\ new \in PropRow /\ new.status = "rejected" /\ new.as = prop[p].as /\ new.day = prop[p].day /\ new.born = prop[p].born
  BY <1>1 DEF PropRow
<1>3. prop' = [prop EXCEPT ![p] = new]
  BY <1>1
<1>. HIDE DEF new
<1>4. prop' \in [Prop -> PropRow] /\ \A q \in Prop : prop'[q] = IF q = p THEN new ELSE prop[q]
  BY <1>2, <1>3 DEF DayIInv, PropsOK
<1>5. PropsOK'
  BY <1>1, <1>2, <1>4 DEF DayIInv, PropsOK
<1>6. SameProps
  BY <1>2, <1>4 DEF SameProps
<1>. QED
  BY <1>1, <1>5, <1>6, PropsMove

\* An article, or none any more; its proposal stays as it was, or is accepted again.
LEMMA TextMoves ==
  ASSUME DayNumbers, DayIInv, NEW p \in Prop, NEW text \in ArtRow, art' = [art EXCEPT ![p] = text], UNCHANGED auto,
         UNCHANGED <<today, cfg, over, round, deaths>>, text.day <= today,
         \/ prop' = prop /\ text.status # "none" /\ text.day = art[p].day
         \/ prop' = [prop EXCEPT ![p].status = IF @ = "drafted" THEN "accepted" ELSE @]
  PROVE  DayIInv'
<1>1. prop[p] \in PropRow /\ art' \in [Prop -> ArtRow] /\ \A q \in Prop : art'[q] = IF q = p THEN text ELSE art[q]
  BY DEF DayIInv, PropsOK
<1>2. CASE prop' = prop /\ text.status # "none" /\ text.day = art[p].day
  <2>1. PropsOK'
    BY <1>1, <1>2 DEF DayIInv, PropsOK
  <2>2. SameProps
    BY <1>2 DEF SameProps
  <2>. QED
    BY <2>1, <2>2, PropsMove
<1>3. CASE prop' = [prop EXCEPT ![p].status = IF @ = "drafted" THEN "accepted" ELSE @]
  <2>. DEFINE new == [prop[p] EXCEPT !.status = IF @ = "drafted" THEN "accepted" ELSE @]
  <2>1. /\ new \in PropRow /\ new.as = prop[p].as /\ new.day = prop[p].day /\ new.born = prop[p].born
        /\ new.status = IF prop[p].status = "drafted" THEN "accepted" ELSE prop[p].status
    BY <1>1 DEF PropRow
  <2>2. prop' = [prop EXCEPT ![p] = new]
    BY <1>3
  <2>. HIDE DEF new
  <2>3. prop' \in [Prop -> PropRow] /\ \A q \in Prop : prop'[q] = IF q = p THEN new ELSE prop[q]
    BY <2>1, <2>2 DEF DayIInv, PropsOK
  <2>4. PropsOK'
    BY <1>1, <2>1, <2>3 DEF DayIInv, PropsOK
  <2>5. SameProps
    BY <2>1, <2>3 DEF SameProps
  <2>. QED
    BY <2>4, <2>5, PropsMove
<1>. QED
  BY <1>2, <1>3

LEMMA EndJobStep ==
  ASSUME DayNumbers, DayIInv, NEW p \in Prop, EndJob(p)
  PROVE  DayIInv'
<1>1. UNCHANGED <<today, cfg, over, prop, round, deaths>> /\ art[p] \in ArtRow /\ art[p].day <= today
  BY DEF EndJob, events, DayIInv, PropsOK
<1>2. auto' \in [Prop -> {"none", "working", "failed", "done"}]
  BY DEF EndJob, DayIInv, PropsOK
<1>3. art' \in [Prop -> ArtRow] /\ \A q \in Prop : art'[q].day = art[q].day /\ (art[q].status # "none" => art'[q].status # "none")
  <2>1. CASE art' = art
    BY <2>1 DEF DayIInv, PropsOK
  <2>2. ASSUME art[p].status # "none", NEW s \in {"open", "approved", "rejected"},
               art' = [art EXCEPT ![p].status = IF @ = "open" THEN s ELSE @]
        PROVE  art' \in [Prop -> ArtRow] /\ \A q \in Prop : art'[q].day = art[q].day /\ (art[q].status # "none" => art'[q].status # "none")
    <3>. DEFINE new == [art[p] EXCEPT !.status = IF @ = "open" THEN s ELSE @]
    <3>1. new \in ArtRow /\ new.status # "none" /\ new.day = art[p].day
      BY <1>1, <2>2 DEF ArtRow
    <3>2. art' = [art EXCEPT ![p] = new]
      BY <2>2
    <3>. HIDE DEF new
    <3>. QED
      BY <3>1, <3>2 DEF DayIInv, PropsOK
  <2>. QED
    BY <2>1, <2>2 DEF EndJob
<1>4. PropsOK'
  BY <1>1, <1>2, <1>3 DEF DayIInv, PropsOK
<1>5. SameProps
  BY <1>1 DEF SameProps
<1>. QED
  BY <1>1, <1>4, <1>5, PropsMove

LEMMA DecidesStep ==
  ASSUME DayNumbers, DayIInv, NEW p \in Prop, Decides(p)
  PROVE  DayIInv'
<1>1. UNCHANGED <<today, cfg, over, auto, round, deaths>> /\ prop[p] \in PropRow /\ art[p] \in ArtRow
  BY DEF Decides, Acts, DayIInv, PropsOK
<1>2. ASSUME prop[p].status = "proposed", art' = art, NEW s \in {"accepted", "rejected"}, prop' = [prop EXCEPT ![p].status = s]
      PROVE  DayIInv'
  <2>. DEFINE new == [prop[p] EXCEPT !.status = s]
  <2>1. /\ new \in PropRow /\ new.status = s /\ new.as = prop[p].as /\ new.day = prop[p].day /\ new.born = prop[p].born
    BY <1>1 DEF PropRow
  <2>2. prop' = [prop EXCEPT ![p] = new]
    BY <1>2
  <2>. HIDE DEF new
  <2>3. prop' \in [Prop -> PropRow] /\ \A q \in Prop : prop'[q] = IF q = p THEN new ELSE prop[q]
    BY <2>1, <2>2 DEF DayIInv, PropsOK
  <2>4. PropsOK'
    BY <1>1, <1>2, <2>1, <2>3 DEF DayIInv, PropsOK
  <2>5. SameProps
    BY <1>2, <2>1, <2>3 DEF SameProps
  <2>. QED
    BY <1>1, <2>4, <2>5, PropsMove
<1>3. ASSUME art[p].status = "open", prop' = prop, NEW s \in {"approved", "rejected"}, art' = [art EXCEPT ![p].status = s]
      PROVE  DayIInv'
  <2>. DEFINE new == [art[p] EXCEPT !.status = s]
  <2>1. new \in ArtRow /\ new.status = s /\ new.day = art[p].day
    BY <1>1 DEF ArtRow
  <2>2. art' = [art EXCEPT ![p] = new]
    BY <1>3
  <2>. HIDE DEF new
  <2>3. new.day <= today /\ new.status # "none"
    BY <2>1 DEF DayIInv, PropsOK
  <2>. QED
    BY <1>1, <1>3, <2>1, <2>2, <2>3, TextMoves
<1>4. ASSUME art' = [art EXCEPT ![p] = NoArt],
             prop' = [prop EXCEPT ![p].status = IF @ = "drafted" THEN "accepted" ELSE @]
      PROVE  DayIInv'
  <2>1. NoArt \in ArtRow /\ NoArt.day <= today
    BY DEF NoArt, ArtRow, DayIInv, RecordOK
  <2>. QED
    BY <1>1, <1>4, <2>1, TextMoves
<1>. QED
  BY <1>2, <1>3, <1>4 DEF Decides

LEMMA ToggleStep ==
  ASSUME DayNumbers, DayIInv, Toggle
  PROVE  DayIInv'
<1>1. UNCHANGED <<today, cfg, over, prop, art, auto, round, deaths>>
  BY DEF Toggle, Acts
<1>2. PropsOK' /\ SameProps
  BY <1>1 DEF DayIInv, PropsOK, SameProps
<1>. QED
  BY <1>1, <1>2, PropsMove

-----------------------------------------------------------------------------
(* Rounds.                                                                 *)
\* Some proposals are turned down.
LEMMA TurnedDown ==
  ASSUME DayIInv, NEW S \in SUBSET Prop, \A p \in S : prop[p].status = "proposed", UNCHANGED <<today, art, auto>>,
         prop' = [p \in Prop |-> IF p \in S THEN [prop[p] EXCEPT !.status = "rejected"] ELSE prop[p]]
  PROVE  PropsOK' /\ SameProps
<1>1. ASSUME NEW p \in Prop
      PROVE  /\ prop'[p] \in PropRow /\ prop'[p].as = prop[p].as /\ prop'[p].day = prop[p].day
             /\ prop'[p].born = prop[p].born /\ prop'[p].status \in {"rejected", prop[p].status}
             /\ prop'[p].status # "rejected" => prop'[p] = prop[p]
  <2>1. prop[p] \in PropRow
    BY DEF DayIInv, PropsOK
  <2>. DEFINE new == [prop[p] EXCEPT !.status = "rejected"]
  <2>2. /\ new \in PropRow /\ new.status = "rejected" /\ new.as = prop[p].as /\ new.day = prop[p].day
        /\ new.born = prop[p].born
    BY <2>1 DEF PropRow
  <2>3. prop'[p] = IF p \in S THEN new ELSE prop[p]
    OBVIOUS
  <2>. HIDE DEF new
  <2>. QED
    BY <2>1, <2>2, <2>3
<1>2. prop' \in [Prop -> PropRow]
  <2>1. prop' = [p \in Prop |-> prop'[p]]
    OBVIOUS
  <2>. QED
    BY <1>1, <2>1
<1>3. PropsOK'
  BY <1>1, <1>2 DEF DayIInv, PropsOK
<1>4. SameProps
  BY <1>1 DEF SameProps
<1>. QED
  BY <1>3, <1>4

LEMMA EmptyRound ==
  /\ NoRound \in RoundRow /\ NoRound.step = "idle" /\ NoRound.over = NoRecord
  /\ [NoRound EXCEPT !.step = "choose"] \in RoundRow
  /\ [NoRound EXCEPT !.step = "choose"].step = "choose" /\ [NoRound EXCEPT !.step = "choose"].over = NoRecord
BY DEF NoRound, RoundRow, RecordRow, NoRecord

LEMMA RoundBegins ==
  ASSUME DayNumbers, DayIInv, Round
  PROVE  DayIInv'
<1>1. /\ round = NoRound /\ round' = [NoRound EXCEPT !.step = "choose"]
      /\ UNCHANGED <<today, cfg, over, art, auto, deaths>>
  BY DEF Round, events
<1>2. PICK old \in SUBSET {p \in Prop : prop[p].status = "proposed" /\ prop[p].born < today} :
        prop' = [p \in Prop |-> IF p \in old THEN [prop[p] EXCEPT !.status = "rejected"] ELSE prop[p]]
  BY DEF Round
<1>3. PropsOK' /\ SameProps
  BY <1>1, <1>2, TurnedDown
<1>4. ~Accepting
  BY <1>1, EmptyRound DEF Accepting
<1>5. round' \in RoundRow /\ round'.step = "choose" /\ round'.over = NoRecord
  BY <1>1, EmptyRound
<1>. QED
  BY <1>1, <1>3, <1>4, <1>5, RoundRests

LEMMA RoundDiesStep ==
  ASSUME DayNumbers, DayIInv, RoundDies
  PROVE  DayIInv'
<1>1. round' = NoRound /\ deaths' = deaths + 1 /\ UNCHANGED <<today, cfg, over, prop, art, auto>>
  BY DEF RoundDies
<1>2. PropsOK' /\ SameProps
  BY <1>1 DEF DayIInv, PropsOK, SameProps
<1>. QED
  BY <1>1, <1>2, EmptyRound, RoundRests

\* The record of the day, as a round finds it.
TodaysOwn(o) ==
  /\ o \in RecordRow /\ o.day = today
  /\ \A kind \in Extra : Has(o, kind) = Recorded(kind) /\ Has(o, kind) <= Allowed(kind)

LEMMA KeptNat ==
  ASSUME DayNumbers
  PROVE  Kept \in Int /\ Tried \in Nat /\ \A d \in Int : KeptOn(d) \in Nat
<1>1. /\ Writing \in SUBSET Prop /\ Lost \in SUBSET Prop
      /\ \A d \in Int : Mine(d) \in SUBSET Prop /\ {p \in Mine(d) : Alive(p)} \in SUBSET Prop
  BY DEF Writing, Lost, Mine
<1>2. \A d \in Int : KeptOn(d) \in Nat
  BY <1>1, SomeProps DEF KeptOn
<1>3. /\ Cardinality(Writing) \in Nat /\ Cardinality(Lost) \in Nat
      /\ Cardinality({p \in Mine(today) : Alive(p)}) \in Nat /\ Cardinality(Mine(today)) \in Nat
  <2>1. {p \in Mine(today) : Alive(p)} \in SUBSET Prop /\ Mine(today) \in SUBSET Prop
    BY DEF Mine
  <2>. QED
    BY <1>1, <2>1, SomeProps
<1>. QED
  BY <1>2, <1>3 DEF Kept, KeptOn, Tried

LEMMA TodaysRecord ==
  ASSUME DayNumbers, DayIInv
  PROVE  TodaysOwn(OverToday)
<1>1. over \in RecordRow /\ today \in Nat /\ PerDay \in Nat
  BY DEF DayIInv, RecordOK, DayNumbers
<1>. DEFINE beyond == KeptOn(today - 1) - Most(1, PerDay - over.debt)
            owed == IF over.day = today - 1 THEN Least(over.borrowed + over.breaking, Most(0, beyond)) ELSE 0
<1>2. owed \in Nat
  <2>1. KeptOn(today - 1) \in Nat
    BY <1>1, KeptNat
  <2>2. over.debt \in Nat /\ over.borrowed + over.breaking \in Nat
    BY <1>1 DEF RecordRow
  <2>3. beyond \in Int
    BY <1>1, <2>1, <2>2 DEF Most
  <2>. HIDE DEF beyond
  <2>. QED
    BY <2>2, <2>3 DEF Most, Least
<1>3. OverToday = IF over.day = today THEN over
                  ELSE [day |-> today, borrowed |-> 0, paid |-> 0, breaking |-> 0, debt |-> owed]
  BY DEF OverToday
<1>. HIDE DEF owed
<1>4. CASE over.day = today
  <2>1. OverToday = over
    BY <1>3, <1>4
  <2>. QED
    BY <1>1, <1>4, <2>1 DEF TodaysOwn, Recorded, DayIInv, RecordOK
<1>5. CASE over.day # today
  <2>1. PICK o : o = [day |-> today, borrowed |-> 0, paid |-> 0, breaking |-> 0, debt |-> owed]
    OBVIOUS
  <2>2. o \in RecordRow /\ o.day = today /\ \A kind : Has(o, kind) = 0
    BY <1>1, <1>2, <2>1 DEF RecordRow, Has
  <2>3. \A kind \in Extra : Allowed(kind) \in Nat
    BY Limits DEF DayIInv, RecordOK
  <2>4. TodaysOwn(o)
    BY <1>5, <2>2, <2>3 DEF TodaysOwn, Recorded
  <2>. QED
    BY <1>3, <1>5, <2>1, <2>4
<1>. QED
  BY <1>4, <1>5

\* What was tried today is counted by the drafts' and the jobs' rows.
LEMMA CountedIsTried ==
  ASSUME DayNumbers, DayIInv
  PROVE  Cardinality(Counted) <= Tried
<1>1. Mine(today) \in SUBSET Prop /\ Writing \in SUBSET Prop
  BY DEF Mine, Writing
<1>2. ASSUME NEW p \in Counted PROVE p \in Mine(today) \cup Writing
  <2>1. /\ p \in Prop /\ prop[p].as = "day" /\ prop[p].day = today /\ prop[p].status # "rejected"
        /\ prop[p].born >= today - 1
    BY DEF Counted, TakenOn
  <2>2. prop[p] \in PropRow /\ art[p] \in ArtRow /\ today \in Nat
    BY <2>1 DEF DayIInv, PropsOK, RecordOK
  <2>3. prop[p].status \in {"accepted", "drafted"}
    BY <2>1, <2>2 DEF DayIInv, PropsOK, PropRow
  <2>4. CASE prop[p].status = "accepted"
    BY <2>1, <2>4 DEF Writing, OfAuto
  <2>5. CASE prop[p].status = "drafted"
    <3>1. art[p].status # "none" /\ art[p].day = today
      BY <2>1, <2>2, <2>5 DEF DayIInv, PropsOK, ArtRow
    <3>. QED
      BY <2>1, <3>1 DEF Mine, OfAuto
  <2>. QED
    BY <2>3, <2>4, <2>5
<1>3. Cardinality(Counted) <= Cardinality(Mine(today) \cup Writing)
  BY <1>1, <1>2, FewerProps
<1>4. /\ Cardinality(Mine(today) \cup Writing)
         = Cardinality(Mine(today)) + Cardinality(Writing) - Cardinality(Mine(today) \cap Writing)
      /\ Cardinality(Mine(today) \cap Writing) \in Nat /\ Cardinality(Mine(today)) \in Nat
      /\ Cardinality(Writing) \in Nat
  BY <1>1, SomeProps, FS_Union
<1>5. Cardinality(Counted) \in Nat
  BY DayNat
<1>. QED
  BY <1>3, <1>4, <1>5 DEF Tried

LEMMA TakesOnStep ==
  ASSUME DayNumbers, DayIInv, round.step = "choose", UNCHANGED <<today, cfg, over, art, auto, deaths>>,
         NEW kind \in {"day"} \cup Extra, NEW o, TodaysOwn(o), NEW least \in Nat, NEW most \in Int,
         TakesOn(kind, o, least, most),
         kind \in Extra => most = 1 /\ Has(o, kind) < Allowed(kind),
         kind = "day" => most <= PerDay * Tries - Tried
  PROVE  DayIInv'
<1>1. PICK picks \in SUBSET Prop, avoid \in SUBSET Prop :
        /\ Cardinality(picks) \in least..most /\ \A p \in avoid : prop[p].status = "proposed"
        /\ prop' = [p \in Prop |-> IF p \in avoid THEN [prop[p] EXCEPT !.status = "rejected"] ELSE prop[p]]
        /\ round' = [NoRound EXCEPT !.step = "accept", !.picks = picks, !.as = kind, !.over = o]
  BY DEF TakesOn, Fresh
<1>2. PropsOK' /\ SameProps
  BY <1>1, TurnedDown
<1>3. PICK new : new = [NoRound EXCEPT !.step = "accept", !.picks = picks, !.as = kind, !.over = o]
  OBVIOUS
<1>4. /\ round' = new /\ new \in RoundRow /\ new.step = "accept" /\ new.picks = picks /\ new.as = kind
      /\ new.over = o /\ new.took = 0
  <2>1. round' = new
    BY <1>1, <1>3
  <2>3. NoRound \in RoundRow /\ NoRound.took = 0
    BY EmptyRound DEF NoRound
  <2>2. kind \in {"none", "day", "borrowed", "paid", "breaking"} /\ o \in RecordRow
    BY DEF Extra, TodaysOwn
  <2>. QED
    BY <1>3, <2>1, <2>2, <2>3 DEF RoundRow
<1>5. Counted' \subseteq Counted /\ \A k \in Extra : TakenOn(k)' = TakenOn(k)
  BY <1>2, SameDay
<1>6. RecordOK'
  BY DEF DayIInv, RecordOK, Has, Allowed
<1>7. Cardinality(picks) \in Nat
  BY SomeProps
<1>8. Accepting' /\ Taking' = 0
  BY <1>4 DEF Accepting, Taking
<1>9. \A k \in Extra : Has(o, k)' = Has(o, k) /\ Recorded(k)' = Recorded(k) /\ Allowed(k)' = Allowed(k)
  BY DEF Has, Recorded, Allowed
<1>10. today \in Nat /\ o.day = today
  BY DEF TodaysOwn, DayIInv, RecordOK
<1>11. RoundOK'
  <2>1. round'.as = kind /\ round'.over = o /\ round'.over.day = today' /\ round'.picks = picks /\ round' \in RoundRow
    BY <1>4, <1>10
  <2>2. kind # "none"
    BY DEF Extra
  <2>3. kind \in Extra => Cardinality(picks) <= 1 /\ Has(o, kind)' < Allowed(kind)'
    BY <1>1, <1>7, <1>9
  <2>4. \A k \in Extra : Has(o, k)' <= Allowed(k)' /\ Has(o, k)' = Recorded(k)'
    BY <1>9 DEF TodaysOwn
  <2>5. \A k \in Extra : Has(round.over, k)' = Has(o, k)'
    BY <2>1 DEF Has
  <2>6. kind \in Extra => Taking' + Cardinality(picks) <= 1
    BY <1>7, <1>8, <2>3
  <2>7. today' \in Nat /\ ~(today' < today')
    BY <1>10
  <2>. QED
    BY <2>1, <2>2, <2>3, <2>4, <2>5, <2>6, <2>7 DEF RoundOK
<1>12. ASSUME NEW k \in Extra PROVE Cardinality(TakenOn(k)') <= Recorded(k)' + InRound(k)' + deaths'
  <2>1. Cardinality(TakenOn(k)) <= Recorded(k) + InRound(k) + deaths /\ InRound(k) = 0
    BY DEF DayIInv, ExtrasOK, InRound, Accepting
  <2>2. InRound(k)' = 0
    BY <1>8 DEF InRound
  <2>. QED
    BY <1>5, <1>9, <2>1, <2>2
<1>13. TriesOK'
  <2>1. Cardinality(Counted') <= Cardinality(Counted)
    BY <1>5, DayNat, FewerProps
  <2>2. Cardinality(Counted') \in Nat /\ Cardinality(Counted) \in Nat
    BY <1>5, DayNat, SomeProps
  <2>3. PerDay * Tries \in Nat
    BY Limits DEF DayIInv, RecordOK
  <2>4. CASE kind = "day"
    <3>1. Picking' = Cardinality(picks)
      BY <1>4, <1>8, <1>10, <2>4 DEF Picking
    <3>2. Cardinality(picks) <= PerDay * Tries - Tried
      BY <1>1, <1>7, <2>3, <2>4, KeptNat
    <3>. QED
      BY <1>7, <2>1, <2>2, <2>3, <3>1, <3>2, KeptNat, CountedIsTried DEF TriesOK
  <2>5. CASE kind # "day"
    <3>1. Picking' = 0
      BY <1>4, <2>5 DEF Picking
    <3>2. Cardinality(Counted) + Picking <= PerDay * Tries /\ Picking \in Nat
      BY DayNat DEF DayIInv, TriesOK
    <3>. QED
      BY <2>1, <2>2, <2>3, <3>1, <3>2 DEF TriesOK
  <2>. QED
    BY <2>4, <2>5
<1>. QED
  BY <1>2, <1>6, <1>11, <1>12, <1>13 DEF DayIInv, ExtrasOK

LEMMA ChooseStep ==
  ASSUME DayNumbers, DayIInv, Choose
  PROVE  DayIInv'
<1>1. round.step = "choose" /\ UNCHANGED <<today, cfg, over, art, auto, deaths>>
  BY DEF Choose, events
<1>2. PICK o : o = OverToday /\ TodaysOwn(o)
  BY TodaysRecord
<1>3. PICK credits \in BOOLEAN, monthOver \in BOOLEAN, hours \in BOOLEAN :
        \/ /\ hours /\ KindOf(o, Pays(o, credits), monthOver) = "day"
           /\ TakesOn("day", o, 0, Least(Target(o) - Kept, PerDay * Tries - Tried))
        \/ /\ hours /\ KindOf(o, Pays(o, credits), monthOver) \in {"borrowed", "paid"}
           /\ TakesOn(KindOf(o, Pays(o, credits), monthOver), o, 1, 1)
        \/ o.breaking < cfg.breaking /\ TakesOn("breaking", o, 1, 1)
        \/ round' = NoRound /\ UNCHANGED prop
  BY <1>2 DEF Choose
<1>4. CASE TakesOn("day", o, 0, Least(Target(o) - Kept, PerDay * Tries - Tried))
  <2>1. PerDay * Tries \in Nat /\ Tried \in Nat /\ Kept \in Int
    BY Limits, KeptNat DEF DayIInv, RecordOK
  <2>2. Target(o) \in Int
    BY <1>2 DEF Target, Most, TodaysOwn, RecordRow, DayNumbers
  <2>3. PICK most \in Int : most = Least(Target(o) - Kept, PerDay * Tries - Tried)
    BY <2>1, <2>2 DEF Least
  <2>4. most <= PerDay * Tries - Tried
    BY <2>1, <2>2, <2>3 DEF Least
  <2>5. "day" \notin Extra
    BY DEF Extra
  <2>. QED
    BY <1>1, <1>2, <1>4, <2>3, <2>4, <2>5, TakesOnStep
<1>5. ASSUME KindOf(o, Pays(o, credits), monthOver) \in {"borrowed", "paid"},
             TakesOn(KindOf(o, Pays(o, credits), monthOver), o, 1, 1)
      PROVE  DayIInv'
  <2>1. PICK kind \in {"borrowed", "paid"} : kind = KindOf(o, Pays(o, credits), monthOver)
    BY <1>5
  <2>2. kind = "paid" => Pays(o, credits)
    BY <2>1 DEF KindOf
  <2>3. kind = "borrowed" => o.borrowed < cfg.borrow * Tries
    BY <2>1 DEF KindOf
  <2>4. o.paid \in Nat /\ cfg.extra \in Nat
    BY <1>2 DEF TodaysOwn, RecordRow, DayIInv, RecordOK, SettingRow
  <2>5. Has(o, kind) < Allowed(kind)
    BY <2>2, <2>3, <2>4 DEF Has, Allowed, Pays
  <2>6. kind \in Extra /\ kind # "day" /\ TakesOn(kind, o, 1, 1)
    BY <1>5, <2>1 DEF Extra
  <2>. QED
    BY <1>1, <1>2, <2>5, <2>6, TakesOnStep
<1>6. CASE o.breaking < cfg.breaking /\ TakesOn("breaking", o, 1, 1)
  <2>1. "breaking" \in Extra /\ Has(o, "breaking") < Allowed("breaking")
    BY <1>6 DEF Has, Allowed, Extra
  <2>. QED
    BY <1>1, <1>2, <1>6, <2>1, TakesOnStep
<1>7. CASE round' = NoRound /\ UNCHANGED prop
  <2>1. PropsOK' /\ SameProps
    BY <1>1, <1>7 DEF DayIInv, PropsOK, SameProps
  <2>2. ~Accepting
    BY <1>1 DEF Accepting
  <2>. QED
    BY <1>1, <1>7, <2>1, <2>2, EmptyRound, RoundRests
<1>. QED
  BY <1>3, <1>4, <1>5, <1>6, <1>7

\* One of them is accepted, unless somebody decided it meanwhile.
LEMMA TakeOnStep ==
  ASSUME DayNumbers, DayIInv, NEW p \in Prop, TakeOn(p)
  PROVE  DayIInv'
<1>1. round.step = "accept" /\ p \in round.picks /\ UNCHANGED <<today, cfg, over, art, auto, deaths>>
  BY DEF TakeOn, events
<1>2. /\ round \in RoundRow /\ round.picks \in SUBSET Prop /\ Accepting /\ round.over \in RecordRow
      /\ today \in Nat
  BY <1>1 DEF DayIInv, RoundOK, RoundRow, Accepting, RecordOK
<1>3. PICK rest \in SUBSET Prop : rest = round.picks \ {p}
  BY <1>2
<1>4. /\ Cardinality(rest) = Cardinality(round.picks) - 1
      /\ Cardinality(rest) \in Nat /\ Cardinality(round.picks) \in Nat
  BY <1>1, <1>2, <1>3, SomeProps, FS_RemoveElement
<1>5. RecordOK' /\ \A kind \in Extra : Recorded(kind)' = Recorded(kind) /\ Allowed(kind)' = Allowed(kind)
  BY <1>1 DEF DayIInv, RecordOK, Has, Allowed, Recorded
<1>6. CASE prop[p].status # "proposed"
  <2>1. PICK new : new = [round EXCEPT !.picks = rest]
    OBVIOUS
  <2>2. /\ round' = new /\ UNCHANGED prop /\ new \in RoundRow /\ new.step = "accept" /\ new.picks = rest
        /\ new.as = round.as /\ new.over = round.over /\ new.took = round.took
    BY <1>1, <1>2, <1>3, <1>6, <2>1 DEF TakeOn, RoundRow
  <2>3. PropsOK' /\ SameProps
    BY <1>1, <2>2 DEF DayIInv, PropsOK, SameProps
  <2>4. Accepting' /\ Taking' = Taking
    BY <1>1, <2>2 DEF Accepting, Taking
  <2>5. \A kind \in Extra : Has(round.over, kind)' = Has(round.over, kind) /\ InRound(kind)' = InRound(kind)
    BY <1>1, <1>2, <2>2, <2>4 DEF Has, InRound
  <2>6. RoundOK'
    <3>1. /\ round'.as = round.as /\ round'.over = round.over /\ round'.picks = rest /\ round' \in RoundRow
      BY <2>2
    <3>2. round.as \in Extra => Taking + Cardinality(rest) <= 1
      BY <1>2, <1>4, DayNat DEF DayIInv, RoundOK
    <3>3. \A q \in Prop : prop'[q] = prop[q]
      BY <2>2
    <3>. QED
      BY <1>1, <1>2, <1>5, <2>4, <2>5, <3>1, <3>2, <3>3 DEF RoundOK, DayIInv
  <2>7. Counted' = Counted /\ \A kind \in Extra : TakenOn(kind)' = TakenOn(kind)
    BY <1>1, <2>2 DEF Counted, TakenOn
  <2>8. ExtrasOK'
    BY <1>1, <1>5, <2>5, <2>7 DEF DayIInv, ExtrasOK
  <2>9. TriesOK'
    <3>1. Picking' <= Picking /\ Picking' \in Nat
      BY <1>1, <1>2, <1>4, <2>2, <2>4, DayNat DEF Picking
    <3>. QED
      BY <2>7, <3>1, DayNat, Limits DEF DayIInv, TriesOK, RecordOK
  <2>. QED
    BY <1>5, <2>3, <2>6, <2>8, <2>9 DEF DayIInv
<1>7. CASE prop[p].status = "proposed"
  <2>1. PICK new : new = [round EXCEPT !.picks = rest, !.next = p, !.step = "queue"]
    OBVIOUS
  <2>2. /\ round' = new /\ new \in RoundRow /\ new.step = "queue" /\ new.picks = rest
        /\ new.as = round.as /\ new.over = round.over /\ new.took = round.took
    BY <1>1, <1>2, <1>3, <1>7, <2>1 DEF TakeOn, RoundRow
  <2>3. PICK row : row = [prop[p] EXCEPT !.status = "accepted", !.as = round.as, !.day = round.over.day]
    OBVIOUS
  <2>4. prop[p] \in PropRow /\ round.as \in {"none", "day", "borrowed", "paid", "breaking"} /\ round.over.day \in Nat
    BY <1>2 DEF DayIInv, PropsOK, RoundRow, RecordRow
  <2>5. /\ row \in PropRow /\ row.status = "accepted" /\ row.as = round.as /\ row.day = round.over.day
    BY <2>3, <2>4 DEF PropRow
  <2>6. prop' = [prop EXCEPT ![p] = row]
    BY <1>7, <2>3 DEF TakeOn
  <2>7. prop' \in [Prop -> PropRow] /\ \A q \in Prop : prop'[q] = IF q = p THEN row ELSE prop[q]
    BY <2>5, <2>6 DEF DayIInv, PropsOK
  <2>8. PropsOK'
    BY <1>1, <2>5, <2>7 DEF DayIInv, PropsOK, RoundOK
  <2>9. Accepting' /\ Taking' = Taking + 1
    BY <1>1, <1>2, <2>2 DEF Accepting, Taking, RoundRow
  <2>10. \A kind \in Extra : Has(round.over, kind)' = Has(round.over, kind)
    BY <2>2 DEF Has
  <2>11. RoundOK'
    <3>1. /\ round'.as = round.as /\ round'.over = round.over /\ round'.picks = rest /\ round' \in RoundRow
      BY <2>2
    <3>2. round.as \in Extra => Taking + 1 + Cardinality(rest) <= 1
      BY <1>2, <1>4, DayNat DEF DayIInv, RoundOK
    <3>3. round.over.day < today => \A q \in Prop : prop'[q].day < today
      BY <1>2, <2>5, <2>7 DEF DayIInv, RoundOK
    <3>. QED
      BY <1>1, <1>2, <1>5, <2>9, <2>10, <3>1, <3>2, <3>3 DEF RoundOK, DayIInv
  <2>12. ExtrasOK'
    <3>1. ASSUME NEW kind \in Extra
          PROVE  Cardinality(TakenOn(kind)') <= Recorded(kind)' + InRound(kind)' + deaths'
      <4>0. /\ Cardinality(TakenOn(kind)) <= Recorded(kind) + InRound(kind) + deaths
            /\ Cardinality(TakenOn(kind)) \in Nat /\ Recorded(kind) \in Nat /\ InRound(kind) \in Nat /\ deaths \in Nat
        BY DayNat DEF DayIInv, ExtrasOK, RecordOK
      <4>1. TakenOn(kind)' \in SUBSET Prop /\ TakenOn(kind) \in SUBSET Prop
        BY DEF TakenOn
      <4>2. Cardinality(TakenOn(kind)') \in Nat
        BY <4>1, SomeProps
      <4>3. CASE round.as = kind /\ round.over.day = today
        <5>1. TakenOn(kind)' \subseteq TakenOn(kind) \cup {p}
          BY <1>1, <2>7 DEF TakenOn
        <5>2. Cardinality(TakenOn(kind)') <= Cardinality(TakenOn(kind)) + 1
          BY <4>1, <5>1, OneProp
        <5>3. InRound(kind)' = InRound(kind) + 1
          BY <1>1, <1>2, <2>2, <2>9, <4>3, DayNat DEF InRound
        <5>. QED
          BY <1>1, <1>5, <4>0, <4>2, <5>2, <5>3
      <4>4. CASE ~(round.as = kind /\ round.over.day = today)
        <5>1. TakenOn(kind)' \subseteq TakenOn(kind)
          BY <1>1, <2>5, <2>7, <4>4 DEF TakenOn
        <5>2. Cardinality(TakenOn(kind)') <= Cardinality(TakenOn(kind))
          BY <4>1, <5>1, FewerProps
        <5>3. InRound(kind)' = InRound(kind)
          BY <1>1, <2>2, <4>4 DEF InRound
        <5>. QED
          BY <1>1, <1>5, <4>0, <4>2, <5>2, <5>3
      <4>. QED
        BY <4>3, <4>4
    <3>. QED
      BY <3>1 DEF ExtrasOK
  <2>13. TriesOK'
    <3>1. Counted' \in SUBSET Prop /\ Counted \in SUBSET Prop
      BY DEF Counted, TakenOn
    <3>2. Cardinality(Counted') \in Nat
      BY <3>1, SomeProps
    <3>3. Cardinality(Counted) + Picking <= PerDay * Tries /\ PerDay * Tries \in Nat
      BY Limits DEF DayIInv, TriesOK, RecordOK
    <3>4. CASE round.as = "day" /\ round.over.day = today
      <4>1. Counted' \subseteq Counted \cup {p}
        BY <1>1, <2>7 DEF Counted, TakenOn
      <4>2. Cardinality(Counted') <= Cardinality(Counted) + 1
        BY <3>1, <4>1, OneProp
      <4>3. Picking = Cardinality(round.picks) /\ Picking' = Cardinality(rest)
        BY <1>1, <1>2, <2>2, <2>9, <3>4 DEF Picking
      <4>. QED
        BY <1>4, <3>2, <3>3, <4>2, <4>3, DayNat DEF TriesOK
    <3>5. CASE ~(round.as = "day" /\ round.over.day = today)
      <4>1. Counted' \subseteq Counted
        BY <1>1, <2>5, <2>7, <3>5 DEF Counted, TakenOn
      <4>2. Cardinality(Counted') <= Cardinality(Counted)
        BY <3>1, <4>1, FewerProps
      <4>3. Picking' = 0 /\ Picking = 0
        BY <1>1, <2>2, <3>5 DEF Picking
      <4>. QED
        BY <3>2, <3>3, <4>2, <4>3, DayNat DEF TriesOK
    <3>. QED
      BY <3>4, <3>5
  <2>. QED
    BY <1>5, <2>8, <2>11, <2>12, <2>13 DEF DayIInv
<1>. QED
  BY <1>6, <1>7

\* Its job is queued.
LEMMA QueueStep ==
  ASSUME DayNumbers, DayIInv, Queue
  PROVE  DayIInv'
<1>1. round.step = "queue" /\ UNCHANGED <<today, cfg, over, prop, art, deaths>>
  BY DEF Queue, events
<1>2. round \in RoundRow /\ Accepting /\ round.took \in Nat
  BY <1>1 DEF DayIInv, RoundOK, RoundRow, Accepting
<1>3. PICK new : new = [round EXCEPT !.step = "accept", !.next = Nobody, !.took = @ + 1]
  OBVIOUS
<1>4. /\ round' = new /\ new \in RoundRow /\ new.step = "accept" /\ new.picks = round.picks
      /\ new.as = round.as /\ new.over = round.over /\ new.took = round.took + 1
  <2>1. round' = new
    BY <1>3 DEF Queue
  <2>2. round.took + 1 \in Nat
    BY <1>2
  <2>. QED
    BY <1>2, <1>3, <2>1, <2>2 DEF RoundRow
<1>5. PropsOK'
  <2>1. auto' \in [Prop -> {"none", "working", "failed", "done"}]
    BY DEF Queue, DayIInv, PropsOK
  <2>. QED
    BY <1>1, <2>1 DEF DayIInv, PropsOK
<1>6. RecordOK' /\ \A kind \in Extra : Recorded(kind)' = Recorded(kind) /\ Allowed(kind)' = Allowed(kind)
  BY <1>1 DEF DayIInv, RecordOK, Has, Allowed, Recorded
<1>7. Accepting' /\ Taking' = Taking
  BY <1>1, <1>2, <1>4 DEF Accepting, Taking
<1>8. \A kind \in Extra : Has(round.over, kind)' = Has(round.over, kind) /\ InRound(kind)' = InRound(kind)
  BY <1>1, <1>2, <1>4, <1>7 DEF Has, InRound
<1>9. RoundOK'
  <2>1. /\ round'.as = round.as /\ round'.over = round.over /\ round'.picks = round.picks /\ round' \in RoundRow
    BY <1>4
  <2>. QED
    BY <1>1, <1>2, <1>6, <1>7, <1>8, <2>1 DEF RoundOK, DayIInv
<1>10. Counted' = Counted /\ Picking' = Picking /\ \A kind \in Extra : TakenOn(kind)' = TakenOn(kind)
  BY <1>1, <1>2, <1>4, <1>7 DEF Counted, TakenOn, Picking
<1>11. ExtrasOK' /\ TriesOK'
  BY <1>1, <1>6, <1>8, <1>10 DEF DayIInv, ExtrasOK, TriesOK
<1>. QED
  BY <1>5, <1>6, <1>9, <1>11 DEF DayIInv

\* One more where there is room for one.
LEMMA Room ==
  /\ \A h, t \in Nat : h + t \in Nat
  /\ \A t \in Nat : ~(t > 0) => t = 0
  /\ \A h, t, a \in Nat : t <= 1 /\ h < a => h + t <= a
BY SMT

\* The record is kept, with the extra added to what was read at the start.
LEMMA RecordStep ==
  ASSUME DayNumbers, DayIInv, Record
  PROVE  DayIInv'
<1>1. round.step = "accept" /\ round' = NoRound /\ UNCHANGED <<today, cfg, prop, art, auto, deaths>>
  BY DEF Record, events
<1>2. /\ round \in RoundRow /\ Accepting /\ round.over \in RecordRow /\ round.took \in Nat /\ Taking = round.took
      /\ over \in RecordRow /\ today \in Nat
  BY <1>1 DEF DayIInv, RoundOK, RoundRow, Accepting, Taking, RecordOK
<1>3. PropsOK'
  BY <1>1 DEF DayIInv, PropsOK
<1>4. PICK took \in Nat, o \in RecordRow, as \in {"day"} \cup Extra :
        took = round.took /\ o = round.over /\ as = round.as
  BY <1>2 DEF DayIInv, RoundOK, RoundRow, Extra
<1>5. \A kind \in Extra : /\ Has(o, kind) \in Nat /\ Has(over, kind) \in Nat /\ Allowed(kind) \in Nat
                          /\ Has(o, kind) <= Allowed(kind) /\ Has(over, kind) <= Allowed(kind)
  BY <1>2, <1>4, HasNat, Limits DEF DayIInv, RoundOK, RecordOK
<1>6. as \in Extra => took <= 1 /\ Has(o, as) < Allowed(as)
  <2>1. Cardinality(round.picks) \in Nat
    BY DayNat
  <2>. QED
    BY <1>2, <1>4, <2>1 DEF DayIInv, RoundOK
<1>7. ASSUME NEW n \in Nat, NEW kind \in Extra
      PROVE  \E new \in RecordRow :
               /\ new = IF kind = "paid" THEN [o EXCEPT !.paid = n] ELSE IF kind = "breaking" THEN [o EXCEPT !.breaking = n]
                        ELSE [o EXCEPT !.borrowed = n]
               /\ new.day = o.day /\ \A k \in Extra : Has(new, k) = IF k = kind THEN n ELSE Has(o, k)
  <2>1. CASE kind = "paid"
    <3>1. [o EXCEPT !.paid = n] \in RecordRow
      BY DEF RecordRow
    <3>. QED
      BY <2>1, <3>1 DEF RecordRow, Has, Extra
  <2>2. CASE kind = "breaking"
    <3>1. [o EXCEPT !.breaking = n] \in RecordRow
      BY DEF RecordRow
    <3>. QED
      BY <2>2, <3>1 DEF RecordRow, Has, Extra
  <2>3. CASE kind = "borrowed"
    <3>1. [o EXCEPT !.borrowed = n] \in RecordRow
      BY DEF RecordRow
    <3>. QED
      BY <2>3, <3>1 DEF RecordRow, Has, Extra
  <2>. QED
    BY <2>1, <2>2, <2>3 DEF Extra
<1>8. \/ over' = over /\ (as \in Extra => took = 0) /\ as # "day"
      \/ over' = o /\ (as \in Extra => took = 0)
      \/ /\ as \in Extra /\ over' \in RecordRow /\ over'.day = o.day
         /\ \A k \in Extra : Has(over', k) = IF k = as THEN Has(o, as) + took ELSE Has(o, k)
  <2>1. CASE as = "day"
    BY <1>4, <2>1 DEF Record, Extra
  <2>2. CASE as \in Extra /\ took > 0
    <3>1. as # "day"
      BY <2>2 DEF Extra
    <3>2. over' = [o EXCEPT ![as] = @ + took]
      BY <1>4, <2>2, <3>1 DEF Record
    <3>3. PICK n \in Nat : n = Has(o, as) + took
      <4>1. Has(o, as) \in Nat /\ took \in Nat
        BY <1>2, <1>4, <1>5, <2>2 DEF DayIInv, RoundOK, RoundRow
      <4>2. Has(o, as) + took \in Nat
        BY <4>1, Room
      <4>. DEFINE sum == Has(o, as) + took
      <4>3. sum \in Nat
        BY <4>2
      <4>. HIDE DEF sum
      <4>4. \E n \in Nat : n = sum
        BY <4>3
      <4>. QED
        BY <4>4 DEF sum
    <3>4. PICK new \in RecordRow :
            /\ new = IF as = "paid" THEN [o EXCEPT !.paid = n] ELSE IF as = "breaking" THEN [o EXCEPT !.breaking = n]
                     ELSE [o EXCEPT !.borrowed = n]
            /\ new.day = o.day /\ \A k \in Extra : Has(new, k) = IF k = as THEN n ELSE Has(o, k)
      BY <1>7, <2>2
    <3>5. over' = new
      BY <2>2, <3>2, <3>3, <3>4 DEF Has, Extra
    <3>. QED
      BY <2>2, <3>3, <3>4, <3>5
  <2>3. CASE as \in Extra /\ ~(took > 0)
    <3>1. as # "day" /\ took = 0
      <4>1. took \in Nat
        BY <1>2, <1>4 DEF DayIInv, RoundOK, RoundRow
      <4>2. took = 0
        BY <2>3, <4>1, Room
      <4>3. as # "day"
        BY <2>3 DEF Extra
      <4>. QED
        BY <4>2, <4>3
    <3>2. over' = over \/ over' = o
      BY <1>4, <3>1 DEF Record
    <3>. QED
      BY <3>1, <3>2
  <2>. QED
    BY <2>1, <2>2, <2>3
<1>9. o.day <= today /\ over.day <= today /\ o.day \in Nat /\ over.day \in Nat
  BY <1>2, <1>4 DEF DayIInv, RoundOK, RecordOK, RecordRow
<1>10. over' \in RecordRow /\ over'.day <= today
  BY <1>2, <1>8, <1>9
<1>11. ASSUME NEW kind \in Extra PROVE Has(over', kind) <= Allowed(kind)
  <2>1. CASE over' = over \/ over' = o
    <3>1. Has(over', kind) = Has(over, kind) \/ Has(over', kind) = Has(o, kind)
      BY <2>1
    <3>. QED
      BY <1>5, <3>1
  <2>2. CASE as \in Extra /\ \A k \in Extra : Has(over', k) = IF k = as THEN Has(o, as) + took ELSE Has(o, k)
    <3>1. took \in Nat /\ took <= 1 /\ Has(o, as) < Allowed(as)
      BY <1>2, <1>4, <1>6, <2>2 DEF DayIInv, RoundOK, RoundRow
    <3>2. Has(o, as) \in Nat /\ Allowed(as) \in Nat
      BY <1>5, <2>2
    <3>3. Has(o, as) + took <= Allowed(as)
      BY <3>1, <3>2, Room
    <3>. QED
      BY <1>5, <2>2, <3>3
  <2>. QED
    BY <1>8, <2>1, <2>2
<1>12. RecordOK'
  <2>1. \A kind \in Extra : Has(over, kind)' = Has(over', kind) /\ Allowed(kind)' = Allowed(kind)
    BY <1>1 DEF Has, Allowed
  <2>. QED
    BY <1>1, <1>10, <1>11, <2>1 DEF DayIInv, RecordOK
<1>13. ~Accepting' /\ round' \in RoundRow /\ round'.over.day <= today'
  BY <1>1, <1>2, EmptyRound DEF Accepting, NoRecord
<1>14. RoundOK'
  BY <1>13 DEF RoundOK
<1>15. Counted' = Counted /\ \A kind \in Extra : TakenOn(kind)' = TakenOn(kind)
  BY <1>1 DEF Counted, TakenOn
<1>16. ASSUME NEW kind \in Extra
       PROVE  Cardinality(TakenOn(kind)') <= Recorded(kind)' + InRound(kind)' + deaths'
  <2>1. /\ Cardinality(TakenOn(kind)) <= Recorded(kind) + InRound(kind) + deaths
        /\ Cardinality(TakenOn(kind)) \in Nat /\ Recorded(kind) \in Nat /\ InRound(kind) \in Nat /\ deaths \in Nat
    BY DayNat DEF DayIInv, ExtrasOK, RecordOK
  <2>2. InRound(kind)' = 0 /\ deaths' = deaths
    BY <1>1, <1>13 DEF InRound
  <2>3. Recorded(kind)' = IF over'.day = today THEN Has(over', kind) ELSE 0
    BY <1>1 DEF Recorded, Has
  <2>4. CASE o.day = today
    <3>1. Has(o, kind) = Recorded(kind)
      BY <1>2, <1>4, <2>4 DEF DayIInv, RoundOK
    <3>2. InRound(kind) = IF as = kind THEN took ELSE 0
      BY <1>2, <1>4, <2>4 DEF InRound
    <3>3. Recorded(kind) = IF over.day = today THEN Has(over, kind) ELSE 0
      BY DEF Recorded
    <3>4. InRound(kind) \in Nat /\ Recorded(kind) + InRound(kind) <= Recorded(kind)'
      <4>1. Has(over, kind) \in Nat /\ Has(o, kind) \in Nat
        BY <1>5
      <4>2. CASE over' = over /\ (as \in Extra => took = 0)
        <5>1. Has(over', kind) = Has(over, kind) /\ over'.day = over.day
          BY <4>2
        <5>2. InRound(kind) = 0
          BY <3>2, <4>2
        <5>. QED
          BY <2>1, <2>3, <3>3, <5>1, <5>2
      <4>3. CASE over' = o /\ (as \in Extra => took = 0)
        <5>1. Has(over', kind) = Has(o, kind) /\ over'.day = today
          BY <2>4, <4>3
        <5>2. InRound(kind) = 0
          BY <3>2, <4>3
        <5>. QED
          BY <2>1, <2>3, <3>1, <5>1, <5>2
      <4>4. CASE /\ as \in Extra /\ over'.day = o.day
                 /\ \A k \in Extra : Has(over', k) = IF k = as THEN Has(o, as) + took ELSE Has(o, k)
        <5>1. Recorded(kind)' = Has(over', kind)
          BY <2>3, <2>4, <4>4
        <5>2. CASE as = kind
          BY <2>1, <3>1, <3>2, <4>1, <4>4, <5>1, <5>2
        <5>3. CASE as # kind
          <6>1. Recorded(kind)' = Recorded(kind) /\ InRound(kind) = 0
            BY <3>1, <3>2, <4>4, <5>1, <5>3
          <6>. QED
            BY <2>1, <6>1
        <5>. QED
          BY <5>2, <5>3
      <4>. QED
        BY <1>8, <4>2, <4>3, <4>4
    <3>5. Recorded(kind)' \in Nat
      <4>1. Has(over', kind) \in Nat
        BY <1>10, HasNat
      <4>. QED
        BY <2>3, <4>1
    <3>6. Cardinality(TakenOn(kind)') = Cardinality(TakenOn(kind))
      BY <1>15
    <3>. QED
      BY <2>1, <2>2, <3>4, <3>5, <3>6
  <2>5. CASE o.day # today
    <3>1. o.day < today
      BY <1>2, <1>9, <2>5
    <3>2. \A q \in Prop : prop[q].day < today /\ prop[q].day \in Nat
      BY <1>2, <1>4, <3>1 DEF DayIInv, RoundOK, PropsOK, PropRow
    <3>3. TakenOn(kind) = {}
      BY <1>2, <3>2 DEF TakenOn
    <3>4. Recorded(kind)' \in Nat
      <4>1. Has(over', kind) \in Nat
        BY <1>10, HasNat
      <4>. QED
        BY <2>3, <4>1
    <3>5. Cardinality(TakenOn(kind)') = 0
      <4>1. TakenOn(kind)' = {}
        BY <1>15, <3>3
      <4>. QED
        BY <4>1, NoProps
    <3>. QED
      BY <2>1, <2>2, <3>4, <3>5
  <2>. QED
    BY <2>4, <2>5
<1>17. TriesOK'
  <2>1. Picking' = 0
    BY <1>13 DEF Picking
  <2>. QED
    BY <1>15, <2>1, DayNat, Limits DEF DayIInv, TriesOK, RecordOK
<1>. QED
  BY <1>3, <1>12, <1>14, <1>16, <1>17 DEF DayIInv, ExtrasOK

\* A new day: nothing is taken on yet, whatever round goes on.
LEMMA TomorrowStep ==
  ASSUME DayNumbers, DayIInv, Tomorrow
  PROVE  DayIInv'
<1>1. /\ today < MaxDay /\ today' = today + 1 /\ today \in Nat
      /\ UNCHANGED <<cfg, over, prop, art, auto, round, deaths>>
  BY DEF Tomorrow, events, DayIInv, RecordOK
<1>2. /\ over.day \in Nat /\ over.day <= today /\ round.over.day \in Nat /\ round.over.day <= today
      /\ \A p \in Prop : prop[p].day \in Nat /\ prop[p].day <= today /\ art[p].day \in Nat /\ art[p].day <= today
  BY DEF DayIInv, RecordOK, RoundOK, RoundRow, PropsOK, RecordRow, PropRow, ArtRow
<1>3. PropsOK'
  BY <1>1, <1>2 DEF DayIInv, PropsOK
<1>4. today' \in 1..MaxDay
  BY <1>1 DEF DayNumbers
<1>5. RecordOK'
  BY <1>1, <1>2, <1>4 DEF DayIInv, RecordOK, Has, Allowed
<1>6. /\ \A kind \in Extra : Has(round.over, kind)' = Has(round.over, kind) /\ Allowed(kind)' = Allowed(kind)
      /\ Accepting' = Accepting /\ Taking' = Taking
  BY <1>1 DEF Has, Allowed, Accepting, Taking
<1>7. over'.day < today' /\ round'.over.day < today' /\ \A p \in Prop : prop'[p].day < today'
  BY <1>1, <1>2
<1>8. RoundOK'
  <2>1. round' = round
    BY <1>1
  <2>. QED
    BY <1>1, <1>2, <1>6, <1>7, <2>1 DEF DayIInv, RoundOK
<1>9. Counted' = {} /\ \A kind \in Extra : TakenOn(kind)' = {}
  BY <1>1, <1>2 DEF Counted, TakenOn
<1>10. \A kind \in Extra : Recorded(kind)' = 0 /\ InRound(kind)' = 0
  BY <1>1, <1>2 DEF Recorded, InRound
<1>11. ExtrasOK'
  <2>1. deaths' \in Nat
    BY <1>1 DEF DayIInv, RecordOK
  <2>. QED
    BY <1>9, <1>10, <2>1, NoProps DEF ExtrasOK
<1>12. TriesOK'
  <2>1. Picking' = 0
    BY <1>1, <1>2 DEF Picking
  <2>. QED
    BY <1>9, <2>1, NoProps, Limits DEF DayIInv, TriesOK, RecordOK
<1>. QED
  BY <1>3, <1>5, <1>8, <1>11, <1>12 DEF DayIInv

-----------------------------------------------------------------------------
LEMMA DayInit ==
  ASSUME DayNumbers, AutoInit
  PROVE  DayIInv
<1>1. NewProp \in PropRow /\ NewProp.status = "none" /\ NewProp.as = "none" /\ NewProp.day = 0
  BY DEF NewProp, PropRow, DayNumbers
<1>2. NoArt \in ArtRow /\ NoArt.day = 0
  BY DEF NoArt, ArtRow
<1>3. NoRecord \in RecordRow /\ NoRecord.day = 0 /\ \A kind : Has(NoRecord, kind) = 0
  BY DEF NoRecord, RecordRow, Has
<1>4. today = 1 /\ deaths = 0 /\ over = NoRecord /\ round = NoRound /\ cfg \in SettingRow
  BY DEF AutoInit, DayNumbers, SettingRow
<1>5. PropsOK
  BY <1>1, <1>2, <1>4 DEF AutoInit, PropsOK
<1>6. RecordOK
  BY <1>3, <1>4, Limits DEF RecordOK, DayNumbers
<1>7. ~Accepting
  BY <1>4, EmptyRound DEF Accepting
<1>8. RoundOK
  BY <1>3, <1>4, <1>7, EmptyRound DEF RoundOK
<1>9. Counted = {} /\ \A kind \in Extra : TakenOn(kind) = {}
  BY <1>1, <1>4 DEF AutoInit, Counted, TakenOn, Extra
<1>10. ExtrasOK
  BY <1>3, <1>4, <1>7, <1>9, NoProps DEF ExtrasOK, Recorded, InRound
<1>11. TriesOK
  BY <1>4, <1>7, <1>9, NoProps, Limits DEF TriesOK, Picking
<1>. QED
  BY <1>5, <1>6, <1>8, <1>10, <1>11 DEF DayIInv

LEMMA DayStep ==
  ASSUME DayNumbers, DayIInv, [AutoNext]_autoVars
  PROVE  DayIInv'
<1>1. CASE UNCHANGED autoVars
  <2>1. UNCHANGED <<today, cfg, over, prop, art, auto, round, deaths>>
    BY <1>1 DEF autoVars
  <2>2. PropsOK' /\ SameProps
    BY <2>1 DEF DayIInv, PropsOK, SameProps
  <2>. QED
    BY <2>1, <2>2, PropsMove
<1>2. CASE Round \/ Choose \/ Queue \/ Record \/ RoundDies \/ Toggle \/ Tomorrow
  BY <1>2, RoundBegins, ChooseStep, QueueStep, RecordStep, RoundDiesStep, ToggleStep, TomorrowStep
<1>3. CASE \E p \in Prop : TakeOn(p) \/ Propose(p) \/ WriteIt(p) \/ TooThin(p) \/ EndJob(p) \/ Decides(p)
  BY <1>3, TakeOnStep, ProposeStep, WriteStep, ThinStep, EndJobStep, DecidesStep
<1>. QED
  BY <1>1, <1>2, <1>3 DEF AutoNext

LEMMA DayTells ==
  ASSUME DayNumbers, DayIInv
  PROVE  DayKeepsItsNumber
<1>1. AutoTypeOK
  <2>1. over.paid <= cfg.extra /\ over.breaking <= cfg.breaking
    <3>1. Has(over, "paid") <= Allowed("paid") /\ Has(over, "breaking") <= Allowed("breaking")
      BY DEF DayIInv, RecordOK, Extra
    <3>. QED
      BY <3>1 DEF Has, Allowed
  <2>2. ASSUME NEW p \in Prop
        PROVE  /\ prop[p] \in [status : {"none", "proposed", "accepted", "drafted", "rejected"},
                              born : 0..MaxDay, as : {"none", "day", "borrowed", "paid", "breaking"}, day : 0..today]
               /\ art[p] \in [status : {"none", "open", "approved", "rejected"}, day : 0..today]
    <3>1. prop[p] \in PropRow /\ art[p] \in ArtRow /\ prop[p].day <= today /\ art[p].day <= today
      BY DEF DayIInv, PropsOK
    <3>2. prop[p].day \in 0..today /\ art[p].day \in 0..today
      BY <3>1 DEF PropRow, ArtRow, DayIInv, RecordOK
    <3>. QED
      BY <3>1, <3>2 DEF PropRow, ArtRow
  <2>. QED
    BY <2>1, <2>2 DEF AutoTypeOK, DayIInv, PropsOK
<1>2. TriesWithinDay
  <2>1. Cardinality(Counted) <= PerDay * Tries
    BY DayNat, Limits DEF DayIInv, TriesOK, RecordOK
  <2>. QED
    BY <2>1 DEF TriesWithinDay, Counted
<1>3. ASSUME NEW kind \in Extra PROVE Cardinality(TakenOn(kind)) <= Allowed(kind) + deaths
  <2>1. /\ Cardinality(TakenOn(kind)) <= Recorded(kind) + InRound(kind) + deaths
        /\ Cardinality(TakenOn(kind)) \in Nat /\ Recorded(kind) \in Nat /\ InRound(kind) \in Nat /\ deaths \in Nat
        /\ Allowed(kind) \in Nat
    BY DayNat, Limits DEF DayIInv, ExtrasOK, RecordOK
  <2>2. Recorded(kind) <= Allowed(kind)
    BY <2>1 DEF Recorded, DayIInv, RecordOK
  <2>3. InRound(kind) = 0 \/ Recorded(kind) + InRound(kind) <= Allowed(kind)
    <3>1. CASE Accepting /\ round.as = kind /\ round.over.day = today
      <4>1. InRound(kind) <= 1 /\ Has(round.over, kind) = Recorded(kind) /\ Has(round.over, kind) < Allowed(kind)
        BY <3>1, DayNat DEF InRound, DayIInv, RoundOK
      <4>. QED
        BY <2>1, <4>1
    <3>2. CASE ~(Accepting /\ round.as = kind /\ round.over.day = today)
      BY <3>2 DEF InRound
    <3>. QED
      BY <3>1, <3>2
  <2>. QED
    BY <2>1, <2>2, <2>3
<1>4. ExtrasWithinDay
  <2>1. /\ "paid" \in Extra /\ "breaking" \in Extra /\ "borrowed" \in Extra
        /\ Allowed("paid") = cfg.extra /\ Allowed("breaking") = cfg.breaking /\ Allowed("borrowed") = cfg.borrow * Tries
    BY DEF Extra, Allowed
  <2>. QED
    BY <1>3, <2>1 DEF ExtrasWithinDay
<1>. QED
  BY <1>1, <1>2, <1>4 DEF DayKeepsItsNumber

(* Whatever is discarded, lost, deleted or killed half-way, whichever day  *)
(* comes meanwhile, the ordinary articles a newsroom takes on in a day     *)
(* stay within its tries and each kind of extra within what the director   *)
(* allowed, but for one with each round that died before its record        *)
(* (autopilot.run, made_since, over_today).                                *)
THEOREM DayHeld == DayNumbers => (RoundsSpec => []DayKeepsItsNumber)
<1>. SUFFICES ASSUME DayNumbers
     PROVE  RoundsSpec => []DayKeepsItsNumber
  OBVIOUS
<1>1. RoundsInit => DayIInv
  BY DayInit DEF RoundsInit
<1>2. DayIInv /\ [RoundsNext]_<<part, autoVars, otherVars>> => DayIInv'
  <2>. SUFFICES ASSUME DayIInv, [RoundsNext]_<<part, autoVars, otherVars>>
       PROVE  DayIInv'
    OBVIOUS
  <2>1. [AutoNext]_autoVars
    BY DEF RoundsNext
  <2>. QED
    BY <2>1, DayStep
<1>3. DayIInv => DayKeepsItsNumber
  BY DayTells
<1>. QED
  BY <1>1, <1>2, <1>3, PTL DEF RoundsSpec

-----------------------------------------------------------------------------
(* The queue the rounds wait in.  On SQLite one process works for one      *)
(* newsroom, in any number of threads: what JobQueueProofs proves of a     *)
(* tenant's share and of every run's row, for the file's queue in MCQueues.*)
Rows == INSTANCE JobQueueProofs WITH
  Tenants <- {1}, TenantOfWork <- MCTenantOfWorkOne, Workers <- {w1}, WorkerOf <- MCWorkerOfOne,
  PerTenant <- 1, Sqlite <- TRUE, MaxFaults <- 3,
  jobs <- rows, since <- served, hold <- inHand, state <- process, left <- released,
  active <- open, faults <- mishaps

\* Heartbeats arrive, and a worker that stops ends no run after it released
\* the job.
FileReliable == ~MayStall /\ ~ExitOverlap

LEMMA SameNumbers ==
  ASSUME NEW S
  PROVE  /\ Sq!Cardinality(S) = Rows!Cardinality(S)
         /\ Sq!Max(S) = Rows!Max(S)
<1>1. Sq!Cardinality(S) = Rows!Cardinality(S)
  BY DEF
       Sq!Cardinality, Rows!Cardinality
<1>2. Sq!Max(S) = Rows!Max(S)
  BY DEF
       Sq!Max, Rows!Max
<1>. QED
  BY <1>1, <1>2

LEMMA SameCandidates ==
  ASSUME NEW j
  PROVE  /\ Sq!Claimable(j) <=> Rows!Claimable(j)
         /\ \A k : Sq!Before(j, k) <=> Rows!Before(j, k)
         /\ Sq!HeldBySomeone(j) <=> Rows!HeldBySomeone(j)
<1>1. Sq!Claimable(j) <=> Rows!Claimable(j)
  BY SameNumbers DEF
       Sq!Claimable, Sq!Is, Sq!TenantOf, Sq!RunningOf, Sq!FreshlyRunning, Sq!SameWork,
       Rows!Claimable, Rows!Is, Rows!TenantOf, Rows!RunningOf, Rows!FreshlyRunning,
       Rows!SameWork
<1>2. \A k : Sq!Before(j, k) <=> Rows!Before(j, k)
  BY DEF
       Sq!Before, Sq!TenantOf, Sq!ServedBefore, Sq!ServedRows, Rows!Before, Rows!TenantOf,
       Rows!ServedBefore, Rows!ServedRows
<1>3. Sq!HeldBySomeone(j) <=> Rows!HeldBySomeone(j)
  BY DEF
       Sq!HeldBySomeone, Rows!HeldBySomeone
<1>. QED
  BY <1>1, <1>2, <1>3

LEMMA SameRuns ==
  ASSUME NEW s, NEW result
  PROVE  /\ Sq!Claim(s) <=> Rows!Claim(s)
         /\ Sq!Finish(s, result) <=> Rows!Finish(s, result)
         /\ Sq!Later(s) <=> Rows!Later(s)
         /\ Sq!EndLost(s) <=> Rows!EndLost(s)
         /\ Sq!Beat(s) <=> Rows!Beat(s)
         /\ Sq!Release(s) <=> Rows!Release(s)
         /\ Sq!ReleaseFails(s) <=> Rows!ReleaseFails(s)
<1>1. Sq!Claim(s) <=> Rows!Claim(s)
  BY SameCandidates DEF
       Sq!Claim, Sq!Busy, Sq!Claimed, Rows!Claim, Rows!Busy, Rows!Claimed
<1>2. Sq!Finish(s, result) <=> Rows!Finish(s, result)
  BY DEF
       Sq!Finish, Sq!CanEnd, Sq!Busy, Sq!Idle, Rows!Finish, Rows!CanEnd, Rows!Busy, Rows!Idle
<1>3. Sq!Later(s) <=> Rows!Later(s)
  BY SameNumbers DEF
       Sq!Later, Sq!CanEnd, Sq!Busy, Sq!Idle, Sq!PutOff, Rows!Later, Rows!CanEnd, Rows!Busy,
       Rows!Idle, Rows!PutOff
<1>4. Sq!EndLost(s) <=> Rows!EndLost(s)
  BY DEF
       Sq!EndLost, Sq!CanEnd, Sq!Busy, Sq!Idle, Sq!Fault, Rows!EndLost, Rows!CanEnd,
       Rows!Busy, Rows!Idle, Rows!Fault
<1>5. Sq!Beat(s) <=> Rows!Beat(s)
  BY DEF
       Sq!Beat, Sq!Busy, Sq!Is, Rows!Beat, Rows!Busy, Rows!Is
<1>6. Sq!Release(s) <=> Rows!Release(s)
  BY DEF
       Sq!Release, Sq!Idle, Sq!Is, Sq!Released, Rows!Release, Rows!Idle, Rows!Is,
       Rows!Released
<1>7. Sq!ReleaseFails(s) <=> Rows!ReleaseFails(s)
  BY DEF
       Sq!ReleaseFails, Sq!Idle, Sq!Fault, Rows!ReleaseFails, Rows!Idle, Rows!Fault
<1>. QED
  BY <1>1, <1>2, <1>3, <1>4, <1>5, <1>6, <1>7

LEMMA SameRows ==
  ASSUME NEW j, NEW w
  PROVE  /\ Sq!Enqueue(w) <=> Rows!Enqueue(w)
         /\ Sq!WaitOver(j) <=> Rows!WaitOver(j)
         /\ Sq!Expire(j) <=> Rows!Expire(j)
         /\ Sq!RequeueStale <=> Rows!RequeueStale
<1>1. Sq!Enqueue(w) <=> Rows!Enqueue(w)
  BY DEF
       Sq!Enqueue, Sq!Is, Sq!NewRow, Rows!Enqueue, Rows!Is, Rows!NewRow
<1>2. Sq!WaitOver(j) <=> Rows!WaitOver(j)
  BY DEF
       Sq!WaitOver, Sq!Is, Rows!WaitOver, Rows!Is
<1>3. Sq!Expire(j) <=> Rows!Expire(j)
  BY SameCandidates DEF
       Sq!Expire, Sq!FreshlyRunning, Sq!Is, Sq!Fault, Rows!Expire, Rows!FreshlyRunning,
       Rows!Is, Rows!Fault
<1>4. Sq!RequeueStale <=> Rows!RequeueStale
  BY DEF
       Sq!RequeueStale, Sq!Stale, Sq!Is, Sq!Requeued, Rows!RequeueStale, Rows!Stale, Rows!Is,
       Rows!Requeued
<1>. QED
  BY <1>1, <1>2, <1>3, <1>4

LEMMA SameProcess ==
  ASSUME NEW w, NEW t
  PROVE  /\ Sq!Stop(w) <=> Rows!Stop(w)
         /\ Sq!GraceOver(w) <=> Rows!GraceOver(w)
         /\ Sq!Exit(w) <=> Rows!Exit(w)
         /\ Sq!Crash(w) <=> Rows!Crash(w)
         /\ Sq!Start(w) <=> Rows!Start(w)
         /\ Sq!SetActive(t) <=> Rows!SetActive(t)
<1>1. Sq!Stop(w) <=> Rows!Stop(w)
  BY DEF
       Sq!Stop, Sq!Fault, Rows!Stop, Rows!Fault
<1>2. Sq!GraceOver(w) <=> Rows!GraceOver(w)
  BY DEF
       Sq!GraceOver, Rows!GraceOver
<1>3. Sq!Exit(w) <=> Rows!Exit(w)
  BY DEF
       Sq!Exit, Sq!Idle, Sq!Gone, Rows!Exit, Rows!Idle, Rows!Gone
<1>4. Sq!Crash(w) <=> Rows!Crash(w)
  BY DEF
       Sq!Crash, Sq!Fault, Sq!Gone, Sq!Idle, Rows!Crash, Rows!Fault, Rows!Gone, Rows!Idle
<1>5. Sq!Start(w) <=> Rows!Start(w)
  BY DEF
       Sq!Start, Sq!Is, Sq!Requeued, Rows!Start, Rows!Is, Rows!Requeued
<1>6. Sq!SetActive(t) <=> Rows!SetActive(t)
  BY DEF
       Sq!SetActive, Rows!SetActive
<1>. QED
  BY <1>1, <1>2, <1>3, <1>4, <1>5, <1>6

LEMMA SameQueue ==
  /\ Sq!Init <=> Rows!Init
  /\ Sq!Next <=> Rows!Next
  /\ Sq!RowIsOwn <=> Rows!RowIsOwn
  /\ Sq!TenantShare <=> Rows!TenantShare
<1>1. Sq!Init <=> Rows!Init
  BY DEF
       Sq!Init, Sq!NoRow, Sq!Idle, Rows!Init, Rows!NoRow, Rows!Idle
<1>2. Sq!Next <=> Rows!Next
  BY SameRuns, SameRows, SameProcess DEF
       Sq!Next, Rows!Next
<1>3. Sq!RowIsOwn <=> Rows!RowIsOwn
  BY DEF
       Sq!RowIsOwn, Sq!Attached, Sq!Busy, Sq!Idle, Rows!RowIsOwn, Rows!Attached, Rows!Busy,
       Rows!Idle
<1>4. Sq!TenantShare <=> Rows!TenantShare
  BY SameNumbers DEF
       Sq!TenantShare, Sq!Attached, Sq!Busy, Sq!Idle, Sq!TenantOf, Rows!TenantShare,
       Rows!Attached, Rows!Busy, Rows!Idle, Rows!TenantOf
<1>. QED
  BY <1>1, <1>2, <1>3, <1>4

\* The constants are those of one process and of one newsroom.
LEMMA FileQueue ==
  ASSUME FileReliable
  PROVE  Rows!JobQueueAssumption /\ Rows!Reliable
<1>1. MCWorkerOfOne \in [Slots -> {w1}]
  BY DEF MCWorkerOfOne
<1>2. MCTenantOfWorkOne \in [Works -> {1}]
  BY DEF MCTenantOfWorkOne
<1>3. Rows!JobQueueAssumption
  BY <1>1, <1>2, JobQueueAssumption DEF Rows!JobQueueAssumption
<1>. QED
  BY <1>3 DEF Rows!Reliable, FileReliable

LEMMA FileStep ==
  ASSUME FileReliable, Rows!IInv, Rows!ShareOK, [QueuesNext]_<<database, vars, sqVars>>
  PROVE  Rows!IInv' /\ Rows!ShareOK'
<1>1. [Rows!Next]_(Rows!vars)
  BY SameQueue DEF QueuesNext, sqVars, Rows!vars
<1>. QED
  BY <1>1, FileQueue, Rows!StepInv, Rows!ShareStep

(* A newsroom on a file does one thing at a time, and the row of every run *)
(* is its own, whatever is stopped, killed and started again: a start puts *)
(* back all that ran (queue.requeue, claim_job, Worker.run).               *)
THEOREM OneRunAtATime == FileReliable => (QueuesSpec => []OneAtATime)
<1>. SUFFICES ASSUME FileReliable
     PROVE  QueuesSpec => []OneAtATime
  OBVIOUS
<1>1. QueuesInit => Rows!IInv /\ Rows!ShareOK
  BY FileQueue, SameQueue, Rows!InitInv, Rows!ShareInit DEF QueuesInit
<1>2. Rows!IInv /\ Rows!ShareOK => OneAtATime
  <2>1. Rows!IInv => Rows!RowIsOwn
    BY DEF Rows!IInv
  <2>. QED
    BY <2>1, FileQueue, SameQueue, Rows!RunsOwnRows DEF OneAtATime
<1>. QED
  BY <1>1, <1>2, FileStep, PTL DEF QueuesSpec

=============================================================================
