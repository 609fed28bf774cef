------------------------------- MODULE Ticks --------------------------------
(***************************************************************************)
(* A newsroom's hours.  Every hour the worker runs a tick: the steps that  *)
(* are due (the nightly maintenance, the evening's analysis, the weekly    *)
(* review, the briefing) one after the other.  A failed step does not stop *)
(* the next; a death of the worker stops them all, and the next tick goes  *)
(* by what was recorded.  Beside it run the worker's hourly round (the     *)
(* weekly report) and the jobs that email the approved articles: whatever  *)
(* goes out is sent first and recorded after.                              *)
(***************************************************************************)
EXTENDS Integers, FiniteSets, Sequences

CONSTANTS Proposal,  \* the proposals of the site
          Kind,      \* what goes out: "briefing", "report", "article"
          Week,      \* days in a week
          LastDay, MaxDeaths, MaxTrouble  \* bounds of the exploration

VARIABLES now,      \* the local day and hour
          tick,     \* the tick under way: its time, its step, what it read
          last,     \* the last day each step was done, by the records
          queued,   \* evening jobs queued for each day
          props,    \* the proposals: when they were made, whether a briefing told them
          post,     \* the day's briefing, the week's report, the last article approved
          sending,  \* who is sending them
          deaths, trouble  \* so far

tickVars == <<now, tick, last, queued, props, post, sending, deaths, trouble>>

Night == 0
Morning == 1     \* past MAINTENANCE_HOUR and REVIEW_HOUR: the newsroom's briefing_hour
Late == 2        \* the end of BRIEFING_WINDOW_HOURS
Evening == 3     \* the hour of Il Punto della Sera

Step == <<"maintain", "mark", "queue", "review", "build", "send">>
Channel(k) == IF k = "briefing" THEN {"email", "telegram"} ELSE {"email"}
NoTick == [at |-> 0, day |-> 0, hour |-> 0, maintain |-> 0, review |-> 0, evening |-> FALSE, sends |-> FALSE]
Quiet == [on |-> FALSE, left |-> {}, ok |-> {}]
Issue(k, d) == [day |-> d, marked |-> {}, error |-> FALSE, got |-> [c \in Channel(k) |-> 0],
                again |-> [c \in Channel(k) |-> 0]]
Unborn == [at |-> 0, built |-> 0, told |-> FALSE, waiting |-> FALSE]

TickInit ==
  /\ now = [day |-> 1, hour |-> Night] /\ tick = NoTick
  /\ last = [maintain |-> 0, review |-> 0, evening |-> 0, built |-> 0]
  /\ queued = [d \in 1..LastDay |-> 0]
  /\ props = [p \in Proposal |-> Unborn]
  /\ post = [k \in Kind |-> Issue(k, 0)] /\ sending = [k \in Kind |-> Quiet]
  /\ deaths = 0 /\ trouble = 0

Hour == 4 * now.day + now.hour
At(step) == tick.at > 0 /\ Step[tick.at] = step
Go == tick' = IF tick.at = Len(Step) THEN NoTick ELSE [tick EXCEPT !.at = @ + 1]
mail == <<post, sending, trouble>>

-----------------------------------------------------------------------------
(* tenant_tick: the time and the last successes are read once, as it begins*)
TickBegins ==
  /\ tick = NoTick /\ "briefing" \in Kind
  /\ tick' = [at |-> 1, day |-> now.day, hour |-> now.hour, maintain |-> last.maintain,
              review |-> last.review, evening |-> FALSE, sends |-> FALSE]
  /\ UNCHANGED <<now, last, queued, props, mail, deaths>>

(* maintenance_due, review_due *)
Monday(day) == day % Week = 1
MaintenanceDue == tick.hour >= Morning /\ tick.maintain < tick.day
ReviewDue ==
  LET monday == Monday(tick.day) /\ tick.hour >= Morning
      since == tick.day - tick.review
  IN IF tick.review = 0 THEN monday ELSE since > Week \/ (since >= Week - 1 /\ monday)

(* step: the work inside a job of its own; its success has the day it ends,*)
(* its failure leaves the step due.                                        *)
Tracked(kind, due) ==
  /\ At(kind) /\ Go
  /\ \/ last' = (IF due THEN [last EXCEPT ![kind] = now.day] ELSE last) /\ UNCHANGED trouble
     \/ due /\ trouble < MaxTrouble /\ trouble' = trouble + 1 /\ UNCHANGED last
  /\ UNCHANGED <<now, queued, props, post, sending, deaths>>
Maintain == Tracked("maintain", MaintenanceDue)
Review == Tracked("review", ReviewDue)

(* evening: past its hour and not yet done today; the day is recorded, and *)
(* in a transaction of its own the job is queued.                          *)
EveningDue == tick.hour >= Evening /\ last.evening # tick.day
MarkEvening ==
  /\ At("mark")
  /\ tick' = [tick EXCEPT !.at = @ + 1, !.evening = EveningDue]
  /\ last' = IF EveningDue THEN [last EXCEPT !.evening = tick.day] ELSE last
  /\ UNCHANGED <<now, queued, props, mail, deaths>>
QueueEvening ==
  /\ At("queue") /\ Go
  /\ queued' = IF tick.evening THEN [queued EXCEPT ![tick.day] = @ + 1] ELSE queued
  /\ UNCHANGED <<now, last, props, mail, deaths>>

-----------------------------------------------------------------------------
(* The briefing: in its hours, when the day has none; `since` is when the  *)
(* one before was built, for the first a day ago.                          *)
InWindow == tick.hour \in {Morning, Late}
Since(p) == IF last.built = 0 THEN props[p].at >= Hour - 4 ELSE props[p].built = last.built
Told(p) == Since(p) /\ props[p].waiting
Build ==
  /\ At("build") /\ InWindow /\ "briefing" \in Kind /\ post["briefing"].day < tick.day
  /\ post' = [post EXCEPT !["briefing"] = Issue("briefing", tick.day)]
  /\ props' = [p \in Proposal |-> IF Told(p) THEN [props[p] EXCEPT !.told = TRUE] ELSE props[p]]
  /\ last' = [last EXCEPT !.built = @ + 1]
  /\ tick' = [tick EXCEPT !.at = @ + 1, !.sends = TRUE]
  /\ UNCHANGED <<now, queued, sending, deaths, trouble>>

(* Built before and not delivered: tried again in the same hours.          *)
NoBuild ==
  /\ At("build") /\ ("briefing" \in Kind => ~(InWindow /\ post["briefing"].day < tick.day))
  /\ tick' = [tick EXCEPT !.at = @ + 1, !.sends = /\ InWindow /\ "briefing" \in Kind
                                                    /\ post["briefing"].day = tick.day /\ post["briefing"].error]
  /\ UNCHANGED <<now, last, queued, props, mail, deaths>>
NotSent ==
  /\ At("send") /\ ~tick.sends /\ Go
  /\ UNCHANGED <<now, last, queued, props, mail, deaths>>

(* weekly.run: the report of the week before, on Monday from the hour of   *)
(* the briefing and the day after; delivery.email: the article approved.   *)
ReportDue == (Monday(now.day) /\ now.hour >= Morning) \/ now.day % Week = 2
ReportWeek == now.day - ((now.day - 1) % Week)
NewReport ==
  /\ "report" \in Kind /\ ~sending["report"].on /\ ReportDue /\ post["report"].day < ReportWeek
  /\ post' = [post EXCEPT !["report"] = Issue("report", ReportWeek)]
  /\ UNCHANGED <<now, tick, last, queued, props, sending, deaths, trouble>>
ApproveArticle ==
  /\ "article" \in Kind /\ post["article"].day < now.day /\ ~sending["article"].on
  /\ post' = [post EXCEPT !["article"] = Issue("article", now.day)]
  /\ UNCHANGED <<now, tick, last, queued, props, sending, deaths, trouble>>

-----------------------------------------------------------------------------
(* Sender.send, weekly.deliver, delivery.email: what was sent already is   *)
(* read, the rest is sent, then all that was sent is recorded.             *)
MaySend(k) ==
  CASE k = "briefing" -> At("send") /\ tick.sends
    [] k = "report" -> post[k].day > 0 /\ ReportDue /\ post[k].day = ReportWeek
    [] k = "article" -> post[k].day > 0
\* A slip: a briefing not delivered whole is sent whole again.
UnsentOfAll(k) == IF post[k].error THEN Channel(k) ELSE Channel(k) \ post[k].marked
Unsent(k) == Channel(k) \ post[k].marked
SendReads(k) ==
  /\ ~sending[k].on /\ MaySend(k) /\ (k = "briefing" \/ Unsent(k) # {})
  /\ sending' = [sending EXCEPT ![k] = [on |-> TRUE, left |-> Unsent(k), ok |-> {}]]
  /\ UNCHANGED <<now, tick, last, queued, props, post, deaths, trouble>>

Send(k, c) ==
  /\ c \in sending[k].left
  /\ sending' = [sending EXCEPT ![k].left = @ \ {c}, ![k].ok = @ \cup {c}]
  /\ post' = [post EXCEPT ![k].got[c] = @ + 1]
  /\ UNCHANGED <<now, tick, last, queued, props, deaths, trouble>>
(* The mail server or Telegram refuses: of several chats, perhaps after    *)
(* the first got it.                                                       *)
Refused(k, c) ==
  /\ c \in sending[k].left /\ trouble < MaxTrouble /\ trouble' = trouble + 1
  /\ sending' = [sending EXCEPT ![k].left = @ \ {c}]
  /\ \E partly \in {0} \cup (IF c = "telegram" THEN {1} ELSE {}) :
       post' = [post EXCEPT ![k].got[c] = @ + partly, ![k].again[c] = @ + partly]
  /\ UNCHANGED <<now, tick, last, queued, props, deaths>>

SendRecords(k) ==
  /\ sending[k].on /\ sending[k].left = {}
  /\ post' = [post EXCEPT ![k].marked = @ \cup sending[k].ok,
                          ![k].error = post[k].marked \cup sending[k].ok # Channel(k)]
  /\ sending' = [sending EXCEPT ![k] = Quiet]
  /\ IF k = "briefing" THEN Go ELSE UNCHANGED tick
  /\ UNCHANGED <<now, last, queued, props, deaths, trouble>>

-----------------------------------------------------------------------------
(* The worker dies: its tick, its round and its jobs with it.              *)
WorkerDies ==
  /\ deaths < MaxDeaths /\ deaths' = deaths + 1
  /\ tick # NoTick \/ \E k \in Kind : sending[k].on
  /\ tick' = NoTick /\ sending' = [k \in Kind |-> Quiet]
  /\ post' = [k \in Kind |-> [post[k] EXCEPT !.again =
                [c \in Channel(k) |-> @[c] + (IF c \in sending[k].ok THEN 1 ELSE 0)]]]
  /\ UNCHANGED <<now, last, queued, props, trouble>>

NextHour ==
  /\ tick = NoTick \/ [day |-> tick.day, hour |-> tick.hour] = now  \* a bound: an hour more
  /\ now' = IF now.hour < Evening THEN [now EXCEPT !.hour = @ + 1] ELSE [day |-> now.day + 1, hour |-> Night]
  /\ now'.day <= LastDay
  /\ UNCHANGED <<tick, last, queued, props, mail, deaths>>

(* proposals: made by a planner or asked for; decided by a person.         *)
Proposed(p) ==
  /\ props[p] = Unborn
  /\ props' = [props EXCEPT ![p] = [at |-> Hour, built |-> last.built, told |-> FALSE, waiting |-> TRUE]]
  /\ UNCHANGED <<now, tick, last, queued, mail, deaths>>
Decided(p) ==
  /\ props[p].waiting /\ props' = [props EXCEPT ![p].waiting = FALSE]
  /\ UNCHANGED <<now, tick, last, queued, mail, deaths>>

TickNext ==
  \/ TickBegins \/ Maintain \/ MarkEvening \/ QueueEvening \/ Review
  \/ Build \/ NoBuild \/ NotSent \/ NewReport \/ ApproveArticle \/ WorkerDies \/ NextHour
  \/ \E k \in Kind : SendReads(k) \/ SendRecords(k) \/ \E c \in Channel(k) : Send(k, c) \/ Refused(k, c)
  \/ \E p \in Proposal : Proposed(p) \/ Decided(p)

TickSpec == TickInit /\ [][TickNext]_tickVars

-----------------------------------------------------------------------------
(* "Each channel is sent at most once": the briefing, the report and the   *)
(* article go out on each channel once, and once more only for each death  *)
(* of the worker between sending and recording, and for each refusal that  *)
(* came after the first chats had it.                                      *)
SentOnce == \A k \in Kind : \A c \in Channel(k) : post[k].got[c] <= 1 + post[k].again[c]

(* Il Punto della Sera is asked for once a day, whenever the worker dies.  *)
EveningOnce == \A d \in 1..LastDay : queued[d] <= 1

(* Once the newsroom has had a briefing, a proposal waiting for a decision *)
(* is told by the next one built, days without a briefing included.        *)
WaitingIsTold ==
  \A p \in Proposal : props[p].waiting /\ props[p].built > 0 /\ ~props[p].told => props[p].built = last.built
=============================================================================
