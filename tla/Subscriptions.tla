---------------------------- MODULE Subscriptions ----------------------------
(***************************************************************************)
(* A newsroom's subscription (billing.py): its trial, the payments the     *)
(* operator records, those the gateway announces with notices that may     *)
(* come twice or fail half-way, the cancellations and refunds, and the     *)
(* hourly round that ends trials and paid periods.  Time is in days.       *)
(***************************************************************************)
EXTENDS Integers, FiniteSets

CONSTANTS Pay,         \* the payments the gateway may hold
          GwSub,       \* the ids the gateway gives its subscriptions
          Handler,     \* notices and rounds that may be under way at once
          Trial, Period, Grace, Remind, PropOnly,  \* days
          NoticesOverlap,     \* whether those under way interleave
          MaxDay, MaxMishaps  \* bounds of the exploration

Never == -1
NoId == "none"

ASSUME SubscriptionsAssumption == {Trial, Period, Grace} \subseteq Nat /\ NoId \notin GwSub

VARIABLES today, sub, room,   \* the day; the subscription's row; the tenant's row
          billed, refunded,    \* payments.status by payment; the payments given back
          gpay, live,       \* the gateway's payments and the subscriptions it renews
          lost,             \* subscriptions left alive that no row names any more
          hand,             \* what each handler is doing
          honoured, acked,  \* times a payment took effect; notices of it answered 200
          mishaps

subVars == <<today, sub, room, billed, refunded, gpay, live, lost, hand, honoured, acked, mishaps>>

NoSub == [status |-> "none", provider |-> "manual", psid |-> NoId, trialEnd |-> Never,
          periodEnd |-> Never, reminded |-> FALSE]
Idle == [step |-> "idle", pay |-> NoId, sub |-> NoSub, stale |-> FALSE, id |-> NoId]

Later(a, b) == IF a > b THEN a ELSE b

Undisturbed == NoticesOverlap \/ \A h \in Handler : hand[h] = Idle   \* nothing else is half-way
Faulty == mishaps < MaxMishaps /\ mishaps' = mishaps + 1 \* a crash, a refusal, a suspension
Holds == UNCHANGED mishaps

SubInit ==
  /\ today = 0 /\ sub = NoSub
  /\ room = [active |-> TRUE, hold |-> FALSE, only |-> Never]
  /\ billed = [p \in Pay |-> "none"] /\ refunded = {}
  /\ gpay = [p \in Pay |-> [status |-> "none", kind |-> NoId, by |-> NoId]]
  /\ live = {} /\ lost = {}
  /\ hand = [h \in Handler |-> Idle]
  /\ honoured = [p \in Pay |-> 0] /\ acked = {} /\ mishaps = 0

money == <<billed, refunded, gpay, honoured, acked>>
ours == <<sub, room>>

(* _hold, _release, _proposals_only *)
Held(r) == [r EXCEPT !.active = FALSE, !.hold = TRUE]
\* A slip: the newsroom works again, on proposals only.
ReleasedOnly(r) == [r EXCEPT !.active = @ \/ r.hold, !.hold = FALSE]
Released(r) == [r EXCEPT !.active = @ \/ r.hold, !.hold = FALSE, !.only = Never]
OnlyFrom(r, day) == [r EXCEPT !.only = day]

-----------------------------------------------------------------------------
(* What people do.                                                         *)

(* update_newsroom: the operator suspends a newsroom or lets it work. *)
SetActive(b) ==
  /\ Undisturbed /\ Faulty /\ room.active # b /\ room' = [room EXCEPT !.active = b]
  /\ UNCHANGED <<today, sub, money, live, lost, hand>>

(* start: a plan with a trial begins it, any other is active until a date  *)
(* or open-ended; another provider than Mollie stops Mollie's renewals.    *)
\* A slip: the row forgets the gateway's subscription without cancelling it.
LeaveIt(s) == {}
Leave(s) == IF s.provider = "mollie" /\ s.psid # NoId /\ s.status # "canceled" THEN {s.psid} ELSE {}

Start(plan, provider, until) ==
  /\ Undisturbed
  /\ LET kept == IF until # Never THEN until ELSE IF sub.periodEnd > today THEN sub.periodEnd ELSE Never
         away == sub.status # "none" /\ sub.provider # provider
     IN /\ sub' = [status |-> IF plan = "trial" THEN "trialing" ELSE "active", provider |-> provider,
                   psid |-> IF away /\ sub.provider = "mollie" THEN NoId ELSE sub.psid,
                   trialEnd |-> IF plan = "trial" THEN today + Trial ELSE Never,
                   periodEnd |-> IF plan = "trial" THEN Never ELSE kept,
                   reminded |-> FALSE]
        /\ live' = live \ (IF away THEN Leave(sub) ELSE {})
        /\ room' = IF until = Never \/ until > today \/ plan = "trial" THEN Released(room) ELSE room
  /\ UNCHANGED <<today, money, lost, hand, mishaps>>

(* record_payment: a bank transfer makes the plan active for one interval. *)
RecordPayment ==
  /\ Undisturbed /\ sub.status # "none" /\ sub.periodEnd <= MaxDay
  /\ sub' = [sub EXCEPT !.status = "active", !.periodEnd = Later(sub.periodEnd, today) + Period,
                        !.trialEnd = Never,
                        !.provider = IF @ = "mollie" THEN "manual" ELSE @,
                        !.psid = IF sub.provider = "mollie" THEN NoId ELSE @]
  /\ live' = live \ Leave(sub)
  /\ room' = Released(room)
  /\ UNCHANGED <<today, money, lost, hand, mishaps>>

Stopped(s) == IF s.provider = "mollie" /\ s.psid # NoId THEN {s.psid} ELSE {}
Canceled(s) == [s EXCEPT !.status = "canceled",
                         !.periodEnd = IF s.status = "trialing" THEN s.trialEnd ELSE @]

Cancel ==
  /\ Undisturbed /\ sub.status # "none"
  /\ live' = live \ Stopped(sub) /\ sub' = Canceled(sub)
  /\ UNCHANGED <<today, room, money, lost, hand, mishaps>>

(* refund: nothing more, no more renewals, or the newsroom stops now.        *)
Refund(p, then) ==
  /\ Undisturbed /\ billed[p] = "paid" /\ gpay[p].kind \in {"first", "recurring"} /\ p \notin refunded
  /\ refunded' = refunded \cup {p}
  /\ LET stop == then \in {"renewals", "now"} /\ sub.status # "canceled"
         after == IF stop THEN Canceled(sub) ELSE sub
     IN /\ live' = IF stop THEN live \ Stopped(sub) ELSE live
        /\ sub' = IF then = "now" THEN [after EXCEPT !.status = "expired", !.periodEnd = today] ELSE after
        /\ room' = IF then = "now" THEN Held(room) ELSE room
  /\ UNCHANGED <<today, billed, gpay, honoured, acked, lost, hand, mishaps>>

(* checkout, buy_credits: the payment is opened and its row written.          *)
Checkout(p, kind) ==
  /\ Undisturbed /\ sub.status # "none" /\ gpay[p].status = "none"
  /\ kind = "first" => sub.provider # "reseller"
  /\ billed' = [billed EXCEPT ![p] = "open"]
  /\ gpay' = [gpay EXCEPT ![p] = [status |-> "open", kind |-> kind, by |-> NoId]]
  /\ UNCHANGED <<today, ours, refunded, live, lost, hand, honoured, acked, mishaps>>

(* The gateway: a checkout ends, a live subscription charges its renewal.  *)
GatewaySettles(p, status) ==
  /\ gpay[p].status = "open"
  /\ gpay' = [gpay EXCEPT ![p].status = status]
  /\ UNCHANGED <<today, ours, billed, refunded, live, lost, hand, honoured, acked, mishaps>>

GatewayRenews(p, g) ==
  /\ gpay[p].status = "none" /\ g \in live
  /\ gpay' = [gpay EXCEPT ![p] = [status |-> "open", kind |-> "recurring", by |-> g]]
  /\ UNCHANGED <<today, ours, billed, refunded, live, lost, hand, honoured, acked, mishaps>>

-----------------------------------------------------------------------------
(* gateway_event, one transaction at a time.                               *)

Known(p) == billed[p] # "none" \/ (gpay[p].by # NoId /\ gpay[p].by = sub.psid)

Answer(h, p, paid) ==
  /\ hand' = [hand EXCEPT ![h] = Idle]
  /\ acked' = IF paid THEN acked \cup {p} ELSE acked

\* A slip: only a settled row is taken for handled, not one that says paid.
UnchangedFailed(p) == billed[p] = "failed"
Unchanged(p) == billed[p] \in {gpay[p].status, "paid"}

(* The payment and our row of it are read; a renewal gets its row.         *)
Notice(h, p) ==
  /\ Undisturbed /\ hand[h] = Idle
  /\ gpay[p].status \notin {"none", "open"} /\ Known(p)
  /\ IF Unchanged(p)
     THEN acked' = (IF gpay[p].status = "paid" THEN acked \cup {p} ELSE acked) /\ UNCHANGED <<hand, billed>>
     ELSE /\ billed' = [billed EXCEPT ![p] = IF @ = "none" THEN "open" ELSE @]
          /\ hand' = [hand EXCEPT ![h] = [Idle EXCEPT !.step = "mark", !.pay = p]]
          /\ UNCHANGED acked
  /\ UNCHANGED <<today, ours, refunded, gpay, live, lost, honoured, mishaps>>

(* The row takes the gateway's status in a transaction of its own.         *)
Mark(h) ==
  /\ hand[h].step = "mark"
  /\ billed' = [billed EXCEPT ![hand[h].pay] = gpay[hand[h].pay].status]
  /\ hand' = [hand EXCEPT ![h].step = "read"]
  /\ UNCHANGED <<today, ours, refunded, gpay, live, lost, honoured, acked, mishaps>>

ReadSubscription(h) ==
  /\ hand[h].step = "read"
  /\ hand' = [hand EXCEPT ![h].step = "act", ![h].sub = sub]
  /\ UNCHANGED <<today, ours, money, live, lost, mishaps>>

Effect(p) == honoured' = [honoured EXCEPT ![p] = @ + 1]

Named == live \cup lost \cup {sub.psid} \cup {gpay[p].by : p \in Pay}  \* ids in use

(* A first payment: the old subscription is cancelled (a refusal is only   *)
(* logged) and the gateway opens the new one, or answers with an error.    *)
Open(h) ==
  LET s == hand[h].sub
      old == Stopped(s)
  IN /\ hand[h].step = "act" /\ gpay[hand[h].pay].kind = "first" /\ gpay[hand[h].pay].status = "paid"
     /\ \/ /\ \E g \in GwSub \ Named :
                /\ hand' = [hand EXCEPT ![h].step = "store", ![h].id = g]
                /\ \/ live' = (live \ old) \cup {g} /\ Holds /\ UNCHANGED lost
                   \/ old \cap live # {} /\ Faulty /\ live' = live \cup {g} /\ lost' = lost \cup old
        \/ /\ Faulty /\ live' = live \ old
           /\ hand' = [hand EXCEPT ![h] = Idle] /\ UNCHANGED lost
     /\ UNCHANGED <<today, ours, money>>

Store(h) ==
  /\ hand[h].step = "store"
  /\ sub' = [sub EXCEPT !.status = "active", !.provider = "mollie", !.psid = hand[h].id,
                        !.trialEnd = Never, !.periodEnd = today + Period]
  /\ room' = Released(room)
  /\ Effect(hand[h].pay)
  /\ Answer(h, hand[h].pay, TRUE)
  /\ UNCHANGED <<today, billed, refunded, gpay, live, lost, mishaps>>

(* A renewal adds an interval to the period read before; a failed one      *)
(* makes an active subscription late.                                      *)
Renew(h) ==
  /\ hand[h].step = "act" /\ gpay[hand[h].pay].kind = "recurring"
  /\ IF gpay[hand[h].pay].status = "paid"
     THEN /\ sub' = [sub EXCEPT !.status = "active",
                                !.periodEnd = Later(hand[h].sub.periodEnd, today) + Period]
          /\ room' = Released(room) /\ Effect(hand[h].pay) /\ Answer(h, hand[h].pay, TRUE)
     ELSE /\ sub' = [sub EXCEPT !.status = IF @ = "active" THEN "past_due" ELSE @]
          /\ Answer(h, hand[h].pay, FALSE) /\ UNCHANGED <<room, honoured>>
  /\ UNCHANGED <<today, billed, refunded, gpay, live, lost, mishaps>>

GrantCredits(h) ==
  /\ hand[h].step = "read" /\ gpay[hand[h].pay].kind = "credits" /\ gpay[hand[h].pay].status = "paid"
  /\ IF honoured[hand[h].pay] = 0 THEN Effect(hand[h].pay) ELSE UNCHANGED honoured
  /\ Answer(h, hand[h].pay, TRUE)
  /\ UNCHANGED <<today, ours, billed, refunded, gpay, live, lost, mishaps>>

NothingToDo(h) ==
  /\ hand[h].step \in {"read", "act"} /\ gpay[hand[h].pay].status # "paid"
  /\ gpay[hand[h].pay].kind = "recurring" => FALSE
  /\ hand' = [hand EXCEPT ![h] = Idle]
  /\ UNCHANGED <<today, ours, money, live, lost, mishaps>>

(* The process dies: what it had committed stays, the notice is answered   *)
(* with an error and comes again.                                          *)
Die(h) ==
  /\ hand[h] # Idle /\ Faulty
  /\ lost' = IF hand[h].step = "store" THEN lost \cup {hand[h].id} ELSE lost
  /\ hand' = [hand EXCEPT ![h] = Idle]
  /\ UNCHANGED <<today, ours, money, live>>

-----------------------------------------------------------------------------
(* lifecycle: the rows are read first, and written one by one after.       *)

Ends(s) == IF s.status = "trialing" THEN s.trialEnd ELSE s.periodEnd
Over(s, day) == Ends(s) # Never /\ Ends(s) + (IF s.status = "trialing" THEN 0 ELSE Grace) <= day

RoundReads(h) ==
  /\ Undisturbed /\ hand[h] = Idle /\ sub.status \notin {"none", "expired"}
  /\ Over(sub, today) \/ (sub.status = "trialing" /\ ~sub.reminded /\ sub.trialEnd - Remind <= today)
  /\ hand' = [hand EXCEPT ![h] = [Idle EXCEPT !.step = "round", !.sub = sub]]
  /\ UNCHANGED <<today, ours, money, live, lost, mishaps>>

RoundWrites(h) ==
  /\ hand[h].step = "round"
  /\ IF Over(hand[h].sub, today)
     THEN /\ sub' = [sub EXCEPT !.status = "expired"] /\ room' = OnlyFrom(room, today)
     ELSE /\ sub' = [sub EXCEPT !.reminded = TRUE] /\ UNCHANGED room
  /\ hand' = [hand EXCEPT ![h] = Idle]
  /\ UNCHANGED <<today, money, live, lost, mishaps>>

HoldReads(h) ==
  /\ Undisturbed /\ hand[h] = Idle
  /\ room.only # Never /\ room.only + PropOnly <= today
  /\ hand' = [hand EXCEPT ![h] = [Idle EXCEPT !.step = "stale"]]
  /\ UNCHANGED <<today, ours, money, live, lost, mishaps>>

HoldWrites(h) ==
  /\ hand[h].step = "stale"
  /\ room' = [Held(room) EXCEPT !.only = Never]
  /\ hand' = [hand EXCEPT ![h] = Idle]
  /\ UNCHANGED <<today, sub, money, live, lost, mishaps>>

NextDay ==
  /\ Undisturbed /\ today < MaxDay /\ today' = today + 1
  /\ UNCHANGED <<ours, money, live, lost, hand, mishaps>>

(* What each page offers: the owner's account, the API of the operator and *)
(* of resellers, the console, which leaves a reseller's newsroom to it.    *)
AccountPage == Cancel \/ \E p \in Pay, kind \in {"first", "credits"} : Checkout(p, kind)

Plans(provider) ==
  \E plan \in {"trial", "starter"}, until \in {Never, today + Period} : Start(plan, provider, until)

OperatorAPI == Cancel \/ RecordPayment \/ Plans("manual") \/ Plans("reseller")

ConsolePages ==
  \/ Cancel \/ RecordPayment
  \/ Plans(IF sub.provider = "reseller" THEN "reseller" ELSE "manual")
  \/ \E p \in Pay, then \in {"none", "renewals", "now"} : Refund(p, then)

Gateway ==
  \E p \in Pay :
    (\E status \in {"paid", "failed"} : GatewaySettles(p, status)) \/ (\E g \in GwSub : GatewayRenews(p, g))

Webhook ==
  \E h \in Handler :
    \/ \E p \in Pay : Notice(h, p)
    \/ Mark(h) \/ ReadSubscription(h) \/ Open(h) \/ Store(h) \/ Renew(h) \/ GrantCredits(h)
    \/ NothingToDo(h) \/ Die(h)

Lifecycle == \E h \in Handler : RoundReads(h) \/ RoundWrites(h) \/ HoldReads(h) \/ HoldWrites(h)

SubNext ==
  \/ AccountPage \/ OperatorAPI \/ ConsolePages \/ (\E b \in BOOLEAN : SetActive(b))
  \/ Gateway \/ Webhook \/ Lifecycle \/ NextDay

SubSpec == SubInit /\ [][SubNext]_subVars

-----------------------------------------------------------------------------
(* Every row holds what the code may write in it. *)
SubTypeOK ==
  /\ sub.status \in {"none", "trialing", "active", "past_due", "canceled", "expired"}
  /\ sub.provider \in {"manual", "mollie", "reseller"} /\ sub.psid \in GwSub \cup {NoId}
  /\ room \in [active : BOOLEAN, hold : BOOLEAN, only : Nat \cup {Never}]
  /\ billed \in [Pay -> {"none", "open", "paid", "failed"}] /\ live \subseteq GwSub

(* A payment takes effect at most once, however often its notice comes and *)
(* wherever the process handling one died (billing.gateway_event).         *)
HonouredOnce == \A p \in Pay : honoured[p] <= 1

(* A newsroom on trial, paid, late or cancelled works in full until the    *)
(* trial or the paid period ends: no round of the worker, refund or notice *)
(* leaves it stopped or on proposals only before (billing.lifecycle).      *)
RunsWhilePaid ==
  sub.status \in {"trialing", "active", "past_due", "canceled"} /\ Ends(sub) > today
    => ~room.hold /\ room.only = Never

(* The gateway renews nothing but the subscription on record, and nothing  *)
(* once it was cancelled or the newsroom pays elsewhere, save what a crash *)
(* or a refused cancellation left alive (billing._leave_the_gateway).      *)
RenewalsStop ==
  live \subseteq lost \cup {hand[h].id : h \in Handler}
    \cup (IF sub.provider = "mollie" /\ sub.status # "canceled" THEN {sub.psid} ELSE {})

(* commerce.py says a notice answered with an error makes the gateway try  *)
(* again, and the payment is read again then: so a paid payment whose      *)
(* notice was at last answered 200 has taken effect.                       *)
PaidIsHonoured == \A p \in acked : honoured[p] > 0
=============================================================================
