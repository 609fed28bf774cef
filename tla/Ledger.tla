------------------------------- MODULE Ledger -------------------------------
(***************************************************************************)
(* A newsroom's plan quota and its credits (credits.py, quotas.py): the    *)
(* transactions that count an article, a translation or a cover against    *)
(* the plan and pay for what goes beyond it, the grants that add credits,  *)
(* and the hourly alert.  The rows of credit_ledger are kept as the sums   *)
(* the code reads back from them.                                          *)
(***************************************************************************)
EXTENDS Integers, FiniteSets

CONSTANTS Worker,        \* the transactions that may be open at once
          Draft,         \* the articles covers are drawn for
          Payment,           \* the payments credits are granted for
          PlanRow,       \* the limits a tenant row may carry
          PriceList,     \* the price lists of the console
          Pack,          \* the credits of a grant
          FreeRedraws,   \* covers drawn again for free
          MaxChanges, MaxDrafts, MaxCovers, MaxExtra \* bounds of the exploration

NoOne == "no one"
Off == -1   \* credits_month is null: the newsroom does not use credits

ASSUME LedgerAssumption ==
  /\ PlanRow \subseteq [limit : Nat, month : Nat \cup {-1}, only : BOOLEAN]
  /\ PriceList \subseteq [{"article", "translation", "image"} -> Nat]
  /\ Pack \in Nat \ {0} /\ FreeRedraws \in Nat
  /\ NoOne \notin Worker

VARIABLES plan, prices,        \* the tenant row's limits; credit_prices
          drafts, within,      \* the month's articles; those the plan was said to include
          monthUsed, extra,    \* minus the month's negative deltas; the extra pool's sum
          rows, covers, paid,  \* per article: its "image" rows, its covers, those paid
          grants,              \* rows recorded with each payment's reference
          locker, txn,         \* who holds the quota lock; the open transactions
          alert,               \* tenants.credits_alert
          changes, topLimit     \* new months, plans and price lists so far; the largest limit a plan ever gave

ledgerVars == <<plan, prices, drafts, within, monthUsed, extra, rows, covers, paid, grants,
                locker, txn, alert, changes, topLimit>>

Closed == [step |-> "idle", op |-> "none", on |-> NoOne, limit |-> 0, payer |-> FALSE,
           cost |-> 0, month |-> 0, extra |-> 0, rows |-> 0]

MaxOf(a, b) == IF a > b THEN a ELSE b
MinOf(a, b) == IF a < b THEN a ELSE b

(* credits.state: what is left of the month's credits, then all that is left. *)
MonthLeft == MaxOf(0, plan.month - monthUsed)
Remaining == MonthLeft + MaxOf(0, extra)
CanPay(cost) == plan.month = Off \/ cost <= Remaining
Percent == IF plan.month > 0 THEN MinOf(100, (200 * monthUsed + plan.month) \div (2 * plan.month)) ELSE 0

(* cover_cost: the first cover and the free redraws cost nothing. *)
\* A slip: the cover being drawn not counted among the free ones.
CoverCostLate(d) == IF plan.month = Off \/ rows[d] <= FreeRedraws + 1 THEN 0 ELSE prices["image"]
CoverCost(d) == IF plan.month = Off \/ rows[d] <= FreeRedraws THEN 0 ELSE prices["image"]

LedgerInit ==
  /\ plan \in PlanRow /\ prices \in PriceList
  /\ drafts = 0 /\ within = 0 /\ monthUsed = 0 /\ extra = 0
  /\ rows = [d \in Draft |-> 0] /\ covers = [d \in Draft |-> 0] /\ paid = [d \in Draft |-> 0]
  /\ grants = [r \in Payment |-> 0]
  /\ locker = NoOne /\ txn = [w \in Worker |-> Closed]
  /\ alert = 0
  /\ changes = 0 /\ topLimit = plan.limit

tables == <<plan, prices, drafts, within, monthUsed, extra, rows, covers, paid, grants>>
console == <<alert, changes, topLimit>>

(* quotas.usage reads the tenant row, and only then takes the lock. *)
OpenArticle(w, op) ==
  /\ txn[w].step = "idle" /\ drafts < MaxDrafts
  /\ ~plan.only
  /\ txn' = [txn EXCEPT ![w] = [Closed EXCEPT !.step = "lock", !.op = op, !.limit = plan.limit,
                                              !.payer = plan.month # Off]]
  /\ UNCHANGED <<tables, locker, console>>

(* images.make asks that the cover can be paid; the drawing that follows   *)
(* is minutes long, so charge_cover counts again under the lock.           *)
OpenCover(w, d) ==
  /\ txn[w].step = "idle" /\ covers[d] < MaxCovers
  /\ CanPay(CoverCost(d))
  /\ txn' = [txn EXCEPT ![w] = [Closed EXCEPT !.step = "lock", !.op = "image", !.on = d]]
  /\ UNCHANGED <<tables, locker, console>>

OpenCorrection(w) ==
  /\ txn[w].step = "idle"
  /\ txn' = [txn EXCEPT ![w] = [Closed EXCEPT !.step = "lock", !.op = "correct", !.extra = Pack]]
  /\ UNCHANGED <<tables, locker, console>>

(* quotas.lock: the advisory lock, held until the transaction ends. *)
\* A slip: the lock of SQLite's single writer taken for granted.
LockShared == TRUE
LockFree == locker = NoOne

TakeLock(w) ==
  /\ txn[w].step = "lock" /\ LockFree
  /\ locker' = w
  /\ txn' = [txn EXCEPT ![w].step = "check"]
  /\ UNCHANGED <<tables, console>>

End(w) ==
  /\ locker' = IF locker = w THEN NoOne ELSE locker
  /\ txn' = [txn EXCEPT ![w] = Closed]

Rollback(w) == End(w) /\ UNCHANGED <<tables, console>>

(* quotas.check: past the limit the article goes on only if credits pay it. *)
CheckArticle(w) ==
  LET beyond == txn[w].limit - drafts < 1
  IN /\ txn[w].step = "check" /\ txn[w].op \in {"article", "translation"}
     /\ IF beyond /\ ~(txn[w].payer /\ CanPay(prices[txn[w].op]))
        THEN Rollback(w)
        ELSE /\ txn' = [txn EXCEPT ![w].step = IF beyond THEN "pay" ELSE "write",
                                   ![w].payer = beyond]
             /\ UNCHANGED <<tables, locker, console>>

CheckCover(w) ==
  /\ txn[w].step = "check" /\ txn[w].op = "image"
  /\ txn' = [txn EXCEPT ![w].step = IF CoverCost(txn[w].on) > 0 THEN "pay" ELSE "write",
                        ![w].rows = IF plan.month = Off THEN 0 ELSE 1]
  /\ UNCHANGED <<tables, locker, console>>

CheckCorrection(w) ==
  /\ txn[w].step = "check" /\ txn[w].op = "correct"
  /\ IF extra - txn[w].extra < 0
     THEN Rollback(w)
     ELSE /\ txn' = [txn EXCEPT ![w].step = "write"]
          /\ UNCHANGED <<tables, locker, console>>

(* credits.spend: the month's credits first, then the extra ones. *)
Spend(w) ==
  LET cost == IF plan.month = Off THEN 0 ELSE prices[txn[w].op]
      fromMonth == MinOf(cost, MonthLeft)
  IN /\ txn[w].step = "pay"
     /\ IF ~CanPay(cost)
        THEN Rollback(w)
        ELSE /\ txn' = [txn EXCEPT ![w].step = "write", ![w].cost = cost,
                                   ![w].month = fromMonth, ![w].extra = cost - fromMonth,
                                   ![w].rows = Cardinality({a \in {"m", "x"} :
                                      IF a = "m" THEN fromMonth > 0 ELSE cost > fromMonth})]
             /\ UNCHANGED <<tables, locker, console>>

(* The rows the transaction inserted become visible and the lock is let go.*)
(* A cover paid from both pools leaves two "image" rows, a free one one    *)
(* row of 0, and with credits off none.                                    *)
Commit(w) ==
  LET x == txn[w]
      counted == IF x.rows > 0 THEN 1 ELSE 0
      spent == IF x.cost > 0 THEN 1 ELSE 0
  IN /\ x.step = "write"
     /\ monthUsed' = monthUsed + x.month
     /\ extra' = extra - x.extra
     /\ IF x.op = "image"
        THEN /\ rows' = [rows EXCEPT ![x.on] = @ + x.rows]
             /\ covers' = [covers EXCEPT ![x.on] = @ + counted]
             /\ paid' = [paid EXCEPT ![x.on] = @ + spent]
             /\ UNCHANGED <<drafts, within>>
        ELSE /\ drafts' = IF x.op = "correct" THEN drafts ELSE drafts + 1
             /\ within' = IF x.op = "correct" \/ x.payer THEN within ELSE within + 1
             /\ UNCHANGED <<rows, covers, paid>>
     /\ End(w)
     /\ UNCHANGED <<plan, prices, grants, console>>

(* credits.grant of a payment looks for its reference and then inserts,    *)
(* without the lock.                                                       *)
GrantLook(w, r) ==
  /\ txn[w].step = "idle" /\ grants[r] = 0
  /\ txn' = [txn EXCEPT ![w] = [Closed EXCEPT !.step = "grant", !.op = "grant", !.on = r]]
  /\ UNCHANGED <<tables, locker, console>>

GrantPut(w) ==
  /\ txn[w].step = "grant" /\ extra + Pack <= MaxExtra
  /\ extra' = extra + Pack
  /\ grants' = [grants EXCEPT ![txn[w].on] = @ + 1]
  /\ txn' = [txn EXCEPT ![w] = Closed]
  /\ UNCHANGED <<plan, prices, drafts, within, monthUsed, rows, covers, paid, locker, console>>

(* The console changes the newsroom's plan, the price list; a month ends.  *)
SetPlan(p) ==
  /\ p # plan
  /\ plan' = p /\ topLimit' = MaxOf(topLimit, p.limit)
  /\ changes < MaxChanges /\ changes' = changes + 1
  /\ UNCHANGED <<prices, drafts, within, monthUsed, extra, rows, covers, paid, grants, locker, txn,
                 alert>>

SetPrices(l) ==
  /\ l # prices /\ prices' = l
  /\ changes < MaxChanges /\ changes' = changes + 1
  /\ UNCHANGED <<plan, drafts, within, monthUsed, extra, rows, covers, paid, grants, locker, txn,
                 alert, topLimit>>

NewMonth ==
  /\ changes < MaxChanges
  /\ changes' = changes + 1 /\ drafts' = 0 /\ within' = 0 /\ monthUsed' = 0
  /\ alert' = 0
  /\ UNCHANGED <<plan, prices, extra, rows, covers, paid, grants, locker, txn, topLimit>>

(* credits.alerts, hourly: the level the owners are told of.               *)
Level == IF Percent >= 100 THEN 100 ELSE IF Percent >= 80 THEN 80 ELSE 0

Alert ==
  /\ plan.month > 0 /\ Level > 0 /\ alert < Level
  /\ alert' = Level
  /\ UNCHANGED <<tables, locker, txn, changes, topLimit>>

LedgerNext ==
  \/ \E w \in Worker :
       \/ \E op \in {"article", "translation"} : OpenArticle(w, op)
       \/ \E d \in Draft : OpenCover(w, d)
       \/ OpenCorrection(w) \/ TakeLock(w)
       \/ CheckArticle(w) \/ CheckCover(w) \/ CheckCorrection(w)
       \/ Spend(w) \/ Commit(w) \/ GrantPut(w)
       \/ \E r \in Payment : GrantLook(w, r)
  \/ \E p \in PlanRow : SetPlan(p)
  \/ \E l \in PriceList : SetPrices(l)
  \/ NewMonth
  \/ Alert

LedgerSpec == LedgerInit /\ [][LedgerNext]_ledgerVars

-----------------------------------------------------------------------------
(* Every table holds what the code may write in it. *)
LedgerTypeOK ==
  /\ plan \in PlanRow /\ prices \in PriceList
  /\ drafts \in Nat /\ within \in Nat /\ monthUsed \in Nat /\ extra \in Int
  /\ rows \in [Draft -> Nat] /\ covers \in [Draft -> Nat] /\ paid \in [Draft -> Nat]
  /\ grants \in [Payment -> Nat] /\ locker \in Worker \cup {NoOne}
  /\ alert \in {0, 80, 100}

(* Two transactions open at once never spend the same credits: the extra   *)
(* pool, which no month refills, is never taken below zero, whatever       *)
(* articles, covers and corrections run beside each other (credits.spend). *)
NeverOverdrawn == extra >= 0

(* What costs nothing is counted exactly: the articles of a month that     *)
(* credits were not asked for stay within the largest limit a plan ever    *)
(* gave, and an article's free covers are its first and the free redraws,  *)
(* however many run at the same time (quotas.check, charge_cover).         *)
CountedAgainstPlan ==
  /\ within <= topLimit
  /\ (\A l \in PriceList : l["image"] > 0) => \A d \in Draft : covers[d] - paid[d] <= FreeRedraws + 1
=============================================================================
