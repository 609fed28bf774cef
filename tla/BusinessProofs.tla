--------------------------- MODULE BusinessProofs ---------------------------
(***************************************************************************)
(* What sells and limits the service and who manages it, for every value   *)
(* of the constants: the credits, the subscriptions, the signups, the      *)
(* accounts and the Core's limits of a tenant, one after the other, and    *)
(* the five together.                                                      *)
(***************************************************************************)
EXTENDS MCBusiness, TLAPS, FiniteSetTheorems

-----------------------------------------------------------------------------
(***************************************************************************)
(* The credits of a newsroom are never overdrawn, and what costs nothing   *)
(* stays within its plan, for any number of transactions, articles, plans  *)
(* and price lists.                                                        *)
(***************************************************************************)

Pieces == {"article", "translation"}
Priced == Pieces \cup {"image"}
Transaction == [step : {"idle", "lock", "check", "pay", "write", "grant"},
                op : Priced \cup {"none", "correct", "grant"},
                on : Draft \cup Payment \cup {NoOne}, limit : Nat, payer : BOOLEAN,
                cost : Nat, month : Nat, extra : Nat, rows : Nat]

\* No price list gives covers away.
AllPriced == \A l \in PriceList : l["image"] > 0

(***************************************************************************)
(* The inductive invariant.                                                *)
(***************************************************************************)

LedgerTyped == LedgerTypeOK /\ topLimit \in Nat /\ txn \in [Worker -> Transaction]

\* A transaction that counts or pays holds the lock.
LockHeld(w) == txn[w].step \in {"check", "pay", "write"} => locker = w

\* What it read, and has yet to pay, is what it opened with.
AsOpened(w) ==
  /\ txn[w].op \in Pieces => txn[w].limit <= topLimit
  /\ txn[w].op = "image" => txn[w].on \in Draft
  /\ txn[w].op = "grant" => txn[w].on \in Payment
  /\ txn[w].step = "grant" => txn[w].op = "grant"
  /\ txn[w].step = "pay" => txn[w].op \in Priced /\ (txn[w].op \in Pieces => txn[w].payer)
  /\ txn[w].step \in {"lock", "check"} /\ txn[w].op # "correct" => txn[w].cost = 0 /\ txn[w].extra = 0

\* What it is about to write is still allowed: nothing it counted changes
\* for the worse while it holds the lock.
LedgerCovered(w) ==
  txn[w].step = "write" =>
    /\ txn[w].op \in Priced \cup {"correct"}
    /\ txn[w].extra <= extra
    /\ txn[w].op \in Pieces /\ ~txn[w].payer => drafts < txn[w].limit
    /\ txn[w].op = "image" => /\ txn[w].cost > 0 => txn[w].rows > 0
                              /\ AllPriced /\ txn[w].rows > 0 /\ txn[w].cost = 0 => rows[txn[w].on] <= FreeRedraws

\* What the tables have counted so far.
Totals ==
  /\ NeverOverdrawn /\ CountedAgainstPlan
  /\ plan.limit <= topLimit /\ within <= drafts
  /\ AllPriced => \A d \in Draft : covers[d] - paid[d] <= rows[d]

LedgerIInv == LedgerTyped /\ Totals /\ \A w \in Worker : LockHeld(w) /\ AsOpened(w) /\ LedgerCovered(w)

-----------------------------------------------------------------------------
USE LedgerAssumption

LEMMA LedgerInitHolds == LedgerInit => LedgerIInv
  <1> SUFFICES ASSUME LedgerInit PROVE LedgerIInv  OBVIOUS
  <1> USE DEF LedgerInit, Closed
  <1>1. plan.limit \in Nat  BY DEF LedgerInit
  <1>2. LedgerTyped
    <2>1. txn \in [Worker -> Transaction]
      <3>1. Closed \in Transaction  BY DEF Closed, Transaction, Priced, Pieces
      <3>2. QED  BY <3>1
    <2>2. LedgerTypeOK  BY DEF LedgerTypeOK
    <2>3. QED  BY <1>1, <2>1, <2>2 DEF LedgerTyped
  <1>3. Totals
    BY <1>1 DEF Totals, NeverOverdrawn, CountedAgainstPlan, AllPriced
  <1>4. ASSUME NEW w \in Worker PROVE LockHeld(w) /\ AsOpened(w) /\ LedgerCovered(w)
    BY DEF LockHeld, AsOpened, LedgerCovered, Pieces, Priced
  <1>5. QED  BY <1>2, <1>3, <1>4 DEF LedgerIInv

\* A step of one transaction that leaves the tables alone, and the lock free,
\* as it is, or let go by the one that had it.
LEMMA TxnStep ==
  ASSUME LedgerIInv, UNCHANGED tables, UNCHANGED console,
         NEW w \in Worker, NEW t \in Transaction,
         txn' = [txn EXCEPT ![w] = t],
         locker' \in Worker \cup {NoOne},
         locker' = locker \/ locker \in {NoOne, w},
         LockHeld(w)', AsOpened(w)', LedgerCovered(w)'
  PROVE  LedgerIInv'
  <1> USE DEF LedgerIInv, tables, console
  <1>1. LedgerTyped'  BY DEF LedgerTyped, LedgerTypeOK
  <1>2. Totals'  BY DEF Totals, NeverOverdrawn, CountedAgainstPlan
  <1>3. ASSUME NEW v \in Worker PROVE LockHeld(v)' /\ AsOpened(v)' /\ LedgerCovered(v)'
    <2>1. CASE v = w  BY <2>1
    <2>2. CASE v # w
      <3>1. txn'[v] = txn[v]  BY <2>2 DEF LedgerTyped
      <3>2. LockHeld(v)'  BY <2>2, <3>1 DEF LockHeld
      <3>3. AsOpened(v)'  BY <3>1 DEF AsOpened
      <3>4. LedgerCovered(v)'  BY <3>1 DEF LedgerCovered
      <3>5. QED  BY <3>2, <3>3, <3>4
    <2>3. QED  BY <2>1, <2>2
  <1>4. QED  BY <1>1, <1>2, <1>3

\* A transaction that ends, or is rolled back.
LEMMA Ended ==
  ASSUME LedgerIInv, NEW w \in Worker, Rollback(w)
  PROVE  LedgerIInv'
  <1>1. Closed \in Transaction  BY DEF Closed, Transaction, Priced, Pieces
  <1>2. txn' = [txn EXCEPT ![w] = Closed] /\ UNCHANGED tables /\ UNCHANGED console
    BY DEF Rollback, End
  <1>3. locker' \in Worker \cup {NoOne} /\ (locker' = locker \/ locker \in {NoOne, w})
    BY DEF Rollback, End, LedgerIInv, LedgerTyped, LedgerTypeOK
  <1>4. txn'[w] = Closed  BY <1>2 DEF LedgerIInv, LedgerTyped
  <1>5. LockHeld(w)' /\ AsOpened(w)' /\ LedgerCovered(w)'
    BY <1>4 DEF Closed, LockHeld, AsOpened, LedgerCovered, Pieces, Priced
  <1>6. QED  BY <1>1, <1>2, <1>3, <1>5, TxnStep

(***************************************************************************)
(* The steps of a transaction before it commits.                           *)
(***************************************************************************)

\* One that opens, and has not counted anything yet.
LEMMA Opens ==
  ASSUME LedgerIInv, NEW w \in Worker, NEW t \in Transaction,
         UNCHANGED <<tables, locker, console>>, txn' = [txn EXCEPT ![w] = t],
         t.step \in {"lock", "grant"}, t.step = "grant" => t.op = "grant",
         t.op \in Pieces => t.limit <= topLimit,
         t.op = "image" => t.on \in Draft, t.op = "grant" => t.on \in Payment,
         t.op # "correct" => t.cost = 0 /\ t.extra = 0
  PROVE  LedgerIInv'
  <1>1. UNCHANGED tables /\ UNCHANGED console /\ locker' = locker  OBVIOUS
  <1>2. locker' \in Worker \cup {NoOne}  BY DEF LedgerIInv, LedgerTyped, LedgerTypeOK
  <1>3. txn'[w] = t  BY DEF LedgerIInv, LedgerTyped
  <1>4. LockHeld(w)' /\ LedgerCovered(w)'  BY <1>3 DEF LockHeld, LedgerCovered
  <1>5. AsOpened(w)'  BY <1>3 DEF AsOpened, console
  <1>6. QED  BY <1>1, <1>2, <1>4, <1>5, TxnStep

LEMMA OpenArticleStep ==
  ASSUME LedgerIInv, NEW w \in Worker, NEW op \in Pieces, OpenArticle(w, op)
  PROVE  LedgerIInv'
  <1> DEFINE t == [Closed EXCEPT !.step = "lock", !.op = op, !.limit = plan.limit, !.payer = plan.month # Off]
  <1>1. plan.limit \in Nat /\ plan.limit <= topLimit  BY DEF LedgerIInv, LedgerTyped, LedgerTypeOK, Totals
  <1>2. (plan.month # Off) \in BOOLEAN  OBVIOUS
  <1>3. t \in Transaction  BY <1>1, <1>2 DEF Closed, Transaction, Priced, Pieces
  <1>4. t.step = "lock" /\ t.op = op /\ t.limit = plan.limit /\ t.cost = 0 /\ t.extra = 0  BY DEF Closed
  <1>5. txn' = [txn EXCEPT ![w] = t] /\ UNCHANGED <<tables, locker, console>>  BY DEF OpenArticle
  <1> HIDE DEF t
  <1>6. QED  BY <1>1, <1>3, <1>4, <1>5, Opens DEF Pieces

LEMMA OpenCoverStep ==
  ASSUME LedgerIInv, NEW w \in Worker, NEW d \in Draft, OpenCover(w, d)
  PROVE  LedgerIInv'
  <1> DEFINE t == [Closed EXCEPT !.step = "lock", !.op = "image", !.on = d]
  <1>1. t \in Transaction  BY DEF Closed, Transaction, Priced, Pieces
  <1>2. t.step = "lock" /\ t.op = "image" /\ t.on = d /\ t.cost = 0 /\ t.extra = 0  BY DEF Closed
  <1>3. txn' = [txn EXCEPT ![w] = t] /\ UNCHANGED <<tables, locker, console>>  BY DEF OpenCover
  <1> HIDE DEF t
  <1>4. QED  BY <1>1, <1>2, <1>3, Opens DEF Pieces

LEMMA OpenCorrectionStep ==
  ASSUME LedgerIInv, NEW w \in Worker, OpenCorrection(w)
  PROVE  LedgerIInv'
  <1> DEFINE t == [Closed EXCEPT !.step = "lock", !.op = "correct", !.extra = Pack]
  <1>1. t \in Transaction  BY DEF Closed, Transaction, Priced, Pieces
  <1>2. t.step = "lock" /\ t.op = "correct"  BY DEF Closed
  <1>3. txn' = [txn EXCEPT ![w] = t] /\ UNCHANGED <<tables, locker, console>>  BY DEF OpenCorrection
  <1> HIDE DEF t
  <1>4. QED  BY <1>1, <1>2, <1>3, Opens DEF Pieces

LEMMA GrantLookStep ==
  ASSUME LedgerIInv, NEW w \in Worker, NEW r \in Payment, GrantLook(w, r)
  PROVE  LedgerIInv'
  <1> DEFINE t == [Closed EXCEPT !.step = "grant", !.op = "grant", !.on = r]
  <1>1. t \in Transaction  BY DEF Closed, Transaction, Priced, Pieces
  <1>2. t.step = "grant" /\ t.op = "grant" /\ t.on = r /\ t.cost = 0 /\ t.extra = 0  BY DEF Closed
  <1>3. txn' = [txn EXCEPT ![w] = t] /\ UNCHANGED <<tables, locker, console>>  BY DEF GrantLook
  <1> HIDE DEF t
  <1>4. QED  BY <1>1, <1>2, <1>3, Opens DEF Pieces

LEMMA TakeLockStep ==
  ASSUME LedgerIInv, NEW w \in Worker, TakeLock(w)
  PROVE  LedgerIInv'
  <1> DEFINE t == [txn[w] EXCEPT !.step = "check"]
  <1>1. txn[w] \in Transaction /\ txn[w].step = "lock"  BY DEF LedgerIInv, LedgerTyped, TakeLock
  <1>2. t \in Transaction  BY <1>1 DEF Transaction
  <1>3. t.step = "check" /\ t.op = txn[w].op /\ t.limit = txn[w].limit /\ t.on = txn[w].on
        /\ t.cost = txn[w].cost /\ t.extra = txn[w].extra  BY <1>1 DEF Transaction
  <1>4. /\ UNCHANGED tables /\ UNCHANGED console /\ locker' = w
        /\ txn' = [txn EXCEPT ![w] = t]
    BY DEF TakeLock, tables, console
  <1> HIDE DEF t
  <1>5. txn'[w] = t  BY <1>4 DEF LedgerIInv, LedgerTyped
  <1>6. LockHeld(w)' /\ LedgerCovered(w)'  BY <1>3, <1>4, <1>5 DEF LockHeld, LedgerCovered
  <1>7. AsOpened(w)'  BY <1>1, <1>3, <1>4, <1>5 DEF AsOpened, LedgerIInv, console
  <1>8. locker' \in Worker \cup {NoOne} /\ (locker' = locker \/ locker \in {NoOne, w})
    BY <1>4 DEF TakeLock, LockFree
  <1>9. QED  BY <1>2, <1>4, <1>6, <1>7, <1>8, TxnStep

\* One that holds the lock goes on with it.
LEMMA GoesOn ==
  ASSUME LedgerIInv, NEW w \in Worker, NEW t \in Transaction,
         txn[w].step \in {"check", "pay"}, t.step \in {"pay", "write"},
         UNCHANGED <<tables, locker, console>>, txn' = [txn EXCEPT ![w] = t],
         t.op = txn[w].op, t.limit = txn[w].limit, t.on = txn[w].on,
         t.op \in Priced \cup {"correct"},
         t.step = "pay" => t.op \in Priced /\ (t.op \in Pieces => t.payer),
         t.step = "write" =>
           /\ t.extra <= extra
           /\ t.op \in Pieces /\ ~t.payer => drafts < t.limit
           /\ t.op = "image" => /\ t.cost > 0 => t.rows > 0
                                /\ AllPriced /\ t.rows > 0 /\ t.cost = 0 => rows[t.on] <= FreeRedraws
  PROVE  LedgerIInv'
  <1>1. UNCHANGED tables /\ UNCHANGED console /\ locker' = locker  OBVIOUS
  <1>2. locker' \in Worker \cup {NoOne}  BY DEF LedgerIInv, LedgerTyped, LedgerTypeOK
  <1>3. txn'[w] = t  BY DEF LedgerIInv, LedgerTyped
  <1>4. LockHeld(w)'  BY <1>3 DEF LockHeld, LedgerIInv
  <1>5. AsOpened(w)'  BY <1>3 DEF AsOpened, LedgerIInv, console
  <1>6. LedgerCovered(w)'  BY <1>3 DEF LedgerCovered, tables
  <1>7. QED  BY <1>1, <1>2, <1>4, <1>5, <1>6, TxnStep

LEMMA CheckArticleStep ==
  ASSUME LedgerIInv, NEW w \in Worker, CheckArticle(w)
  PROVE  LedgerIInv'
  <1> DEFINE beyond == txn[w].limit - drafts < 1
             t == [txn[w] EXCEPT !.step = IF beyond THEN "pay" ELSE "write", !.payer = beyond]
  <1>1. /\ txn[w] \in Transaction /\ txn[w].step = "check" /\ txn[w].op \in Pieces
        /\ drafts \in Nat /\ extra >= 0 /\ AsOpened(w)
    BY DEF LedgerIInv, LedgerTyped, LedgerTypeOK, Totals, NeverOverdrawn, CheckArticle, Pieces
  <1>2. CASE Rollback(w)  BY <1>2, Ended
  <1>3. CASE txn' = [txn EXCEPT ![w].step = IF beyond THEN "pay" ELSE "write", ![w].payer = beyond]
             /\ UNCHANGED <<tables, locker, console>>
    <2>1. txn' = [txn EXCEPT ![w] = t]  BY <1>3 DEF LedgerIInv, LedgerTyped
    <2>2. beyond \in BOOLEAN  OBVIOUS
    <2>3. t \in Transaction  BY <1>1, <2>2 DEF Transaction
    <2>4. /\ t.step = (IF beyond THEN "pay" ELSE "write") /\ t.payer = beyond
          /\ t.op = txn[w].op /\ t.limit = txn[w].limit /\ t.on = txn[w].on /\ t.extra = txn[w].extra
      BY <1>1 DEF Transaction
    <2>5. txn[w].limit \in Nat  BY <1>1 DEF Transaction
    <2> HIDE DEF t
    <2>6. t.step \in {"pay", "write"} /\ t.op \in Priced  BY <1>1, <2>4 DEF Priced
    <2>7. t.extra <= extra  BY <1>1, <2>4 DEF AsOpened, Pieces
    <2>8. t.step = "write" /\ t.op \in Pieces /\ ~t.payer => drafts < t.limit  BY <1>1, <2>4, <2>5
    <2>9. t.op # "image" /\ (t.step = "pay" => t.payer)  BY <1>1, <2>4 DEF Pieces
    <2>10. t.op = txn[w].op /\ t.limit = txn[w].limit /\ t.on = txn[w].on  BY <2>4
    <2> HIDE DEF beyond
    <2>11. t.op \in Priced \cup {"correct"}  BY <2>6
    <2>12. QED  BY <2>11, <1>1, <1>3, <2>1, <2>3, <2>6, <2>7, <2>8, <2>9, <2>10, GoesOn
  <1>4. QED  BY <1>2, <1>3 DEF CheckArticle

LEMMA CheckCorrectionStep ==
  ASSUME LedgerIInv, NEW w \in Worker, CheckCorrection(w)
  PROVE  LedgerIInv'
  <1> DEFINE t == [txn[w] EXCEPT !.step = "write"]
  <1>1. txn[w] \in Transaction /\ txn[w].step = "check" /\ txn[w].op = "correct" /\ extra \in Int
    BY DEF LedgerIInv, LedgerTyped, LedgerTypeOK, CheckCorrection
  <1>2. CASE Rollback(w)  BY <1>2, Ended
  <1>3. CASE ~(extra - txn[w].extra < 0) /\ txn' = [txn EXCEPT ![w].step = "write"]
             /\ UNCHANGED <<tables, locker, console>>
    <2>1. txn' = [txn EXCEPT ![w] = t]  BY <1>3 DEF LedgerIInv, LedgerTyped
    <2>2. t \in Transaction  BY <1>1 DEF Transaction
    <2>3. /\ t.step = "write" /\ t.op = txn[w].op /\ t.limit = txn[w].limit /\ t.on = txn[w].on
          /\ t.extra = txn[w].extra
      BY <1>1 DEF Transaction
    <2>4. txn[w].extra \in Nat  BY <1>1 DEF Transaction
    <2> HIDE DEF t
    <2>5. t.extra <= extra  BY <1>1, <1>3, <2>3, <2>4
    <2>6. t.op \notin Pieces /\ t.op # "image"  BY <1>1, <2>3 DEF Pieces
    <2>7. t.op \in Priced \cup {"correct"}  BY <1>1, <2>3
    <2>8. QED  BY <1>1, <1>3, <2>1, <2>2, <2>3, <2>5, <2>6, <2>7, GoesOn
  <1>4. QED  BY <1>2, <1>3 DEF CheckCorrection

\* A cover costs nothing only among the free ones, or without credits.
LEMMA FreeCover ==
  ASSUME LedgerIInv, NEW d \in Draft, AllPriced, plan.month # Off, ~(CoverCost(d) > 0)
  PROVE  rows[d] <= FreeRedraws
  <1>1. prices \in PriceList  BY DEF LedgerIInv, LedgerTyped, LedgerTypeOK
  <1>2. prices["image"] > 0  BY <1>1 DEF AllPriced
  <1>3. QED  BY <1>2 DEF CoverCost

LEMMA CheckCoverStep ==
  ASSUME LedgerIInv, NEW w \in Worker, CheckCover(w)
  PROVE  LedgerIInv'
  <1> DEFINE counted == IF plan.month = Off THEN 0 ELSE 1
             t == [txn[w] EXCEPT !.step = IF CoverCost(txn[w].on) > 0 THEN "pay" ELSE "write", !.rows = counted]
  <1>1. /\ txn[w] \in Transaction /\ txn[w].step = "check" /\ txn[w].op = "image" /\ txn[w].on \in Draft
        /\ extra >= 0 /\ txn[w].extra = 0 /\ txn[w].cost = 0
    BY DEF LedgerIInv, LedgerTyped, Totals, NeverOverdrawn, CheckCover, AsOpened
  <1>2. txn' = [txn EXCEPT ![w] = t] /\ UNCHANGED <<tables, locker, console>>
    BY DEF LedgerIInv, LedgerTyped, CheckCover
  <1>3. counted \in Nat /\ (counted > 0 => plan.month # Off)  OBVIOUS
  <1>4. t \in Transaction  BY <1>1, <1>3 DEF Transaction
  <1>5. /\ t.step = (IF CoverCost(txn[w].on) > 0 THEN "pay" ELSE "write")
        /\ t.op = txn[w].op /\ t.limit = txn[w].limit /\ t.on = txn[w].on
        /\ t.extra = txn[w].extra /\ t.cost = txn[w].cost /\ t.rows = counted
    BY <1>1 DEF Transaction
  <1> HIDE DEF t, counted
  <1>6. t.step \in {"pay", "write"} /\ t.op \in Priced /\ t.op \notin Pieces
    BY <1>1, <1>5 DEF Priced, Pieces
  <1>7. t.extra <= extra /\ ~(t.cost > 0)  BY <1>1, <1>5
  <1>8. t.step = "write" /\ AllPriced /\ t.rows > 0 => rows[t.on] <= FreeRedraws
    BY <1>1, <1>3, <1>5, FreeCover
  <1>9. t.op = txn[w].op /\ t.limit = txn[w].limit /\ t.on = txn[w].on  BY <1>5
  <1>10. t.op \in Priced \cup {"correct"}  BY <1>6
  <1>11. QED  BY <1>10, <1>1, <1>2, <1>4, <1>6, <1>7, <1>8, <1>9, GoesOn

\* What credits.spend takes from each pool: never more than the extra one has.
LEMMA Split ==
  ASSUME LedgerIInv, NEW cost \in Nat, CanPay(cost), plan.month = Off => cost = 0
  PROVE  /\ MinOf(cost, MonthLeft) \in Nat /\ cost - MinOf(cost, MonthLeft) \in Nat
         /\ cost - MinOf(cost, MonthLeft) <= extra
  <1>1. monthUsed \in Nat /\ extra \in Int /\ extra >= 0 /\ plan.month \in Int
    BY DEF LedgerIInv, LedgerTyped, LedgerTypeOK, Totals, NeverOverdrawn
  <1>2. MonthLeft \in Nat  BY <1>1 DEF MonthLeft, MaxOf
  <1>3. plan.month = Off \/ cost <= MonthLeft + extra  BY <1>1, <1>2 DEF CanPay, Remaining, MaxOf
  <1>4. QED  BY <1>1, <1>2, <1>3 DEF MinOf

LEMMA RowsOfSpend ==
  ASSUME NEW cost \in Nat, NEW m \in Nat, m <= cost
  PROVE  /\ Cardinality({a \in {"m", "x"} : IF a = "m" THEN m > 0 ELSE cost > m}) \in Nat
         /\ cost > 0 => Cardinality({a \in {"m", "x"} : IF a = "m" THEN m > 0 ELSE cost > m}) > 0
         /\ cost = 0 => Cardinality({a \in {"m", "x"} : IF a = "m" THEN m > 0 ELSE cost > m}) = 0
  <1> DEFINE R == {a \in {"m", "x"} : IF a = "m" THEN m > 0 ELSE cost > m}
  <1>1. IsFiniteSet({"m", "x"})
    <2>1. IsFiniteSet({"m"}) /\ IsFiniteSet({"x"})  BY FS_Singleton
    <2>2. IsFiniteSet({"m"} \cup {"x"})  BY <2>1, FS_AddElement, FS_Union
    <2>3. {"m", "x"} = {"m"} \cup {"x"}  OBVIOUS
    <2>4. QED  BY <2>2, <2>3
  <1>2. R \subseteq {"m", "x"}  OBVIOUS
  <1>3. IsFiniteSet(R)  BY <1>1, <1>2, FS_Subset
  <1>4. Cardinality(R) \in Nat  BY <1>3, FS_CardinalityType
  <1>5. ASSUME cost > 0 PROVE Cardinality(R) > 0
    <2>1. "m" \in R \/ "x" \in R  BY <1>5
    <2>2. R # {}  BY <2>1
    <2>3. QED  BY <1>3, <1>4, <2>2, FS_EmptySet
  <1>6. ASSUME cost = 0 PROVE Cardinality(R) = 0
    <2>1. R = {}  BY <1>6
    <2>2. QED  BY <2>1, FS_EmptySet
  <1>7. QED  BY <1>4, <1>5, <1>6

LEMMA SpendStep ==
  ASSUME LedgerIInv, NEW w \in Worker, Spend(w)
  PROVE  LedgerIInv'
  <1> DEFINE cost == IF plan.month = Off THEN 0 ELSE prices[txn[w].op]
             m == MinOf(cost, MonthLeft)
             n == Cardinality({a \in {"m", "x"} : IF a = "m" THEN m > 0 ELSE cost > m})
             t == [txn[w] EXCEPT !.step = "write", !.cost = cost, !.month = m, !.extra = cost - m, !.rows = n]
  <1>1. /\ txn[w] \in Transaction /\ txn[w].step = "pay" /\ txn[w].op \in Priced
    BY DEF LedgerIInv, LedgerTyped, Spend, AsOpened
  <1>2. prices \in [Priced -> Nat]
    <2>1. prices \in [{"article", "translation", "image"} -> Nat]  BY DEF LedgerIInv, LedgerTyped, LedgerTypeOK
    <2>2. Priced = {"article", "translation", "image"}  BY DEF Priced, Pieces
    <2>3. QED  BY <2>1, <2>2
  <1>3. cost \in Nat /\ (plan.month = Off => cost = 0)  BY <1>1, <1>2
  <1>4. CASE Rollback(w)  BY <1>4, Ended
  <1>5. CASE CanPay(cost) /\ txn' = [txn EXCEPT ![w].step = "write", ![w].cost = cost, ![w].month = m,
                                                ![w].extra = cost - m, ![w].rows = n]
             /\ UNCHANGED <<tables, locker, console>>
    <2>1. txn' = [txn EXCEPT ![w] = t]
      <3> HIDE DEF cost, m, n
      <3>1. QED  BY <1>5 DEF LedgerIInv, LedgerTyped
    <2> HIDE DEF cost
    <2>2. m \in Nat /\ cost - m \in Nat /\ cost - m <= extra  BY <1>3, <1>5, Split
    <2> HIDE DEF m
    <2>3. m <= cost  BY <1>3, <2>2
    <2>4. n \in Nat /\ (cost > 0 => n > 0) /\ (cost = 0 => n = 0)  BY <1>3, <2>2, <2>3, RowsOfSpend
    <2> HIDE DEF n
    <2>5. t \in Transaction  BY <1>1, <1>3, <2>2, <2>4 DEF Transaction
    <2>6. /\ t.step = "write" /\ t.op = txn[w].op /\ t.limit = txn[w].limit /\ t.on = txn[w].on
          /\ t.extra = cost - m /\ t.cost = cost /\ t.rows = n
      BY <1>1 DEF Transaction
    <2>7. t.payer = txn[w].payer  BY <1>1, Zenon DEF Transaction
    <2> HIDE DEF t
    <2>8. t.extra <= extra  BY <2>2, <2>6
    <2>9. t.op \in Pieces => t.payer  BY <1>1, <2>6, <2>7 DEF LedgerIInv, AsOpened
    <2>10. t.cost > 0 => t.rows > 0  BY <2>4, <2>6
    <2>11. t.cost = 0 => t.rows = 0  BY <2>4, <2>6
    <2>12. ~(t.rows > 0 /\ t.cost = 0)  BY <2>11
    <2>13. t.op \in Priced \cup {"correct"}  BY <1>1, <2>6
    <2>14. QED  BY <2>13, <1>1, <1>5, <2>1, <2>5, <2>6, <2>8, <2>9, <2>10, <2>12, GoesOn
  <1>6. QED  BY <1>4, <1>5 DEF Spend

(***************************************************************************)
(* The commits, and what the console and the calendar change.              *)
(***************************************************************************)

\* No two transactions hold the lock, so no other has counted anything.
LEMMA OnlyOneCounts ==
  ASSUME LedgerIInv, NEW w \in Worker, txn[w].step \in {"check", "pay", "write"},
         NEW v \in Worker, v # w
  PROVE  txn[v].step \notin {"check", "pay", "write"}
  BY DEF LedgerIInv, LockHeld

\* The tables change while no other transaction has counted on them.
LEMMA TablesStep ==
  ASSUME LedgerIInv, LedgerTyped', Totals', topLimit <= topLimit',
         \A w \in Worker : txn'[w] = txn[w] \/ txn'[w] = Closed,
         \A w \in Worker : LockHeld(w)' /\ LedgerCovered(w)'
  PROVE  LedgerIInv'
  <1>1. ASSUME NEW w \in Worker PROVE AsOpened(w)'
    <2>1. CASE txn'[w] = Closed  BY <2>1 DEF Closed, AsOpened, Pieces, Priced
    <2>2. CASE txn'[w] = txn[w]
      <3>1. txn[w].limit \in Nat  BY DEF LedgerIInv, LedgerTyped, Transaction
      <3>2. topLimit \in Nat /\ topLimit' \in Nat  BY DEF LedgerIInv, LedgerTyped
      <3>3. QED  BY <2>2, <3>1, <3>2 DEF LedgerIInv, AsOpened
    <2>3. QED  BY <2>1, <2>2
  <1>2. QED  BY <1>1 DEF LedgerIInv

LEMMA GrantPutStep ==
  ASSUME LedgerIInv, NEW w \in Worker, GrantPut(w)
  PROVE  LedgerIInv'
  <1> USE DEF GrantPut, console
  <1>1. Closed \in Transaction  BY DEF Closed, Transaction, Priced, Pieces
  <1>2. /\ txn \in [Worker -> Transaction] /\ extra \in Int /\ extra >= 0 /\ Pack \in Nat /\ txn[w].step = "grant"
        /\ txn[w].on \in Payment /\ grants \in [Payment -> Nat]
    BY DEF LedgerIInv, LedgerTyped, LedgerTypeOK, AsOpened, Totals, NeverOverdrawn
  <1>3. extra' \in Int /\ extra' >= extra  BY <1>2
  <1>4. LedgerTyped'
    <2>1. txn' \in [Worker -> Transaction]  BY <1>1, <1>2
    <2>2. grants' \in [Payment -> Nat]  BY <1>2
    <2>3. QED  BY <1>3, <2>1, <2>2 DEF LedgerIInv, LedgerTyped, LedgerTypeOK
  <1>5. Totals'  BY <1>2, <1>3 DEF LedgerIInv, Totals, NeverOverdrawn, CountedAgainstPlan
  <1>6. ASSUME NEW v \in Worker PROVE LockHeld(v)' /\ LedgerCovered(v)'
    <2>1. CASE v = w
      <3>1. txn'[v] = Closed  BY <1>2, <2>1
      <3>2. QED  BY <3>1 DEF Closed, LockHeld, LedgerCovered
    <2>2. CASE v # w
      <3>1. txn'[v] = txn[v]  BY <1>2, <2>2
      <3>2. txn[v].extra \in Nat  BY <1>2 DEF Transaction
      <3>3. QED  BY <1>2, <1>3, <3>1, <3>2 DEF LedgerIInv, LockHeld, LedgerCovered
    <2>3. QED  BY <2>1, <2>2
  <1>7. \A v \in Worker : txn'[v] = txn[v] \/ txn'[v] = Closed  BY <1>2
  <1>8. topLimit <= topLimit'  BY DEF LedgerIInv, LedgerTyped
  <1>9. QED  BY <1>4, <1>5, <1>6, <1>7, <1>8, TablesStep

\* The commit of a cover, of an article or a translation, and of a correction.
LEMMA CommitStep ==
  ASSUME LedgerIInv, NEW w \in Worker, Commit(w)
  PROVE  LedgerIInv'
  <1> DEFINE x == txn[w]
             counted == IF x.rows > 0 THEN 1 ELSE 0
             spent == IF x.cost > 0 THEN 1 ELSE 0
  <1>1. x \in Transaction /\ x.step = "write" /\ LedgerCovered(w) /\ AsOpened(w) /\ locker = w
    BY DEF LedgerIInv, LedgerTyped, Commit, LockHeld
  <1>2. /\ x.limit \in Nat /\ x.cost \in Nat /\ x.month \in Nat /\ x.extra \in Nat /\ x.rows \in Nat
        /\ x.op \in Priced \cup {"correct"} /\ x.extra <= extra
    BY <1>1 DEF Transaction, LedgerCovered
  <1>3. LedgerTypeOK /\ topLimit \in Nat /\ txn \in [Worker -> Transaction] /\ Totals
    BY DEF LedgerIInv, LedgerTyped
  <1>4. /\ monthUsed' = monthUsed + x.month /\ extra' = extra - x.extra
        /\ locker' = NoOne /\ txn' = [txn EXCEPT ![w] = Closed]
        /\ UNCHANGED <<plan, prices, grants, alert, changes, topLimit>>
    BY <1>1 DEF Commit, End, console
  <1>5. /\ monthUsed \in Nat /\ extra \in Int /\ drafts \in Nat /\ within \in Nat
        /\ rows \in [Draft -> Nat] /\ covers \in [Draft -> Nat] /\ paid \in [Draft -> Nat]
    BY <1>3 DEF LedgerTypeOK
  <1>6. monthUsed' \in Nat /\ extra' \in Int /\ extra' >= 0  BY <1>2, <1>4, <1>5
  <1>7. txn' \in [Worker -> Transaction]
    <2>1. Closed \in Transaction  BY DEF Closed, Transaction, Priced, Pieces
    <2>2. QED  BY <1>3, <1>4, <2>1
  <1>8. ASSUME NEW v \in Worker PROVE LockHeld(v)' /\ LedgerCovered(v)'
    <2>1. CASE v = w
      <3>1. txn'[v] = Closed  BY <1>3, <1>4, <2>1
      <3>2. QED  BY <3>1 DEF Closed, LockHeld, LedgerCovered
    <2>2. CASE v # w
      <3>1. txn'[v] = txn[v]  BY <1>3, <1>4, <2>2
      <3>2. txn[v].step \notin {"check", "pay", "write"}  BY <1>1, <2>2, OnlyOneCounts
      <3>3. QED  BY <3>1, <3>2 DEF LockHeld, LedgerCovered
    <2>3. QED  BY <2>1, <2>2
  <1>9. \A v \in Worker : txn'[v] = txn[v] \/ txn'[v] = Closed  BY <1>3, <1>4
  <1>10. CASE x.op = "image"
    <2>1. /\ rows' = [rows EXCEPT ![x.on] = @ + x.rows]
          /\ covers' = [covers EXCEPT ![x.on] = @ + counted]
          /\ paid' = [paid EXCEPT ![x.on] = @ + spent]
          /\ drafts' = drafts /\ within' = within
      BY <1>10 DEF Commit
    <2>2. x.on \in Draft /\ counted \in Nat /\ spent \in Nat /\ counted <= x.rows
      BY <1>1, <1>2, <1>10 DEF AsOpened
    <2>3. spent = 1 => counted = 1  BY <1>1, <1>2, <1>10 DEF LedgerCovered
    <2>4. AllPriced /\ counted = 1 /\ spent = 0 => rows[x.on] <= FreeRedraws
      BY <1>1, <1>2, <1>10 DEF LedgerCovered
    <2>5. (spent = 0 \/ spent = 1) /\ (counted = 0 \/ counted = 1)  OBVIOUS
    <2> HIDE DEF counted, spent
    <2>6. rows' \in [Draft -> Nat] /\ covers' \in [Draft -> Nat] /\ paid' \in [Draft -> Nat]
      BY <1>2, <1>5, <2>1, <2>2
    <2>7. LedgerTyped'  BY <1>3, <1>4, <1>6, <1>7, <2>1, <2>6 DEF LedgerTyped, LedgerTypeOK
    <2>8. ASSUME AllPriced, NEW d \in Draft
          PROVE  covers'[d] - paid'[d] <= FreeRedraws + 1 /\ covers'[d] - paid'[d] <= rows'[d]
      <3>1. covers[d] - paid[d] <= FreeRedraws + 1 /\ covers[d] - paid[d] <= rows[d]
        BY <1>3, <2>8 DEF Totals, CountedAgainstPlan, AllPriced
      <3>2. covers[d] \in Nat /\ paid[d] \in Nat /\ rows[d] \in Nat  BY <1>5
      <3>3. CASE d # x.on  BY <1>5, <2>1, <2>2, <3>1, <3>3
      <3>4. CASE d = x.on
        <4>1. covers'[d] = covers[d] + counted /\ paid'[d] = paid[d] + spent /\ rows'[d] = rows[d] + x.rows
          BY <1>5, <2>1, <2>2, <3>4
        <4>2. FreeRedraws \in Nat  BY LedgerAssumption
        <4>3. CASE spent = 1  BY <1>2, <2>2, <2>3, <3>1, <3>2, <4>1, <4>2, <4>3
        <4>4. CASE counted = 1 /\ spent = 0
          BY <1>2, <2>2, <2>4, <2>8, <3>1, <3>2, <3>4, <4>1, <4>2, <4>4
        <4>5. CASE counted = 0 /\ spent = 0  BY <1>2, <3>1, <3>2, <4>1, <4>2, <4>5
        <4>6. QED  BY <2>5, <4>3, <4>4, <4>5
      <3>5. QED  BY <3>3, <3>4
    <2>9. Totals'
      BY <1>3, <1>4, <1>6, <2>1, <2>8 DEF Totals, NeverOverdrawn, CountedAgainstPlan, AllPriced
    <2>10. topLimit <= topLimit'  BY <1>3, <1>4
    <2>11. QED  BY <1>8, <1>9, <2>7, <2>9, <2>10, TablesStep
  <1>11. CASE x.op # "image"
    <2>1. /\ drafts' = IF x.op = "correct" THEN drafts ELSE drafts + 1
          /\ within' = IF x.op = "correct" \/ x.payer THEN within ELSE within + 1
          /\ rows' = rows /\ covers' = covers /\ paid' = paid
      BY <1>11 DEF Commit
    <2>2. drafts' \in Nat /\ within' \in Nat  BY <1>5, <2>1
    <2>3. LedgerTyped'  BY <1>3, <1>4, <1>6, <1>7, <2>1, <2>2 DEF LedgerTyped, LedgerTypeOK
    <2>4. within <= drafts /\ within <= topLimit  BY <1>3 DEF Totals, CountedAgainstPlan
    <2>5. within' <= drafts'  BY <1>5, <2>1, <2>4
    <2>6. within' <= topLimit
      <3>1. CASE x.op = "correct" \/ x.payer  BY <2>1, <2>4, <3>1
      <3>2. CASE ~(x.op = "correct" \/ x.payer)
        <4>1. x.op \in Pieces  BY <1>2, <1>11, <3>2 DEF Priced, Pieces
        <4>2. drafts < x.limit /\ x.limit <= topLimit
          BY <1>1, <3>2, <4>1 DEF LedgerCovered, AsOpened
        <4>3. QED  BY <1>2, <1>3, <1>5, <2>1, <2>4, <3>2, <4>2
      <3>3. QED  BY <3>1, <3>2
    <2>7. Totals'
      BY <1>3, <1>4, <1>6, <2>1, <2>5, <2>6 DEF Totals, NeverOverdrawn, CountedAgainstPlan
    <2>8. topLimit <= topLimit'  BY <1>3, <1>4
    <2>9. QED  BY <1>8, <1>9, <2>3, <2>7, <2>8, TablesStep
  <1>12. QED  BY <1>10, <1>11

\* The console, the calendar and the alert leave every transaction as it is.
LEMMA OutsideStep ==
  ASSUME LedgerIInv, LedgerTyped', Totals', topLimit <= topLimit', drafts' <= drafts,
         UNCHANGED <<locker, txn, extra, rows>>
  PROVE  LedgerIInv'
  <1>1. ASSUME NEW w \in Worker PROVE LockHeld(w)' /\ LedgerCovered(w)'
    <2>1. LockHeld(w)'  BY DEF LedgerIInv, LockHeld
    <2>2. txn[w].limit \in Nat /\ drafts \in Nat /\ drafts' \in Nat
      BY DEF LedgerIInv, LedgerTyped, LedgerTypeOK, Transaction
    <2>3. LedgerCovered(w)'  BY <2>2 DEF LedgerIInv, LedgerCovered, AllPriced
    <2>4. QED  BY <2>1, <2>3
  <1>2. \A w \in Worker : txn'[w] = txn[w] \/ txn'[w] = Closed  OBVIOUS
  <1>3. QED  BY <1>1, <1>2, TablesStep

LEMMA SetPlanStep ==
  ASSUME LedgerIInv, NEW p \in PlanRow, SetPlan(p)
  PROVE  LedgerIInv'
  <1>1. p.limit \in Nat /\ plan.limit \in Nat /\ topLimit \in Nat /\ within \in Nat /\ drafts \in Nat
    BY DEF LedgerIInv, LedgerTyped, LedgerTypeOK
  <1>2. topLimit' \in Nat /\ topLimit <= topLimit' /\ p.limit <= topLimit'  BY <1>1 DEF SetPlan, MaxOf
  <1>3. LedgerTyped'  BY <1>2 DEF SetPlan, LedgerIInv, LedgerTyped, LedgerTypeOK
  <1>4. Totals'  BY <1>1, <1>2 DEF SetPlan, LedgerIInv, Totals, NeverOverdrawn, CountedAgainstPlan
  <1>5. drafts' <= drafts /\ UNCHANGED <<locker, txn, extra, rows>>  BY <1>1 DEF SetPlan
  <1>6. QED  BY <1>2, <1>3, <1>4, <1>5, OutsideStep

LEMMA SetPricesStep ==
  ASSUME LedgerIInv, NEW l \in PriceList, SetPrices(l)
  PROVE  LedgerIInv'
  <1> USE DEF SetPrices
  <1>1. LedgerTyped'  BY DEF LedgerIInv, LedgerTyped, LedgerTypeOK
  <1>2. Totals'  BY DEF LedgerIInv, Totals, NeverOverdrawn, CountedAgainstPlan
  <1>3. topLimit \in Nat /\ drafts \in Nat  BY DEF LedgerIInv, LedgerTyped, LedgerTypeOK
  <1>4. topLimit <= topLimit' /\ drafts' <= drafts /\ UNCHANGED <<locker, txn, extra, rows>>  BY <1>3
  <1>5. QED  BY <1>1, <1>2, <1>4, OutsideStep

LEMMA NewMonthStep ==
  ASSUME LedgerIInv, NewMonth
  PROVE  LedgerIInv'
  <1> USE DEF NewMonth
  <1>1. LedgerTyped'  BY DEF LedgerIInv, LedgerTyped, LedgerTypeOK
  <1>2. topLimit \in Nat /\ drafts \in Nat  BY DEF LedgerIInv, LedgerTyped, LedgerTypeOK
  <1>3. Totals'  BY <1>2 DEF LedgerIInv, Totals, NeverOverdrawn, CountedAgainstPlan
  <1>4. topLimit <= topLimit' /\ drafts' <= drafts /\ UNCHANGED <<locker, txn, extra, rows>>  BY <1>2
  <1>5. QED  BY <1>1, <1>3, <1>4, OutsideStep

LEMMA AlertStep ==
  ASSUME LedgerIInv, Alert
  PROVE  LedgerIInv'
  <1> USE DEF Alert, tables
  <1>1. Level \in {0, 80, 100}  BY DEF Level
  <1>2. LedgerTyped'  BY <1>1 DEF LedgerIInv, LedgerTyped, LedgerTypeOK
  <1>3. Totals'  BY DEF LedgerIInv, Totals, NeverOverdrawn, CountedAgainstPlan
  <1>4. topLimit \in Nat /\ drafts \in Nat  BY DEF LedgerIInv, LedgerTyped, LedgerTypeOK
  <1>5. topLimit <= topLimit' /\ drafts' <= drafts /\ UNCHANGED <<locker, txn, extra, rows>>  BY <1>4
  <1>6. QED  BY <1>2, <1>3, <1>5, OutsideStep

-----------------------------------------------------------------------------
LEMMA LedgerStepHolds == LedgerIInv /\ [LedgerNext]_ledgerVars => LedgerIInv'
  <1> SUFFICES ASSUME LedgerIInv, [LedgerNext]_ledgerVars PROVE LedgerIInv'  OBVIOUS
  <1>1. CASE UNCHANGED ledgerVars
    <2>1. LedgerTyped' /\ Totals'
      BY <1>1 DEF ledgerVars, LedgerIInv, LedgerTyped, LedgerTypeOK, Totals, NeverOverdrawn, CountedAgainstPlan
    <2>2. topLimit \in Nat /\ drafts \in Nat  BY DEF LedgerIInv, LedgerTyped, LedgerTypeOK
    <2>3. topLimit <= topLimit' /\ drafts' <= drafts /\ UNCHANGED <<locker, txn, extra, rows>>
      BY <1>1, <2>2 DEF ledgerVars
    <2>4. QED  BY <2>1, <2>3, OutsideStep
  <1>2. ASSUME NEW w \in Worker, \E op \in {"article", "translation"} : OpenArticle(w, op) PROVE LedgerIInv'
    BY <1>2, OpenArticleStep DEF Pieces
  <1>3. ASSUME NEW w \in Worker, \E d \in Draft : OpenCover(w, d) PROVE LedgerIInv'
    BY <1>3, OpenCoverStep
  <1>4. ASSUME NEW w \in Worker, OpenCorrection(w) PROVE LedgerIInv'  BY <1>4, OpenCorrectionStep
  <1>5. ASSUME NEW w \in Worker, TakeLock(w) PROVE LedgerIInv'  BY <1>5, TakeLockStep
  <1>6. ASSUME NEW w \in Worker, CheckArticle(w) PROVE LedgerIInv'  BY <1>6, CheckArticleStep
  <1>7. ASSUME NEW w \in Worker, CheckCover(w) PROVE LedgerIInv'  BY <1>7, CheckCoverStep
  <1>8. ASSUME NEW w \in Worker, CheckCorrection(w) PROVE LedgerIInv'  BY <1>8, CheckCorrectionStep
  <1>9. ASSUME NEW w \in Worker, Spend(w) PROVE LedgerIInv'  BY <1>9, SpendStep
  <1>10. ASSUME NEW w \in Worker, Commit(w) PROVE LedgerIInv'  BY <1>10, CommitStep
  <1>11. ASSUME NEW w \in Worker, GrantPut(w) PROVE LedgerIInv'  BY <1>11, GrantPutStep
  <1>12. ASSUME NEW w \in Worker, \E r \in Payment : GrantLook(w, r) PROVE LedgerIInv'
    BY <1>12, GrantLookStep
  <1>13. ASSUME \E p \in PlanRow : SetPlan(p) PROVE LedgerIInv'  BY <1>13, SetPlanStep
  <1>14. ASSUME \E l \in PriceList : SetPrices(l) PROVE LedgerIInv'  BY <1>14, SetPricesStep
  <1>15. ASSUME NewMonth PROVE LedgerIInv'  BY <1>15, NewMonthStep
  <1>16. ASSUME Alert PROVE LedgerIInv'  BY <1>16, AlertStep
  <1>17. QED
    BY <1>1, <1>2, <1>3, <1>4, <1>5, <1>6, <1>7, <1>8, <1>9, <1>10, <1>11, <1>12, <1>13, <1>14,
       <1>15, <1>16 DEF LedgerNext

LEMMA InvHolds == LedgerSpec => []LedgerIInv
  BY LedgerInitHolds, LedgerStepHolds, PTL DEF LedgerSpec

\* Every table holds what the code may write in it: the type invariant.
THEOREM LedgerTypeCorrect == LedgerSpec => []LedgerTypeOK
  <1>1. LedgerIInv => LedgerTypeOK  BY DEF LedgerIInv, LedgerTyped
  <1>2. QED  BY <1>1, InvHolds, PTL

\* However many articles, covers and corrections run at the same time, and
\* whatever plans and prices change meanwhile, the extra credits a newsroom
\* bought are never taken below zero (credits.spend, under quotas.lock).
THEOREM CreditsNeverOverdrawn == LedgerSpec => []NeverOverdrawn
  <1>1. LedgerIInv => NeverOverdrawn  BY DEF LedgerIInv, Totals
  <1>2. QED  BY <1>1, InvHolds, PTL

\* What costs nothing is counted exactly: the articles a month's plan includes
\* stay within the largest limit given, and an article's free covers are the
\* first and the free redraws (quotas.check, credits.charge_cover).
THEOREM PlanCounted == LedgerSpec => []CountedAgainstPlan
  <1>1. LedgerIInv => CountedAgainstPlan  BY DEF LedgerIInv, Totals
  <1>2. QED  BY <1>1, InvHolds, PTL

HIDE LedgerAssumption

-----------------------------------------------------------------------------
(***************************************************************************)
(* For any payments, subscriptions of the gateway and lengths of periods,  *)
(* where notices and rounds do not overlap: a payment counts once, the     *)
(* newsroom runs while it is paid, and the gateway renews only what the    *)
(* row names.                                                              *)
(***************************************************************************)

Day == Nat \cup {Never}
SubRow == [status : {"none", "trialing", "active", "past_due", "canceled", "expired"},
           provider : {"manual", "mollie", "reseller"}, psid : GwSub \cup {NoId},
           trialEnd : Day, periodEnd : Day, reminded : BOOLEAN]
SubRoomRow == [active : BOOLEAN, hold : BOOLEAN, only : Day]
GwRow == [status : {"none", "open", "paid", "failed"}, kind : {NoId, "first", "credits", "recurring"},
          by : GwSub \cup {NoId}]
HandRow == [step : {"idle", "mark", "read", "act", "store", "round", "stale"}, pay : Pay \cup {NoId},
            sub : SubRow, stale : BOOLEAN, id : GwSub \cup {NoId}]

(***************************************************************************)
(* The inductive invariant.                                                *)
(***************************************************************************)
SubTyped ==
  /\ today \in Nat /\ sub \in SubRow /\ room \in SubRoomRow
  /\ billed \in [Pay -> {"none", "open", "paid", "failed"}] /\ gpay \in [Pay -> GwRow]
  /\ honoured \in [Pay -> Nat] /\ live \subseteq GwSub /\ hand \in [Handler -> HandRow]

\* A row that says how a payment ended says what the gateway says, and a
\* payment took effect at most once, after its row was marked as paid.
PayOK(p) ==
  /\ billed[p] \in {"paid", "failed"} => gpay[p].status = billed[p]
  /\ honoured[p] = 0 \/ (honoured[p] = 1 /\ billed[p] = "paid")

\* The newsroom has a trial or a paid period in front of it.
SubCovered == sub.status \in {"trialing", "active", "past_due", "canceled"} /\ Ends(sub) > today

\* What a handler half-way relies on, alone as it is.
HandOK(h) ==
  LET x == hand[h]
  IN /\ x.step \in {"mark", "read", "act", "store"} =>
          x.pay \in Pay /\ honoured[x.pay] = 0 /\ gpay[x.pay].status \in {"paid", "failed"}
     /\ x.step \in {"read", "act", "store"} => billed[x.pay] = gpay[x.pay].status
     /\ x.step \in {"act", "store", "round"} => x.sub = sub
     /\ x.step = "store" => gpay[x.pay].status = "paid" /\ live \subseteq lost \cup {x.id}
     /\ x.step # "store" => x.id = NoId
     /\ x.step = "idle" => x = Idle
     /\ x.step = "stale" => ~SubCovered

\* One at a time is half-way.
OneHand == \A h \in Handler : hand[h] = Idle \/ \A j \in Handler \ {h} : hand[j] = Idle

SubOK ==
  /\ sub.status = "none" => sub.provider = "manual" /\ sub.periodEnd = Never
  /\ sub.status = "trialing" => sub.periodEnd = Never
  /\ sub.status = "expired" => sub.periodEnd <= today

SubIInv ==
  /\ SubTyped /\ SubOK /\ RunsWhilePaid /\ RenewalsStop
  /\ \A p \in Pay : PayOK(p)
  /\ OneHand /\ \A h \in Handler : HandOK(h)

-----------------------------------------------------------------------------
USE SubscriptionsAssumption

\* What the gateway may renew: the subscription on record.
OnRecord(s) == IF s.provider = "mollie" /\ s.status # "canceled" THEN {s.psid} ELSE {}

AllIdle == \A h \in Handler : hand[h] = Idle

LEMMA IdleRow == Idle.step = "idle" /\ Idle.id = NoId
  BY DEF Idle

LEMMA RowsTyped == NoSub \in SubRow /\ Idle \in HandRow
  BY DEF NoSub, Idle, SubRow, HandRow, Day, Never, NoId

LEMMA LaterTyped ==
  ASSUME NEW a \in Day, NEW b \in Nat
  PROVE  Later(a, b) \in Nat /\ Later(a, b) >= b
  BY DEF Later, Day, Never

LEMMA RoomsTyped ==
  ASSUME NEW r \in SubRoomRow, NEW d \in Day
  PROVE  /\ Held(r) \in SubRoomRow /\ Released(r) \in SubRoomRow /\ OnlyFrom(r, d) \in SubRoomRow
         /\ ~Released(r).hold /\ Released(r).only = Never
  BY DEF Held, Released, OnlyFrom, SubRoomRow, Day

\* Where no subscription waits to be stored, the gateway renews the one on record.
LEMMA LiveIsOnRecord ==
  ASSUME SubIInv, \A h \in Handler : hand[h].step # "store"
  PROVE  live \subseteq lost \cup OnRecord(sub)
  <1>1. \A h \in Handler : hand[h].id = NoId  BY DEF SubIInv, HandOK
  <1>2. NoId \notin live  BY DEF SubIInv, SubTyped
  <1>3. QED  BY <1>1, <1>2 DEF SubIInv, RenewalsStop, OnRecord

LEMMA OnRecordStops ==
  ASSUME live' \subseteq lost' \cup OnRecord(sub)'
  PROVE  RenewalsStop'
  BY DEF RenewalsStop, OnRecord

\* The steps of people and of the calendar wait until nothing is half-way.
LEMMA SubQuietStep ==
  ASSUME AllIdle, hand' = hand, SubTyped', SubOK', RunsWhilePaid',
         live' \subseteq lost' \cup OnRecord(sub)', \A p \in Pay : PayOK(p)'
  PROVE  SubIInv'
  <1>1. \A h \in Handler : HandOK(h)'  BY IdleRow DEF AllIdle, HandOK
  <1>2. OneHand'  BY DEF AllIdle, OneHand
  <1>3. QED  BY <1>1, <1>2, OnRecordStops DEF SubIInv

LEMMA IdleIsNoStep == AllIdle => \A h \in Handler : hand[h].step # "store"
  BY DEF AllIdle, Idle

LEMMA SubInitHolds == SubInit => SubIInv
  <1> SUFFICES ASSUME SubInit PROVE SubIInv  OBVIOUS
  <1>1. SubTyped
    <2>1. sub \in SubRow /\ hand \in [Handler -> HandRow]  BY RowsTyped DEF SubInit
    <2>2. room \in SubRoomRow  BY DEF SubInit, SubRoomRow, Day
    <2>3. gpay \in [Pay -> GwRow]  BY DEF SubInit, GwRow
    <2>4. QED  BY <2>1, <2>2, <2>3 DEF SubInit, SubTyped
  <1>2. SubOK /\ RunsWhilePaid  BY DEF SubInit, SubOK, RunsWhilePaid, NoSub
  <1>3. RenewalsStop  BY DEF SubInit, RenewalsStop
  <1>4. \A p \in Pay : PayOK(p)  BY DEF SubInit, PayOK
  <1>5. \A h \in Handler : HandOK(h)  BY DEF SubInit, HandOK, Idle
  <1>6. OneHand  BY DEF SubInit, OneHand
  <1>7. QED  BY <1>1, <1>2, <1>3, <1>4, <1>5, <1>6 DEF SubIInv

-----------------------------------------------------------------------------
(* What people do, and the calendar.                                       *)

LEMMA MoneyStays ==
  ASSUME SubIInv, UNCHANGED money
  PROVE  /\ \A p \in Pay : PayOK(p)'
         /\ billed' \in [Pay -> {"none", "open", "paid", "failed"}] /\ gpay' \in [Pay -> GwRow]
         /\ honoured' \in [Pay -> Nat]
  BY DEF SubIInv, PayOK, money, SubTyped

LEMMA SetActiveStep ==
  ASSUME SubIInv, AllIdle, NEW b \in BOOLEAN, SetActive(b)
  PROVE  SubIInv'
  <1>1. room' \in SubRoomRow /\ room'.hold = room.hold /\ room'.only = room.only
    BY DEF SetActive, SubIInv, SubTyped, SubRoomRow
  <1>2. SubTyped'  BY <1>1, MoneyStays DEF SetActive, SubIInv, SubTyped
  <1>3. SubOK' /\ RunsWhilePaid'  BY <1>1 DEF SetActive, SubIInv, SubOK, RunsWhilePaid, Ends
  <1>4. live' \subseteq lost' \cup OnRecord(sub)'
    BY LiveIsOnRecord, IdleIsNoStep DEF SetActive, OnRecord
  <1>5. QED  BY <1>2, <1>3, <1>4, MoneyStays, SubQuietStep DEF SetActive

LEMMA NextDayStep ==
  ASSUME SubIInv, AllIdle, NextDay
  PROVE  SubIInv'
  <1>1. today \in Nat /\ today' = today + 1 /\ sub' = sub /\ room' = room /\ sub \in SubRow
    BY DEF NextDay, ours, SubIInv, SubTyped
  <1>2. SubTyped'  BY <1>1, MoneyStays DEF NextDay, SubIInv, SubTyped
  <1>3. sub.periodEnd \in Day /\ Ends(sub) \in Day  BY <1>1 DEF SubRow, Ends
  <1>4. SubOK' /\ RunsWhilePaid'  BY <1>1, <1>3 DEF SubIInv, SubOK, RunsWhilePaid, Ends, Day, Never
  <1>5. live' \subseteq lost' \cup OnRecord(sub)'
    BY <1>1, LiveIsOnRecord, IdleIsNoStep DEF NextDay, OnRecord
  <1>6. QED  BY <1>2, <1>4, <1>5, MoneyStays, SubQuietStep DEF NextDay

\* Whoever starts another plan leaves the gateway, which then renews nothing.
LEMMA StartStep ==
  ASSUME SubIInv, AllIdle, NEW chosen \in {"trial", "starter"}, NEW provider \in {"manual", "reseller"},
         NEW until \in {Never, today + Period}, Start(chosen, provider, until)
  PROVE  SubIInv'
  <1>0. today \in Nat /\ sub \in SubRow /\ room \in SubRoomRow /\ sub.periodEnd \in Day  BY DEF SubIInv, SubTyped, SubRow
  <1>1. until \in Day /\ today + Trial \in Nat  BY <1>0 DEF Day
  <1> DEFINE kept == IF until # Never THEN until ELSE IF sub.periodEnd > today THEN sub.periodEnd ELSE Never
             away == sub.status # "none" /\ sub.provider # provider
  <1>2. kept \in Day /\ (until # Never => kept = until)  BY <1>0, <1>1 DEF Day
  <1>3. /\ sub' \in SubRow /\ sub'.provider = provider
        /\ sub'.status = (IF chosen = "trial" THEN "trialing" ELSE "active")
        /\ sub'.periodEnd = (IF chosen = "trial" THEN Never ELSE kept)
    BY <1>0, <1>1, <1>2 DEF Start, SubRow, Day
  <1>4. \/ room' = Released(room)
        \/ room' = room /\ chosen # "trial" /\ until # Never /\ ~(until > today)
    BY DEF Start
  <1>5. room' \in SubRoomRow  BY <1>0, <1>4, RoomsTyped DEF Day
  <1>6. SubTyped'  BY <1>3, <1>5, MoneyStays DEF Start, SubIInv, SubTyped
  <1>7. SubOK'  BY <1>3 DEF SubOK
  <1>8. RunsWhilePaid'
    <2>1. CASE room' = Released(room)  BY <2>1, <1>0, RoomsTyped DEF RunsWhilePaid, Day
    <2>2. CASE chosen # "trial" /\ until # Never /\ ~(until > today)
      <3>1. Ends(sub') = until  BY <2>2, <1>2, <1>3 DEF Ends
      <3>2. today' = today  BY DEF Start
      <3>3. QED  BY <3>1, <3>2, <2>2 DEF RunsWhilePaid
    <2>3. QED  BY <1>4, <2>1, <2>2
  <1>9. live' \subseteq lost' \cup OnRecord(sub)'
    <2>1. live \subseteq lost \cup OnRecord(sub)  BY LiveIsOnRecord, IdleIsNoStep
    <2>2. live' \subseteq live /\ lost' = lost  BY DEF Start
    <2>3. CASE sub.provider = "mollie" /\ sub.status # "canceled"
      <3>1. away  BY <2>3 DEF SubIInv, SubOK
      <3>2. live' = live \ Leave(sub)  BY <3>1 DEF Start
      <3>3. NoId \notin live  BY DEF SubIInv, SubTyped
      <3>4. QED  BY <2>1, <2>2, <2>3, <3>2, <3>3 DEF OnRecord, Leave
    <2>4. CASE ~(sub.provider = "mollie" /\ sub.status # "canceled")  BY <2>1, <2>2, <2>4 DEF OnRecord
    <2>5. QED  BY <2>3, <2>4
  <1>10. QED  BY <1>6, <1>7, <1>8, <1>9, MoneyStays, SubQuietStep DEF Start

LEMMA RecordPaymentStep ==
  ASSUME SubIInv, AllIdle, RecordPayment
  PROVE  SubIInv'
  <1>0. today \in Nat /\ sub \in SubRow /\ room \in SubRoomRow /\ sub.periodEnd \in Day  BY DEF SubIInv, SubTyped, SubRow
  <1>1. Later(sub.periodEnd, today) + Period \in Nat  BY <1>0, LaterTyped
  <1>2. sub' \in SubRow /\ sub'.status = "active" /\ sub'.provider # "mollie"
    BY <1>0, <1>1 DEF RecordPayment, SubRow, Day
  <1>3. room' = Released(room)  BY DEF RecordPayment
  <1>4. SubTyped'  BY <1>0, <1>2, <1>3, RoomsTyped, MoneyStays DEF RecordPayment, SubIInv, SubTyped, Day
  <1>5. SubOK'  BY <1>2 DEF SubOK
  <1>6. RunsWhilePaid'  BY <1>0, <1>3, RoomsTyped DEF RunsWhilePaid, Day
  <1>7. live' \subseteq lost' \cup OnRecord(sub)'
    <2>1. live \subseteq lost \cup OnRecord(sub)  BY LiveIsOnRecord, IdleIsNoStep
    <2>2. live' = live \ Leave(sub) /\ lost' = lost  BY DEF RecordPayment
    <2>3. NoId \notin live  BY DEF SubIInv, SubTyped
    <2>4. QED  BY <2>1, <2>2, <2>3 DEF OnRecord, Leave
  <1>8. QED  BY <1>4, <1>5, <1>6, <1>7, MoneyStays, SubQuietStep DEF RecordPayment

\* A cancelled subscription runs as long as it would have run.
LEMMA CanceledRow ==
  ASSUME SubIInv
  PROVE  /\ Canceled(sub) \in SubRow /\ Canceled(sub).status = "canceled"
         /\ Ends(Canceled(sub)) = Ends(sub)
         /\ ~(Ends(sub) > today) \/ (~room.hold /\ room.only = Never)
  <1>0. today \in Nat /\ sub \in SubRow  BY DEF SubIInv, SubTyped
  <1>1. Canceled(sub) \in SubRow /\ Canceled(sub).status = "canceled"  BY <1>0 DEF Canceled, SubRow
  <1>2. Ends(Canceled(sub)) = Ends(sub)  BY <1>0 DEF Canceled, SubRow, Ends
  <1>3. Ends(sub) > today => sub.status \in {"trialing", "active", "past_due", "canceled"}
    <2>1. CASE sub.status = "none"  BY <2>1, <1>0 DEF SubIInv, SubOK, Ends, Never
    <2>2. CASE sub.status = "expired"
      <3>1. sub.periodEnd \in Day /\ Ends(sub) = sub.periodEnd  BY <1>0, <2>2 DEF Ends, SubRow
      <3>2. QED  BY <3>1, <2>2, <1>0 DEF SubIInv, SubOK, Day, Never
    <2>3. QED  BY <2>1, <2>2, <1>0 DEF SubRow
  <1>4. QED  BY <1>1, <1>2, <1>3 DEF SubIInv, RunsWhilePaid

\* Its renewals are stopped at the gateway.
LEMMA StoppedLive ==
  ASSUME SubIInv, \A h \in Handler : hand[h].step # "store"
  PROVE  live \ Stopped(sub) \subseteq lost
  <1>1. live \subseteq lost \cup OnRecord(sub)  BY LiveIsOnRecord
  <1>2. NoId \notin live  BY DEF SubIInv, SubTyped
  <1>3. QED  BY <1>1, <1>2 DEF OnRecord, Stopped

LEMMA CancelStep ==
  ASSUME SubIInv, AllIdle, Cancel
  PROVE  SubIInv'
  <1>1. sub' = Canceled(sub) /\ today' = today /\ room' = room  BY DEF Cancel
  <1>2. live' = live \ Stopped(sub) /\ lost' = lost  BY DEF Cancel
  <1>3. SubTyped'  BY <1>1, <1>2, CanceledRow, MoneyStays DEF Cancel, SubIInv, SubTyped
  <1>4. SubOK'  BY <1>1, CanceledRow DEF SubOK
  <1>5. RunsWhilePaid'  BY <1>1, CanceledRow DEF RunsWhilePaid
  <1>6. live' \subseteq lost' \cup OnRecord(sub)'  BY <1>2, StoppedLive, IdleIsNoStep
  <1>7. QED  BY <1>3, <1>4, <1>5, <1>6, MoneyStays, SubQuietStep DEF Cancel

LEMMA RefundStep ==
  ASSUME SubIInv, AllIdle, NEW p \in Pay, NEW then \in {"none", "renewals", "now"}, Refund(p, then)
  PROVE  SubIInv'
  <1>0. today \in Nat /\ sub \in SubRow /\ room \in SubRoomRow  BY DEF SubIInv, SubTyped
  <1> DEFINE stop == then \in {"renewals", "now"} /\ sub.status # "canceled"
             after == IF stop THEN Canceled(sub) ELSE sub
  <1>1. /\ today' = today /\ lost' = lost /\ UNCHANGED <<billed, gpay, honoured, hand>>
        /\ live' = IF stop THEN live \ Stopped(sub) ELSE live
        /\ sub' = IF then = "now" THEN [after EXCEPT !.status = "expired", !.periodEnd = today] ELSE after
        /\ room' = IF then = "now" THEN Held(room) ELSE room
    BY DEF Refund
  <1>2. after \in SubRow /\ (stop => after = Canceled(sub)) /\ (~stop => after = sub)  BY <1>0, CanceledRow
  <1>3. sub' \in SubRow  BY <1>0, <1>1, <1>2 DEF SubRow, Day
  <1>4. room' \in SubRoomRow  BY <1>0, <1>1, RoomsTyped DEF Day
  <1>5. SubTyped'  BY <1>1, <1>3, <1>4 DEF SubIInv, SubTyped
  <1>6. \A q \in Pay : PayOK(q)'  BY <1>1 DEF SubIInv, PayOK
  <1>7. CASE then = "now"
    <2>1. sub'.status = "expired" /\ sub'.periodEnd = today /\ sub'.provider = after.provider /\ sub'.psid = after.psid
      BY <1>1, <1>2, <1>7 DEF SubRow
    <2>2. SubOK' /\ RunsWhilePaid'  BY <2>1, <1>0, <1>1 DEF SubOK, RunsWhilePaid
    <2>3. live' \subseteq lost' \cup OnRecord(sub)'
      <3>1. CASE stop  BY <3>1, <1>1, StoppedLive, IdleIsNoStep
      <3>2. CASE ~stop
        <4>1. sub.status = "canceled"  BY <3>2, <1>7
        <4>2. live \subseteq lost  BY <4>1, LiveIsOnRecord, IdleIsNoStep DEF OnRecord
        <4>3. QED  BY <4>2, <3>2, <1>1
      <3>3. QED  BY <3>1, <3>2
    <2>4. QED  BY <1>1, <1>5, <1>6, <2>2, <2>3, SubQuietStep
  <1>8. CASE then # "now" /\ stop
    <2>1. sub' = Canceled(sub) /\ room' = room /\ live' = live \ Stopped(sub)  BY <1>1, <1>8
    <2>2. SubOK' /\ RunsWhilePaid'  BY <2>1, <1>1, CanceledRow DEF SubOK, RunsWhilePaid
    <2>3. live' \subseteq lost' \cup OnRecord(sub)'  BY <2>1, <1>1, StoppedLive, IdleIsNoStep
    <2>4. QED  BY <1>1, <1>5, <1>6, <2>2, <2>3, SubQuietStep
  <1>9. CASE then # "now" /\ ~stop
    <2>1. sub' = sub /\ room' = room /\ live' = live  BY <1>1, <1>9
    <2>2. SubOK' /\ RunsWhilePaid'  BY <2>1, <1>1 DEF SubIInv, SubOK, RunsWhilePaid, Ends
    <2>3. live' \subseteq lost' \cup OnRecord(sub)'  BY <2>1, <1>1, LiveIsOnRecord, IdleIsNoStep DEF OnRecord
    <2>4. QED  BY <1>1, <1>5, <1>6, <2>2, <2>3, SubQuietStep
  <1>10. QED  BY <1>7, <1>8, <1>9

-----------------------------------------------------------------------------
(* The gateway by itself: only payments that were open, or were none, change. *)

LEMMA GatewayStep ==
  ASSUME SubIInv, NEW p \in Pay, NEW entry \in GwRow,
         gpay[p].status \in {"none", "open"}, gpay' = [gpay EXCEPT ![p] = entry],
         UNCHANGED <<today, ours, billed, live, lost, hand, honoured>>
  PROVE  SubIInv'
  <1>1. gpay \in [Pay -> GwRow] /\ gpay' \in [Pay -> GwRow]  BY DEF SubIInv, SubTyped
  <1>2. \A q \in Pay : gpay[q].status \in {"paid", "failed"} => gpay'[q] = gpay[q]  BY <1>1
  <1>3. SubTyped'  BY <1>1 DEF SubIInv, SubTyped, ours
  <1>4. \A q \in Pay : PayOK(q)'  BY <1>2 DEF SubIInv, PayOK
  <1>5. \A h \in Handler : HandOK(h)'
    <2> SUFFICES ASSUME NEW h \in Handler PROVE HandOK(h)'  OBVIOUS
    <2>1. HandOK(h)  BY DEF SubIInv
    <2>2. SubCovered' = SubCovered  BY DEF SubCovered, Ends, ours
    <2>3. QED  BY <1>2, <2>1, <2>2 DEF HandOK, ours
  <1>6. SubOK' /\ RunsWhilePaid' /\ OneHand'  BY DEF SubIInv, SubOK, RunsWhilePaid, OneHand, ours, Ends
  <1>7. RenewalsStop'  BY DEF SubIInv, RenewalsStop, ours
  <1>8. QED  BY <1>3, <1>4, <1>5, <1>6, <1>7 DEF SubIInv

LEMMA SettlesStep ==
  ASSUME SubIInv, NEW p \in Pay, NEW status \in {"paid", "failed"}, GatewaySettles(p, status)
  PROVE  SubIInv'
  <1> DEFINE entry == [gpay[p] EXCEPT !.status = status]
  <1>1. entry \in GwRow  BY DEF SubIInv, SubTyped, GwRow
  <1>2. gpay' = [gpay EXCEPT ![p] = entry]  BY DEF GatewaySettles
  <1>3. QED  BY <1>1, <1>2, GatewayStep DEF GatewaySettles

LEMMA RenewsStep ==
  ASSUME SubIInv, NEW p \in Pay, NEW g \in GwSub, GatewayRenews(p, g)
  PROVE  SubIInv'
  <1> DEFINE entry == [status |-> "open", kind |-> "recurring", by |-> g]
  <1>1. entry \in GwRow  BY DEF GwRow
  <1>2. gpay' = [gpay EXCEPT ![p] = entry]  BY DEF GatewayRenews
  <1>3. QED  BY <1>1, <1>2, GatewayStep DEF GatewayRenews

LEMMA CheckoutStep ==
  ASSUME SubIInv, AllIdle, NEW p \in Pay, NEW kind \in {"first", "credits"}, Checkout(p, kind)
  PROVE  SubIInv'
  <1>1. gpay \in [Pay -> GwRow] /\ billed \in [Pay -> {"none", "open", "paid", "failed"}]  BY DEF SubIInv, SubTyped
  <1>2. gpay' \in [Pay -> GwRow] /\ billed' \in [Pay -> {"none", "open", "paid", "failed"}]
    BY <1>1 DEF Checkout, GwRow
  <1>3. SubTyped'  BY <1>2 DEF Checkout, SubIInv, SubTyped, ours
  <1>4. \A q \in Pay : PayOK(q)'
    <2> SUFFICES ASSUME NEW q \in Pay PROVE PayOK(q)'  OBVIOUS
    <2>1. CASE q # p  BY <2>1, <1>1 DEF Checkout, SubIInv, PayOK
    <2>2. CASE q = p
      <3>1. honoured[p] = 0  BY DEF Checkout, SubIInv, PayOK
      <3>2. QED  BY <3>1, <2>2, <1>1 DEF Checkout, PayOK
    <2>3. QED  BY <2>1, <2>2
  <1>5. SubOK' /\ RunsWhilePaid'  BY DEF Checkout, SubIInv, SubOK, RunsWhilePaid, Ends, ours
  <1>6. live' \subseteq lost' \cup OnRecord(sub)'
    BY LiveIsOnRecord, IdleIsNoStep DEF Checkout, OnRecord, ours
  <1>7. QED  BY <1>3, <1>4, <1>5, <1>6, SubQuietStep DEF Checkout

-----------------------------------------------------------------------------
(* Notices and rounds, half-way one at a time.                             *)

LEMMA TheOthersRest ==
  ASSUME SubIInv, NEW h \in Handler, hand[h].step # "idle"
  PROVE  /\ \A j \in Handler \ {h} : hand[j] = Idle
         /\ hand[h].step # "store" => \A j \in Handler : hand[j].step # "store"
  <1>1. hand[h] # Idle  BY IdleRow
  <1>2. \A j \in Handler \ {h} : hand[j] = Idle  BY <1>1 DEF SubIInv, OneHand
  <1>3. QED  BY <1>2, IdleRow

LEMMA HandStep ==
  ASSUME SubIInv, NEW h \in Handler, \A j \in Handler \ {h} : hand[j] = Idle,
         NEW x \in HandRow, hand' = [hand EXCEPT ![h] = x], HandOK(h)'
  PROVE  hand' \in [Handler -> HandRow] /\ OneHand' /\ \A j \in Handler : HandOK(j)'
  <1>1. hand \in [Handler -> HandRow]  BY DEF SubIInv, SubTyped
  <1>2. hand' \in [Handler -> HandRow] /\ \A j \in Handler \ {h} : hand'[j] = Idle  BY <1>1
  <1>3. OneHand'  BY <1>2 DEF OneHand
  <1>4. \A j \in Handler \ {h} : HandOK(j)'  BY <1>2 DEF HandOK, Idle
  <1>5. QED  BY <1>2, <1>3, <1>4

LEMMA HandRests ==
  ASSUME SubIInv, NEW h \in Handler, \A j \in Handler \ {h} : hand[j] = Idle,
         hand' = [hand EXCEPT ![h] = Idle]
  PROVE  hand' \in [Handler -> HandRow] /\ OneHand' /\ \A j \in Handler : HandOK(j)'
  <1>1. hand \in [Handler -> HandRow]  BY DEF SubIInv, SubTyped
  <1>2. hand'[h] = Idle  BY <1>1
  <1>3. HandOK(h)'  BY <1>2 DEF HandOK, Idle
  <1>4. QED  BY <1>3, RowsTyped, HandStep

LEMMA OursStay ==
  ASSUME SubIInv, UNCHANGED <<today, ours>>
  PROVE  /\ SubOK' /\ RunsWhilePaid' /\ today' \in Nat /\ sub' \in SubRow /\ room' \in SubRoomRow
         /\ SubCovered' = SubCovered
  BY DEF SubIInv, SubTyped, SubOK, RunsWhilePaid, Ends, ours, SubCovered

LEMMA RenewalsStay ==
  ASSUME SubIInv, \A h \in Handler : hand[h].step # "store", UNCHANGED <<live, lost>>, OnRecord(sub) \subseteq OnRecord(sub)'
  PROVE  RenewalsStop'
  BY LiveIsOnRecord, OnRecordStops

LEMMA NoticeStep ==
  ASSUME SubIInv, AllIdle, NEW h \in Handler, NEW p \in Pay, Notice(h, p)
  PROVE  SubIInv'
  <1>1. /\ gpay \in [Pay -> GwRow] /\ billed \in [Pay -> {"none", "open", "paid", "failed"}]
        /\ UNCHANGED <<today, ours, gpay, live, lost, honoured>>
        /\ gpay[p].status \in {"paid", "failed"}
    BY DEF SubIInv, SubTyped, Notice, GwRow
  <1>2. RenewalsStop'  BY <1>1, IdleIsNoStep, RenewalsStay DEF OnRecord, ours
  <1>3. CASE Unchanged(p)
    <2>1. hand' = hand /\ billed' = billed  BY <1>3 DEF Notice
    <2>2. SubTyped' /\ OneHand'  BY <2>1, <1>1 DEF SubIInv, SubTyped, OneHand, ours
    <2>3. \A q \in Pay : PayOK(q)'  BY <2>1, <1>1 DEF SubIInv, PayOK
    <2>4. \A j \in Handler : HandOK(j)'  BY <2>1, <1>1, IdleRow DEF AllIdle, HandOK
    <2>5. QED  BY <1>1, <1>2, <2>2, <2>3, <2>4, OursStay DEF SubIInv
  <1>4. CASE ~Unchanged(p)
    <2> DEFINE x == [Idle EXCEPT !.step = "mark", !.pay = p]
    <2>1. /\ hand' = [hand EXCEPT ![h] = x] /\ billed[p] \notin {gpay[p].status, "paid"}
          /\ billed' = [billed EXCEPT ![p] = IF @ = "none" THEN "open" ELSE @]
      BY <1>4 DEF Notice, Unchanged
    <2>2. x \in HandRow /\ x.step = "mark" /\ x.pay = p /\ x.id = NoId  BY RowsTyped DEF HandRow, Idle
    <2>3. honoured[p] = 0  BY <2>1 DEF SubIInv, PayOK
    <2>4. hand'[h] = x  BY <2>1 DEF SubIInv, SubTyped
    <2> HIDE DEF x
    <2>5. HandOK(h)'  BY <2>2, <2>3, <2>4, <1>1 DEF HandOK
    <2>6. \A j \in Handler \ {h} : hand[j] = Idle  BY DEF AllIdle
    <2>7. hand' \in [Handler -> HandRow] /\ OneHand' /\ \A j \in Handler : HandOK(j)'
      BY <2>1, <2>2, <2>5, <2>6, HandStep
    <2>8. billed' \in [Pay -> {"none", "open", "paid", "failed"}]  BY <1>1, <2>1
    <2>9. \A q \in Pay : PayOK(q)'
      <3> SUFFICES ASSUME NEW q \in Pay PROVE PayOK(q)'  OBVIOUS
      <3>1. CASE q # p  BY <3>1, <2>1, <1>1 DEF SubIInv, PayOK
      <3>2. CASE q = p  BY <3>2, <2>1, <2>3, <1>1 DEF SubIInv, PayOK
      <3>3. QED  BY <3>1, <3>2
    <2>10. SubTyped'  BY <1>1, <2>7, <2>8, OursStay DEF SubIInv, SubTyped
    <2>11. QED  BY <1>1, <1>2, <2>7, <2>9, <2>10, OursStay DEF SubIInv
  <1>5. QED  BY <1>3, <1>4

LEMMA MarkStep ==
  ASSUME SubIInv, NEW h \in Handler, Mark(h)
  PROVE  SubIInv'
  <1> DEFINE p == hand[h].pay
             x == [hand[h] EXCEPT !.step = "read"]
  <1>1. /\ hand[h].step = "mark" /\ hand' = [hand EXCEPT ![h] = x]
        /\ billed' = [billed EXCEPT ![p] = gpay[p].status]
        /\ UNCHANGED <<today, ours, gpay, live, lost, honoured>>
    BY DEF Mark
  <1>2. p \in Pay /\ honoured[p] = 0 /\ gpay[p].status \in {"paid", "failed"} /\ hand[h].id = NoId
    BY <1>1 DEF SubIInv, HandOK
  <1>3. hand[h] \in HandRow /\ billed \in [Pay -> {"none", "open", "paid", "failed"}]  BY DEF SubIInv, SubTyped
  <1>4. x \in HandRow /\ x.step = "read" /\ x.pay = p /\ x.id = NoId  BY <1>2, <1>3 DEF HandRow
  <1>5. hand'[h] = x /\ billed'[p] = gpay[p].status  BY <1>1, <1>2 DEF SubIInv, SubTyped
  <1>6. billed' \in [Pay -> {"none", "open", "paid", "failed"}] /\ \A q \in Pay : q # p => billed'[q] = billed[q]
    BY <1>1, <1>2, <1>3
  <1>7. \A q \in Pay : PayOK(q)'  BY <1>1, <1>2, <1>5, <1>6 DEF SubIInv, PayOK
  <1> HIDE DEF x
  <1>8. HandOK(h)'  BY <1>1, <1>2, <1>4, <1>5 DEF HandOK
  <1>9. hand' \in [Handler -> HandRow] /\ OneHand' /\ \A j \in Handler : HandOK(j)'
    BY <1>1, <1>4, <1>8, TheOthersRest, HandStep
  <1>10. RenewalsStop'  BY <1>1, TheOthersRest, RenewalsStay DEF OnRecord, ours
  <1>11. SubTyped'  BY <1>1, <1>6, <1>9, OursStay DEF SubIInv, SubTyped
  <1>12. QED  BY <1>1, <1>7, <1>9, <1>10, <1>11, OursStay DEF SubIInv

LEMMA ReadSubscriptionStep ==
  ASSUME SubIInv, NEW h \in Handler, ReadSubscription(h)
  PROVE  SubIInv'
  <1> DEFINE x == [hand[h] EXCEPT !.step = "act", !.sub = sub]
  <1>1. /\ hand[h].step = "read" /\ hand' = [hand EXCEPT ![h] = x]
        /\ UNCHANGED <<today, ours, money, live, lost>>
    BY DEF ReadSubscription
  <1>2. HandOK(h) /\ hand[h] \in HandRow /\ sub \in SubRow  BY DEF SubIInv, SubTyped
  <1>3. x \in HandRow /\ x.step = "act" /\ x.pay = hand[h].pay /\ x.id = hand[h].id /\ x.sub = sub
    BY <1>2 DEF HandRow
  <1>4. hand'[h] = x  BY <1>1 DEF SubIInv, SubTyped
  <1> HIDE DEF x
  <1>5. HandOK(h)'  BY <1>1, <1>2, <1>3, <1>4 DEF HandOK, ours, money
  <1>6. hand' \in [Handler -> HandRow] /\ OneHand' /\ \A j \in Handler : HandOK(j)'
    BY <1>1, <1>3, <1>5, TheOthersRest, HandStep
  <1>7. RenewalsStop'  BY <1>1, TheOthersRest, RenewalsStay DEF OnRecord, ours
  <1>8. SubTyped'  BY <1>1, <1>6, OursStay, MoneyStays DEF SubIInv, SubTyped
  <1>9. QED  BY <1>1, <1>6, <1>7, <1>8, OursStay, MoneyStays DEF SubIInv

\* The new subscription at the gateway is in the handler's hands until it is stored.
LEMMA OpenStep ==
  ASSUME SubIInv, NEW h \in Handler, Open(h)
  PROVE  SubIInv'
  <1> DEFINE old == Stopped(hand[h].sub)
  <1>1. /\ hand[h].step = "act" /\ gpay[hand[h].pay].status = "paid"
        /\ UNCHANGED <<today, ours, money>>
    BY DEF Open
  <1>2. HandOK(h) /\ hand[h] \in HandRow /\ hand[h].sub = sub /\ hand[h].id = NoId
    BY <1>1 DEF SubIInv, SubTyped, HandOK
  <1>3. old = Stopped(sub)  BY <1>2
  <1>4. live \ old \subseteq lost  BY <1>1, <1>3, TheOthersRest, StoppedLive
  <1>5. CASE \E g \in GwSub : /\ hand' = [hand EXCEPT ![h].step = "store", ![h].id = g]
                              /\ \/ live' = (live \ old) \cup {g} /\ lost' = lost
                                 \/ live' = live \cup {g} /\ lost' = lost \cup old
    <2>1. PICK g \in GwSub : /\ hand' = [hand EXCEPT ![h].step = "store", ![h].id = g]
                             /\ \/ live' = (live \ old) \cup {g} /\ lost' = lost
                                \/ live' = live \cup {g} /\ lost' = lost \cup old
      BY <1>5
    <2> DEFINE x == [hand[h] EXCEPT !.step = "store", !.id = g]
    <2>2. x \in HandRow /\ x.step = "store" /\ x.pay = hand[h].pay /\ x.id = g /\ x.sub = hand[h].sub
      BY <1>2 DEF HandRow
    <2>3. hand' = [hand EXCEPT ![h] = x]  BY <2>1
    <2>4. hand'[h] = x  BY <2>3 DEF SubIInv, SubTyped
    <2> HIDE DEF x, old
    <2>5. live' \subseteq lost' \cup {g}  BY <1>4, <2>1
    <2>6. live' \subseteq GwSub  BY <2>1 DEF SubIInv, SubTyped
    <2>7. HandOK(h)'  BY <1>1, <1>2, <2>2, <2>4, <2>5 DEF HandOK, ours, money
    <2>8. hand' \in [Handler -> HandRow] /\ OneHand' /\ \A j \in Handler : HandOK(j)'
      BY <1>1, <2>2, <2>3, <2>7, TheOthersRest, HandStep
    <2>9. RenewalsStop'  BY <2>2, <2>4, <2>5 DEF RenewalsStop
    <2>10. SubTyped'  BY <1>1, <2>6, <2>8, OursStay, MoneyStays DEF SubTyped
    <2>11. QED  BY <1>1, <2>8, <2>9, <2>10, OursStay, MoneyStays DEF SubIInv
  <1>6. CASE live' = live \ old /\ hand' = [hand EXCEPT ![h] = Idle] /\ lost' = lost
    <2>1. hand' \in [Handler -> HandRow] /\ OneHand' /\ \A j \in Handler : HandOK(j)'
      BY <1>1, <1>6, TheOthersRest, HandRests
    <2>2. live' \subseteq lost' /\ live' \subseteq GwSub  BY <1>4, <1>6 DEF SubIInv, SubTyped
    <2>3. RenewalsStop'  BY <2>2, OnRecordStops
    <2>4. SubTyped'  BY <1>1, <2>1, <2>2, OursStay, MoneyStays DEF SubTyped
    <2>5. QED  BY <1>1, <2>1, <2>3, <2>4, OursStay, MoneyStays DEF SubIInv
  <1>7. QED  BY <1>5, <1>6 DEF Open

\* A payment that takes effect was marked as paid and had none before.
LEMMA EffectOnce ==
  ASSUME SubIInv, NEW p \in Pay, honoured[p] = 0, billed[p] = "paid", Effect(p), UNCHANGED <<billed, gpay>>
  PROVE  honoured' \in [Pay -> Nat] /\ \A q \in Pay : PayOK(q)'
  <1>1. honoured \in [Pay -> Nat]  BY DEF SubIInv, SubTyped
  <1>2. honoured' \in [Pay -> Nat] /\ honoured'[p] = 1 /\ \A q \in Pay : q # p => honoured'[q] = honoured[q]
    BY <1>1 DEF Effect
  <1>3. QED  BY <1>2 DEF SubIInv, PayOK

LEMMA StoreStep ==
  ASSUME SubIInv, NEW h \in Handler, Store(h)
  PROVE  SubIInv'
  <1>1. /\ hand[h].step = "store" /\ hand' = [hand EXCEPT ![h] = Idle] /\ Effect(hand[h].pay)
        /\ UNCHANGED <<today, billed, gpay, live, lost>> /\ room' = Released(room)
    BY DEF Store, Answer
  <1>2. /\ hand[h].pay \in Pay /\ honoured[hand[h].pay] = 0 /\ billed[hand[h].pay] = "paid"
        /\ live \subseteq lost \cup {hand[h].id}
    BY <1>1 DEF SubIInv, HandOK
  <1>3. honoured' \in [Pay -> Nat] /\ \A q \in Pay : PayOK(q)'  BY <1>1, <1>2, EffectOnce
  <1>4. hand' \in [Handler -> HandRow] /\ OneHand' /\ \A j \in Handler : HandOK(j)'
    BY <1>1, TheOthersRest, HandRests
  <1>5. today \in Nat /\ sub \in SubRow /\ room \in SubRoomRow /\ hand[h] \in HandRow  BY DEF SubIInv, SubTyped
  <1>6. hand[h].id \in GwSub \cup {NoId} /\ today + Period \in Nat  BY <1>5 DEF HandRow
  <1>7. /\ sub' \in SubRow /\ sub'.status = "active" /\ sub'.provider = "mollie" /\ sub'.psid = hand[h].id
    BY <1>5, <1>6 DEF Store, SubRow, Day
  <1>8. room' \in SubRoomRow /\ ~room'.hold /\ room'.only = Never  BY <1>1, <1>5, RoomsTyped DEF Day
  <1>9. SubOK' /\ RunsWhilePaid'  BY <1>7, <1>8 DEF SubOK, RunsWhilePaid
  <1>10. RenewalsStop'  BY <1>1, <1>2, <1>7, OnRecordStops DEF OnRecord
  <1>11. SubTyped'  BY <1>1, <1>3, <1>4, <1>7, <1>8 DEF SubIInv, SubTyped
  <1>12. QED  BY <1>3, <1>4, <1>9, <1>10, <1>11 DEF SubIInv

LEMMA RenewStep ==
  ASSUME SubIInv, NEW h \in Handler, Renew(h)
  PROVE  SubIInv'
  <1>1. /\ hand[h].step = "act" /\ hand' = [hand EXCEPT ![h] = Idle]
        /\ UNCHANGED <<today, billed, gpay, live, lost>>
    BY DEF Renew, Answer
  <1>2. /\ hand[h].pay \in Pay /\ honoured[hand[h].pay] = 0 /\ hand[h].sub = sub
        /\ billed[hand[h].pay] = gpay[hand[h].pay].status
    BY <1>1 DEF SubIInv, HandOK
  <1>3. hand' \in [Handler -> HandRow] /\ OneHand' /\ \A j \in Handler : HandOK(j)'
    BY <1>1, TheOthersRest, HandRests
  <1>4. today \in Nat /\ sub \in SubRow /\ room \in SubRoomRow /\ sub.periodEnd \in Day  BY DEF SubIInv, SubTyped, SubRow
  <1>5. CASE gpay[hand[h].pay].status = "paid"
    <2>1. honoured' \in [Pay -> Nat] /\ \A q \in Pay : PayOK(q)'
      BY <1>1, <1>2, <1>5, EffectOnce DEF Renew
    <2>2. Later(sub.periodEnd, today) + Period \in Nat  BY <1>4, LaterTyped
    <2>3. /\ sub' \in SubRow /\ sub'.status = "active" /\ sub'.provider = sub.provider /\ sub'.psid = sub.psid
      BY <1>2, <1>4, <1>5, <2>2 DEF Renew, SubRow, Day
    <2>4. room' \in SubRoomRow /\ ~room'.hold /\ room'.only = Never
      BY <1>4, <1>5, RoomsTyped DEF Renew, Day
    <2>5. SubOK' /\ RunsWhilePaid'  BY <2>3, <2>4 DEF SubOK, RunsWhilePaid
    <2>6. RenewalsStop'  BY <1>1, <2>3, TheOthersRest, RenewalsStay DEF OnRecord
    <2>7. SubTyped'  BY <1>1, <1>3, <2>1, <2>3, <2>4 DEF SubIInv, SubTyped
    <2>8. QED  BY <1>3, <2>1, <2>5, <2>6, <2>7 DEF SubIInv
  <1>6. CASE gpay[hand[h].pay].status # "paid"
    <2>1. /\ UNCHANGED <<room, honoured>>
          /\ sub' = [sub EXCEPT !.status = IF @ = "active" THEN "past_due" ELSE @]
      BY <1>6 DEF Renew
    <2>2. /\ sub' \in SubRow /\ sub'.provider = sub.provider /\ sub'.psid = sub.psid
          /\ sub'.trialEnd = sub.trialEnd /\ sub'.periodEnd = sub.periodEnd
          /\ sub'.status = IF sub.status = "active" THEN "past_due" ELSE sub.status
      BY <1>4, <2>1 DEF SubRow
    <2>3. \A q \in Pay : PayOK(q)'  BY <1>1, <2>1 DEF SubIInv, PayOK
    <2>4. SubOK'  BY <1>1, <2>2 DEF SubIInv, SubOK
    <2>5. RunsWhilePaid'  BY <1>1, <2>1, <2>2 DEF SubIInv, RunsWhilePaid, Ends
    <2>6. RenewalsStop'  BY <1>1, <2>2, TheOthersRest, RenewalsStay DEF OnRecord
    <2>7. SubTyped'  BY <1>1, <1>3, <2>1, <2>2 DEF SubIInv, SubTyped
    <2>8. QED  BY <1>3, <2>3, <2>4, <2>5, <2>6, <2>7 DEF SubIInv
  <1>7. QED  BY <1>5, <1>6

LEMMA GrantCreditsStep ==
  ASSUME SubIInv, NEW h \in Handler, GrantCredits(h)
  PROVE  SubIInv'
  <1>1. /\ hand[h].step = "read" /\ gpay[hand[h].pay].status = "paid" /\ hand' = [hand EXCEPT ![h] = Idle]
        /\ UNCHANGED <<today, ours, billed, gpay, live, lost>>
    BY DEF GrantCredits, Answer
  <1>2. hand[h].pay \in Pay /\ honoured[hand[h].pay] = 0 /\ billed[hand[h].pay] = "paid"
    BY <1>1 DEF SubIInv, HandOK
  <1>3. Effect(hand[h].pay)  BY <1>2 DEF GrantCredits
  <1>4. honoured' \in [Pay -> Nat] /\ \A q \in Pay : PayOK(q)'  BY <1>1, <1>2, <1>3, EffectOnce
  <1>5. hand' \in [Handler -> HandRow] /\ OneHand' /\ \A j \in Handler : HandOK(j)'
    BY <1>1, TheOthersRest, HandRests
  <1>6. RenewalsStop'  BY <1>1, TheOthersRest, RenewalsStay DEF OnRecord, ours
  <1>7. SubTyped'  BY <1>1, <1>4, <1>5, OursStay DEF SubIInv, SubTyped
  <1>8. QED  BY <1>1, <1>4, <1>5, <1>6, <1>7, OursStay DEF SubIInv

\* Whatever a handler drops without writing, nothing is renewed unseen.
LEMMA DropStep ==
  ASSUME SubIInv, NEW h \in Handler, hand[h].step # "idle", hand' = [hand EXCEPT ![h] = Idle],
         lost' = (IF hand[h].step = "store" THEN lost \cup {hand[h].id} ELSE lost),
         UNCHANGED <<today, ours, money, live>>
  PROVE  SubIInv'
  <1>1. hand' \in [Handler -> HandRow] /\ OneHand' /\ \A j \in Handler : HandOK(j)'
    BY TheOthersRest, HandRests
  <1>2. RenewalsStop'
    <2>1. CASE hand[h].step = "store"
      <3>1. live \subseteq lost \cup {hand[h].id}  BY <2>1 DEF SubIInv, HandOK
      <3>2. QED  BY <2>1, <3>1, OnRecordStops
    <2>2. CASE hand[h].step # "store"  BY <2>2, TheOthersRest, RenewalsStay DEF OnRecord, ours
    <2>3. QED  BY <2>1, <2>2
  <1>3. SubTyped'  BY <1>1, OursStay, MoneyStays DEF SubIInv, SubTyped
  <1>4. QED  BY <1>1, <1>2, <1>3, OursStay, MoneyStays DEF SubIInv

LEMMA IdleHand ==
  ASSUME SubIInv, NEW h \in Handler, hand[h].step = "idle"
  PROVE  hand[h] = Idle
  BY DEF SubIInv, HandOK

-----------------------------------------------------------------------------
(* The round.                                                              *)

LEMMA ReadsStep ==
  ASSUME SubIInv, AllIdle, NEW h \in Handler, RoundReads(h) \/ HoldReads(h)
  PROVE  SubIInv'
  <1> DEFINE x == IF RoundReads(h) THEN [Idle EXCEPT !.step = "round", !.sub = sub]
                  ELSE [Idle EXCEPT !.step = "stale"]
  <1>1. hand' = [hand EXCEPT ![h] = x] /\ UNCHANGED <<today, ours, money, live, lost>>
    BY DEF RoundReads, HoldReads
  <1>2. x \in HandRow /\ x.step \in {"round", "stale"} /\ x.id = NoId
        /\ (x.step = "round" => x.sub = sub) /\ (x.step = "stale" => ~RoundReads(h))
    BY RowsTyped DEF HandRow, Idle, SubIInv, SubTyped
  <1>3. HoldReads(h) => ~SubCovered  BY DEF HoldReads, SubIInv, RunsWhilePaid, SubCovered
  <1>4. hand'[h] = x  BY <1>1 DEF SubIInv, SubTyped
  <1> HIDE DEF x
  <1>5. SubCovered' = SubCovered  BY <1>1, OursStay
  <1>6. HandOK(h)'  BY <1>1, <1>2, <1>3, <1>4, <1>5 DEF HandOK, ours
  <1>7. \A j \in Handler \ {h} : hand[j] = Idle  BY DEF AllIdle
  <1>8. hand' \in [Handler -> HandRow] /\ OneHand' /\ \A j \in Handler : HandOK(j)'
    BY <1>1, <1>2, <1>6, <1>7, HandStep
  <1>9. RenewalsStop'  BY <1>1, IdleIsNoStep, RenewalsStay DEF OnRecord, ours
  <1>10. SubTyped'  BY <1>1, <1>8, OursStay, MoneyStays DEF SubIInv, SubTyped
  <1>11. QED  BY <1>1, <1>8, <1>9, <1>10, OursStay, MoneyStays DEF SubIInv

LEMMA RoundWritesStep ==
  ASSUME SubIInv, NEW h \in Handler, RoundWrites(h)
  PROVE  SubIInv'
  <1>1. /\ hand[h].step = "round" /\ hand' = [hand EXCEPT ![h] = Idle]
        /\ UNCHANGED <<today, money, live, lost>>
    BY DEF RoundWrites
  <1>2. hand[h].sub = sub  BY <1>1 DEF SubIInv, HandOK
  <1>3. today \in Nat /\ sub \in SubRow /\ room \in SubRoomRow /\ sub.periodEnd \in Day  BY DEF SubIInv, SubTyped, SubRow
  <1>4. hand' \in [Handler -> HandRow] /\ OneHand' /\ \A j \in Handler : HandOK(j)'
    BY <1>1, TheOthersRest, HandRests
  <1>5. /\ sub' \in SubRow /\ sub'.provider = sub.provider /\ sub'.psid = sub.psid
        /\ sub'.trialEnd = sub.trialEnd /\ sub'.periodEnd = sub.periodEnd
        /\ sub'.status = IF Over(sub, today) THEN "expired" ELSE sub.status
    BY <1>2, <1>3 DEF RoundWrites, SubRow
  <1>6. room' = IF Over(sub, today) THEN OnlyFrom(room, today) ELSE room  BY <1>2 DEF RoundWrites
  <1>7. room' \in SubRoomRow  BY <1>3, <1>6, RoomsTyped DEF Day
  <1>8. SubOK'
    <2>1. CASE Over(sub, today)
      <3>1. sub.periodEnd <= today  BY <2>1, <1>3 DEF Over, Ends, SubIInv, SubOK, Day, Never
      <3>2. QED  BY <3>1, <2>1, <1>1, <1>5 DEF SubOK
    <2>2. CASE ~Over(sub, today)  BY <2>2, <1>1, <1>5 DEF SubIInv, SubOK
    <2>3. QED  BY <2>1, <2>2
  <1>9. RunsWhilePaid'
    <2>1. CASE Over(sub, today)  BY <2>1, <1>5 DEF RunsWhilePaid
    <2>2. CASE ~Over(sub, today)  BY <2>2, <1>1, <1>5, <1>6 DEF SubIInv, RunsWhilePaid, Ends
    <2>3. QED  BY <2>1, <2>2
  <1>10. RenewalsStop'  BY <1>1, <1>5, TheOthersRest, RenewalsStay DEF OnRecord
  <1>11. SubTyped'  BY <1>1, <1>4, <1>5, <1>7, MoneyStays DEF SubIInv, SubTyped
  <1>12. QED  BY <1>1, <1>4, <1>8, <1>9, <1>10, <1>11, MoneyStays DEF SubIInv

LEMMA HoldWritesStep ==
  ASSUME SubIInv, NEW h \in Handler, HoldWrites(h)
  PROVE  SubIInv'
  <1>1. /\ hand[h].step = "stale" /\ hand' = [hand EXCEPT ![h] = Idle]
        /\ UNCHANGED <<today, sub, money, live, lost>>
    BY DEF HoldWrites
  <1>2. ~SubCovered  BY <1>1 DEF SubIInv, HandOK
  <1>3. room' \in SubRoomRow  BY RoomsTyped DEF HoldWrites, SubIInv, SubTyped, SubRoomRow, Held, Day
  <1>4. hand' \in [Handler -> HandRow] /\ OneHand' /\ \A j \in Handler : HandOK(j)'
    BY <1>1, TheOthersRest, HandRests
  <1>5. SubOK' /\ RunsWhilePaid'  BY <1>1, <1>2 DEF SubIInv, SubOK, RunsWhilePaid, SubCovered, Ends
  <1>6. RenewalsStop'  BY <1>1, TheOthersRest, RenewalsStay DEF OnRecord
  <1>7. SubTyped'  BY <1>1, <1>3, <1>4, MoneyStays DEF SubIInv, SubTyped
  <1>8. QED  BY <1>1, <1>4, <1>5, <1>6, <1>7, MoneyStays DEF SubIInv

-----------------------------------------------------------------------------
LEMMA WebhookStep ==
  ASSUME SubIInv, ~NoticesOverlap, Webhook
  PROVE  SubIInv'
  <1>1. PICK h \in Handler :
          \/ \E p \in Pay : Notice(h, p)
          \/ Mark(h) \/ ReadSubscription(h) \/ Open(h) \/ Store(h) \/ Renew(h) \/ GrantCredits(h)
          \/ NothingToDo(h) \/ Die(h)
    BY DEF Webhook
  <1>2. CASE \E p \in Pay : Notice(h, p)
    <2>1. PICK p \in Pay : Notice(h, p)  BY <1>2
    <2>2. AllIdle  BY <2>1 DEF Notice, Undisturbed, AllIdle
    <2>3. QED  BY <2>1, <2>2, NoticeStep
  <1>3. CASE NothingToDo(h)
    <2>1. hand[h].step \notin {"idle", "store"}  BY <1>3 DEF NothingToDo
    <2>2. hand' = [hand EXCEPT ![h] = Idle] /\ UNCHANGED <<today, ours, money, live, lost>>
      BY <1>3 DEF NothingToDo
    <2>3. QED  BY <2>1, <2>2, DropStep
  <1>4. CASE Die(h)
    <2>1. hand[h].step # "idle"  BY <1>4, IdleHand DEF Die
    <2>2. QED  BY <1>4, <2>1, DropStep DEF Die
  <1>5. QED
    BY <1>1, <1>2, <1>3, <1>4, MarkStep, ReadSubscriptionStep, OpenStep, StoreStep, RenewStep, GrantCreditsStep

LEMMA LifecycleStep ==
  ASSUME SubIInv, ~NoticesOverlap, Lifecycle
  PROVE  SubIInv'
  <1>1. PICK h \in Handler : RoundReads(h) \/ RoundWrites(h) \/ HoldReads(h) \/ HoldWrites(h)  BY DEF Lifecycle
  <1>2. RoundReads(h) \/ HoldReads(h) => AllIdle  BY DEF RoundReads, HoldReads, Undisturbed, AllIdle
  <1>3. QED  BY <1>1, <1>2, ReadsStep, RoundWritesStep, HoldWritesStep

LEMMA PlansStep ==
  ASSUME SubIInv, ~NoticesOverlap, NEW provider \in {"manual", "reseller"}, Plans(provider)
  PROVE  SubIInv'
  <1>1. PICK chosen \in {"trial", "starter"}, until \in {Never, today + Period} : Start(chosen, provider, until)
    BY DEF Plans
  <1>2. AllIdle  BY <1>1 DEF Start, Undisturbed, AllIdle
  <1>3. QED  BY <1>1, <1>2, StartStep

LEMMA SubPeopleStep ==
  ASSUME SubIInv, ~NoticesOverlap, AccountPage \/ OperatorAPI \/ ConsolePages \/ \E b \in BOOLEAN : SetActive(b)
  PROVE  SubIInv'
  <1>1. CASE Cancel  BY <1>1, CancelStep DEF Cancel, Undisturbed, AllIdle
  <1>2. CASE RecordPayment  BY <1>2, RecordPaymentStep DEF RecordPayment, Undisturbed, AllIdle
  <1>3. CASE \E p \in Pay, kind \in {"first", "credits"} : Checkout(p, kind)
    <2>1. PICK p \in Pay, kind \in {"first", "credits"} : Checkout(p, kind)  BY <1>3
    <2>2. AllIdle  BY <2>1 DEF Checkout, Undisturbed, AllIdle
    <2>3. QED  BY <2>1, <2>2, CheckoutStep
  <1>4. CASE \E p \in Pay, then \in {"none", "renewals", "now"} : Refund(p, then)
    <2>1. PICK p \in Pay, then \in {"none", "renewals", "now"} : Refund(p, then)  BY <1>4
    <2>2. AllIdle  BY <2>1 DEF Refund, Undisturbed, AllIdle
    <2>3. QED  BY <2>1, <2>2, RefundStep
  <1>5. CASE \E b \in BOOLEAN : SetActive(b)
    <2>1. PICK b \in BOOLEAN : SetActive(b)  BY <1>5
    <2>2. AllIdle  BY <2>1 DEF SetActive, Undisturbed, AllIdle
    <2>3. QED  BY <2>1, <2>2, SetActiveStep
  <1>6. CASE Plans("manual") \/ Plans("reseller")  BY <1>6, PlansStep
  <1>7. QED  BY <1>1, <1>2, <1>3, <1>4, <1>5, <1>6 DEF AccountPage, OperatorAPI, ConsolePages

LEMMA SubNextHolds ==
  ASSUME SubIInv, ~NoticesOverlap, [SubNext]_subVars
  PROVE  SubIInv'
  <1>1. CASE Gateway
    <2>1. PICK p \in Pay : \/ \E status \in {"paid", "failed"} : GatewaySettles(p, status)
                           \/ \E g \in GwSub : GatewayRenews(p, g)
      BY <1>1 DEF Gateway
    <2>2. QED  BY <2>1, SettlesStep, RenewsStep
  <1>2. CASE NextDay  BY <1>2, NextDayStep DEF NextDay, Undisturbed, AllIdle
  <1>3. CASE UNCHANGED subVars
    BY <1>3 DEF subVars, SubIInv, SubTyped, SubOK, RunsWhilePaid, RenewalsStop, PayOK, HandOK, OneHand, SubCovered, Ends
  <1>4. QED  BY <1>1, <1>2, <1>3, SubPeopleStep, WebhookStep, LifecycleStep DEF SubNext

(***************************************************************************)
(* The theorems.                                                           *)
(***************************************************************************)
LEMMA SubInvariant == ~NoticesOverlap => (SubSpec => []SubIInv)
  <1> SUFFICES ASSUME ~NoticesOverlap PROVE SubSpec => []SubIInv  OBVIOUS
  <1>1. SubInit => SubIInv  BY SubInitHolds
  <1>2. SubIInv /\ [SubNext]_subVars => SubIInv'  BY SubNextHolds
  <1>3. QED  BY <1>1, <1>2, PTL DEF SubSpec

\* Every row holds what the code may write in it (billing.py).
THEOREM SubTypeCorrect == ~NoticesOverlap => (SubSpec => []SubTypeOK)
  <1>1. SubIInv => SubTypeOK  BY DEF SubIInv, SubTyped, SubTypeOK, SubRow, SubRoomRow, Day
  <1>2. QED  BY <1>1, SubInvariant, PTL

\* A payment takes effect at most once, however often its notice comes and
\* wherever the process that handles one dies (billing.gateway_event).
THEOREM PaymentHonouredOnce == ~NoticesOverlap => (SubSpec => []HonouredOnce)
  <1>1. SubIInv => HonouredOnce  BY DEF SubIInv, HonouredOnce, PayOK
  <1>2. QED  BY <1>1, SubInvariant, PTL

\* No round, refund or notice leaves the newsroom stopped or on proposals only
\* before its trial or its paid period ends (billing.lifecycle).
THEOREM PaidNewsroomRuns == ~NoticesOverlap => (SubSpec => []RunsWhilePaid)
  <1>1. SubIInv => RunsWhilePaid  BY DEF SubIInv
  <1>2. QED  BY <1>1, SubInvariant, PTL

\* The gateway renews nothing but the subscription on record, save what a crash
\* or a refused cancellation left alive (billing._leave_the_gateway).
THEOREM RenewalsFollowTheRow == ~NoticesOverlap => (SubSpec => []RenewalsStop)
  <1>1. SubIInv => RenewalsStop  BY DEF SubIInv
  <1>2. QED  BY <1>1, SubInvariant, PTL

HIDE SubscriptionsAssumption

-----------------------------------------------------------------------------
(***************************************************************************)
(* For any references, people, newsroom ids and calls under way: the trial *)
(* is given once, and what the public site sells starts with its payment.  *)
(***************************************************************************)

BuyerRow == [who : Who, plan : {"trial", "paid", "resold"}]
SignupsRoomRow == [id : Id \cup {Nothing}, held : BOOLEAN, of : Customers \cup {Nothing}]
BillRow == [status : {"none", "trialing", "active", "expired"}, plan : {"trial", "paid"}]
CallRow == [step : {"idle", "room", "start", "look", "mark", "desired"}, ref : Ref \cup {Nothing},
            new : BOOLEAN, match : BOOLEAN]

(***************************************************************************)
(* The inductive invariant.                                                *)
(***************************************************************************)
SignupsTyped ==
  /\ buyer \in [Ref -> BuyerRow] /\ customer \subseteq Customers /\ marks \subseteq Who \X Id
  /\ made \in [Ref -> SignupsRoomRow] /\ bill \in [Ref -> BillRow]
  /\ call \in [Caller -> CallRow] /\ answered \subseteq Ref /\ given \subseteq Ref \X Id
  /\ \A r \in Ref : made[r].of # Nothing => made[r].of \in customer

\* A call has its customer, alone with its reference, and from its second step on
\* a newsroom; the subscription is there from the fourth.
CallOK(c) ==
  LET r == call[c].ref
  IN /\ call[c].step = "idle" => call[c] = NoCall
     /\ call[c].step # "idle" =>
          r \in Ref /\ r \in customer /\ \A d \in Caller \ {c} : call[d].step # "idle" => call[d].ref # r
     /\ call[c].step \in {"start", "look", "mark", "desired"} => made[r].id # Nothing
     /\ call[c].step = "start" => bill[r] = NoBill
     /\ call[c].step \in {"look", "mark", "desired"} => bill[r].status # "none"

\* A newsroom without a subscription that may still begin a trial unchecked was
\* left by a call that died, or is being made.
BeginsChecked(r) ==
  made[r].id # Nothing /\ bill[r] = NoBill /\ buyer[r].plan # "resold" =>
    r \in unchecked \/ \E c \in Caller : call[c].step = "start" /\ call[c].ref = r /\ call[c].new

\* An answered signup has its subscription; what was bought runs only by a payment.
RefOK(r) ==
  /\ bill[r].status = "none" => bill[r] = NoBill
  /\ made[r].id = Nothing => bill[r] = NoBill
  /\ r \in answered => made[r].id # Nothing /\ bill[r].status # "none"
  /\ Buys(r) /\ bill[r].status = "active" => r \in helped
  /\ buyer[r].plan = "resold" /\ bill[r].status = "trialing" => r \in helped
  /\ r \in answered /\ Buys(r) => made[r].held \/ r \in helped
  /\ BeginsChecked(r)

OwnIds == \A q, r \in Ref : made[q].id = made[r].id /\ made[q].id # Nothing => q = r

\* Somebody's check is under way: the trial runs, its signup is not to be answered yet.
Looked(r) == \E c \in Caller : call[c].step \in {"look", "mark"} /\ call[c].ref = r

\* A trial that would be given if its signup were answered now.
SignupsDue(r) ==
  /\ buyer[r].plan = "trial" /\ bill[r].status = "trialing" /\ r \notin helped \cup unchecked
  /\ ~Looked(r)

Passed(c) == call[c].step = "mark" /\ ~call[c].match   \* its check found nobody

\* Nobody's trial but the one of this newsroom was given to the person.
OnlyGiven(r) == \A g \in given : buyer[g[1]].who = buyer[r].who => g[2] = made[r].id
NoOtherDue(r) == \A q \in Ref \ {r} : SignupsDue(q) => buyer[q].who # buyer[r].who
NoOtherPassed(c) ==
  \A d \in Caller \ {c} : Passed(d) => buyer[call[d].ref].who # buyer[call[c].ref].who

Trials ==
  /\ \A g \in given : <<buyer[g[1]].who, g[2]>> \in marks
  /\ \A r \in Ref : SignupsDue(r) => <<buyer[r].who, made[r].id>> \in marks /\ OnlyGiven(r) /\ NoOtherDue(r)
  /\ \A c \in Caller : Passed(c) => OnlyGiven(call[c].ref) /\ NoOtherDue(call[c].ref) /\ NoOtherPassed(c)

SignupsIInv ==
  /\ SignupsTyped /\ OwnIds /\ TrialOnce /\ Trials
  /\ \A c \in Caller : CallOK(c)
  /\ \A r \in Ref : RefOK(r)

-----------------------------------------------------------------------------
USE SignupsAssumption

LEMMA NoCallRow == NoCall \in CallRow /\ NoCall.step = "idle" /\ NoCall.ref = Nothing
  BY DEF NoCall, CallRow

LEMMA SignupsInitHolds == SignupsInit => SignupsIInv
  <1> SUFFICES ASSUME SignupsInit PROVE SignupsIInv  OBVIOUS
  <1>1. SignupsTyped
    <2>1. NoRoom \in SignupsRoomRow /\ NoBill \in BillRow  BY DEF NoRoom, NoBill, SignupsRoomRow, BillRow
    <2>2. made \in [Ref -> SignupsRoomRow] /\ bill \in [Ref -> BillRow] /\ call \in [Caller -> CallRow]
      BY <2>1, NoCallRow DEF SignupsInit
    <2>3. \A r \in Ref : made[r].of = Nothing  BY DEF SignupsInit, NoRoom
    <2>4. QED  BY <2>2, <2>3 DEF SignupsInit, SignupsTyped, BuyerRow
  <1>2. \A c \in Caller : CallOK(c) /\ ~Passed(c)  BY NoCallRow DEF SignupsInit, CallOK, Passed
  <1>3. \A r \in Ref : bill[r].status = "none" /\ bill[r] = NoBill /\ made[r].id = Nothing
    BY DEF SignupsInit, NoBill, NoRoom
  <1>4. \A r \in Ref : RefOK(r) /\ ~SignupsDue(r)
    BY <1>3 DEF SignupsInit, RefOK, BeginsChecked, SignupsDue
  <1>5. OwnIds /\ TrialOnce /\ Trials  BY <1>2, <1>3, <1>4 DEF SignupsInit, OwnIds, TrialOnce, Trials
  <1>6. QED  BY <1>1, <1>2, <1>4, <1>5 DEF SignupsIInv

-----------------------------------------------------------------------------
(* What steps leave as it was.                                             *)

LEMMA RefStays ==
  ASSUME NEW q \in Ref, RefOK(q), buyer' = buyer,
         made'[q].id = made[q].id, made'[q].held = made[q].held, bill'[q] = bill[q],
         q \in answered' => q \in answered, q \in helped => q \in helped',
         q \in unchecked => q \in unchecked',
         \A c \in Caller : call[c].step = "start" /\ call[c].ref = q =>
                             call'[c] = call[c] \/ q \in unchecked'
  PROVE  RefOK(q)'
  <1>1. BeginsChecked(q)'  BY DEF RefOK, BeginsChecked
  <1>2. QED  BY <1>1 DEF RefOK, Buys

\* No trial that was not due becomes due, and the checks that passed are the same.
LEMMA TrialsStay ==
  ASSUME SignupsTyped, TrialOnce, Trials, buyer' = buyer, given' = given, marks \subseteq marks',
         \A r \in Ref : SignupsDue(r)' => SignupsDue(r) /\ made'[r].id = made[r].id,
         \A c \in Caller : Passed(c)' =>
            /\ Passed(c) /\ call'[c] = call[c]
            /\ call[c].ref \in Ref /\ made'[call[c].ref].id = made[call[c].ref].id
  PROVE  TrialOnce' /\ Trials'
  <1>1. TrialOnce'  BY DEF TrialOnce, SamePerson
  <1>2. \A r \in Ref : made'[r].id = made[r].id /\ OnlyGiven(r) => OnlyGiven(r)'  BY DEF OnlyGiven
  <1>3. \A r \in Ref : NoOtherDue(r) => NoOtherDue(r)'  BY DEF NoOtherDue
  <1>4. \A c \in Caller : Passed(c)' /\ NoOtherPassed(c) => NoOtherPassed(c)'
    BY DEF NoOtherPassed
  <1>5. \A g \in given' : (<<buyer[g[1]].who, g[2]>> \in marks)'  BY DEF Trials
  <1>6. \A r \in Ref : SignupsDue(r)' =>
          (<<buyer[r].who, made[r].id>> \in marks)' /\ OnlyGiven(r)' /\ NoOtherDue(r)'
    BY <1>2, <1>3 DEF Trials
  <1>7. \A c \in Caller : Passed(c)' =>
          OnlyGiven(call[c].ref)' /\ NoOtherDue(call[c].ref)' /\ NoOtherPassed(c)'
    <2> SUFFICES ASSUME NEW c \in Caller, Passed(c)'
                 PROVE  OnlyGiven(call[c].ref)' /\ NoOtherDue(call[c].ref)' /\ NoOtherPassed(c)'
      OBVIOUS
    <2>1. /\ OnlyGiven(call[c].ref) /\ NoOtherDue(call[c].ref) /\ NoOtherPassed(c)
          /\ call'[c].ref = call[c].ref
      BY DEF Trials
    <2> DEFINE r == call[c].ref
    <2>2. r \in Ref /\ made'[r].id = made[r].id  OBVIOUS
    <2> HIDE DEF r
    <2>3. OnlyGiven(r)' /\ NoOtherDue(r)'  BY <1>2, <1>3, <2>1, <2>2 DEF r
    <2>4. OnlyGiven(call[c].ref)' /\ NoOtherDue(call[c].ref)'
      BY <2>1, <2>3 DEF r, OnlyGiven, NoOtherDue
    <2>5. QED  BY <1>4, <2>1, <2>4
  <1>8. QED  BY <1>1, <1>5, <1>6, <1>7 DEF Trials

\* The calls, when one of them moves and the others' newsrooms are left alone.
LEMMA CallMoves ==
  ASSUME SignupsIInv, NEW c \in Caller, NEW x \in CallRow, call' = [call EXCEPT ![c] = x],
         customer \subseteq customer',
         x.step = "idle" => x = NoCall,
         x.step # "idle" =>
           /\ x.ref \in Ref /\ x.ref \in customer'
           /\ \A d \in Caller \ {c} : call[d].step # "idle" => call[d].ref # x.ref,
         x.step \in {"start", "look", "mark", "desired"} => made'[x.ref].id # Nothing,
         x.step = "start" => bill'[x.ref] = NoBill,
         x.step \in {"look", "mark", "desired"} => bill'[x.ref].status # "none",
         \A d \in Caller \ {c} : call[d].step # "idle" =>
           made'[call[d].ref].id = made[call[d].ref].id /\ bill'[call[d].ref] = bill[call[d].ref]
  PROVE  call' \in [Caller -> CallRow] /\ \A d \in Caller : CallOK(d)'
  <1>1. call \in [Caller -> CallRow]  BY DEF SignupsIInv, SignupsTyped
  <1>2. /\ call' \in [Caller -> CallRow] /\ call'[c] = x
        /\ \A d \in Caller \ {c} : call'[d] = call[d]
    BY <1>1
  <1>3. CallOK(c)'  BY <1>2 DEF CallOK
  <1>4. ASSUME NEW d \in Caller \ {c} PROVE CallOK(d)'
    <2>1. CallOK(d) /\ call'[d] = call[d]  BY <1>2 DEF SignupsIInv
    <2>2. call[d].step # "idle" =>
            /\ call[d].ref \in Ref /\ call[d].ref \in customer'
            /\ \A e \in Caller \ {d} : call'[e].step # "idle" => call'[e].ref # call[d].ref
      <3> SUFFICES ASSUME call[d].step # "idle", NEW e \in Caller \ {d}, call'[e].step # "idle"
                   PROVE  call[d].ref \in Ref /\ call[d].ref \in customer' /\ call'[e].ref # call[d].ref
        BY <2>1 DEF CallOK
      <3>1. call[d].ref \in Ref /\ call[d].ref \in customer'  BY <2>1 DEF CallOK
      <3>2. CASE e = c  BY <1>2, <3>1, <3>2
      <3>3. CASE e # c  BY <1>2, <2>1, <3>1, <3>3 DEF CallOK
      <3>4. QED  BY <3>2, <3>3
    <2>3. QED  BY <2>1, <2>2 DEF CallOK
  <1>5. QED  BY <1>2, <1>3, <1>4

\* A call that goes on, or ends, changes rows of its own reference only.
LEMMA CallGoesOn ==
  ASSUME SignupsIInv, NEW c \in Caller, call[c].step # "idle", NEW x \in CallRow,
         call' = [call EXCEPT ![c] = x], customer' = customer,
         x = NoCall \/ (x.step # "idle" /\ x.ref = call[c].ref),
         x.step \in {"start", "look", "mark", "desired"} => made'[x.ref].id # Nothing,
         x.step = "start" => bill'[x.ref] = NoBill,
         x.step \in {"look", "mark", "desired"} => bill'[x.ref].status # "none",
         \A q \in Ref \ {call[c].ref} : made'[q].id = made[q].id /\ bill'[q] = bill[q]
  PROVE  call' \in [Caller -> CallRow] /\ \A d \in Caller : CallOK(d)'
  <1>1. \A d \in Caller : CallOK(d)  BY DEF SignupsIInv
  <1>2. \A d \in Caller \ {c} : call[d].step # "idle" =>
           made'[call[d].ref].id = made[call[d].ref].id /\ bill'[call[d].ref] = bill[call[d].ref]
    BY <1>1 DEF CallOK
  <1>3. x.step = "idle" => x = NoCall  BY NoCallRow
  <1>4. x.step # "idle" =>
           /\ x.ref \in Ref /\ x.ref \in customer'
           /\ \A d \in Caller \ {c} : call[d].step # "idle" => call[d].ref # x.ref
    BY <1>1, NoCallRow DEF CallOK
  <1>5. QED  BY <1>2, <1>3, <1>4, CallMoves

\* What one call's step leaves of the others: their checks and their references.
LEMMA OthersStay ==
  ASSUME SignupsIInv, NEW c \in Caller, call[c].step # "idle", NEW x \in CallRow,
         call' = [call EXCEPT ![c] = x],
         NEW q \in Ref, q # call[c].ref, made'[q] = made[q], bill'[q] = bill[q], buyer' = buyer,
         q \in answered' => q \in answered, helped' = helped, unchecked' = unchecked
  PROVE  RefOK(q)'
  <1>1. RefOK(q) /\ \A d \in Caller \ {c} : call'[d] = call[d]  BY DEF SignupsIInv, SignupsTyped
  <1>2. QED  BY <1>1, RefStays

\* A step of a call whose check has not passed after it keeps the passed ones.
LEMMA PassedStay ==
  ASSUME SignupsIInv, NEW c \in Caller, NEW x \in CallRow,
         call' = [call EXCEPT ![c] = x], x.step # "mark",
         \A q \in Ref : q # call[c].ref \/ call[c].step = "idle" => made'[q].id = made[q].id
  PROVE  \A d \in Caller : Passed(d)' =>
            /\ Passed(d) /\ call'[d] = call[d]
            /\ call[d].ref \in Ref /\ made'[call[d].ref].id = made[call[d].ref].id
  <1>1. call \in [Caller -> CallRow] /\ \A d \in Caller : CallOK(d)  BY DEF SignupsIInv, SignupsTyped
  <1> SUFFICES ASSUME NEW d \in Caller, Passed(d)'
               PROVE  /\ Passed(d) /\ call'[d] = call[d]
                      /\ call[d].ref \in Ref /\ made'[call[d].ref].id = made[call[d].ref].id
    OBVIOUS
  <1>2. d # c  BY <1>1 DEF Passed
  <1>3. call'[d] = call[d] /\ Passed(d) /\ call[d].step = "mark"  BY <1>1, <1>2 DEF Passed
  <1>4. call[d].ref \in Ref /\ (call[c].step # "idle" => call[d].ref # call[c].ref)
    BY <1>1, <1>2, <1>3 DEF CallOK
  <1>5. QED  BY <1>3, <1>4

LEMMA LookedStays ==
  ASSUME SignupsIInv, NEW c \in Caller, NEW x \in CallRow, call' = [call EXCEPT ![c] = x], NEW q \in Ref,
         (call[c].step \in {"look", "mark"} /\ call[c].ref = q) =>
             (x.step \in {"look", "mark"} /\ x.ref = q),
         Looked(q)
  PROVE  Looked(q)'
  <1>1. call \in [Caller -> CallRow]  BY DEF SignupsIInv, SignupsTyped
  <1>2. PICK d \in Caller : call[d].step \in {"look", "mark"} /\ call[d].ref = q  BY DEF Looked
  <1>3. call'[d].step \in {"look", "mark"} /\ call'[d].ref = q  BY <1>1, <1>2
  <1>4. QED  BY <1>3 DEF Looked

-----------------------------------------------------------------------------
(* The steps of a call.                                                    *)

LEMMA SignupStep ==
  ASSUME SignupsIInv, NEW c \in Caller, NEW r \in Ref, Signup(c, r)
  PROVE  SignupsIInv'
  <1> DEFINE x == [NoCall EXCEPT !.step = "room", !.ref = r]
  <1>1. /\ call[c] = NoCall /\ OnlyCall(r) /\ call' = [call EXCEPT ![c] = x]
        /\ customer' = customer \cup {r}
        /\ UNCHANGED <<buyer, made, bill, marks, answered, given, helped, unchecked>>
    BY DEF Signup, history
  <1>2. x \in CallRow /\ x.step = "room" /\ x.ref = r  BY NoCallRow DEF NoCall, CallRow
  <1>3. call[c].step = "idle"  BY <1>1, NoCallRow
  <1> HIDE DEF x
  <1>4. call' \in [Caller -> CallRow] /\ \A d \in Caller : CallOK(d)'
    BY <1>1, <1>2, CallMoves DEF OnlyCall
  <1>5. \A q \in Ref : RefOK(q)'
    <2> SUFFICES ASSUME NEW q \in Ref PROVE RefOK(q)'  OBVIOUS
    <2>1. \A d \in Caller : call[d].step = "start" => call'[d] = call[d]
      BY <1>1, <1>3 DEF SignupsIInv, SignupsTyped
    <2>2. QED  BY <2>1, <1>1, RefStays DEF SignupsIInv
  <1>6. \A q \in Ref : SignupsDue(q)' => SignupsDue(q) /\ made'[q].id = made[q].id
    BY <1>1, <1>2, <1>3, LookedStays DEF SignupsDue
  <1>7. \A d \in Caller : Passed(d)' =>
            /\ Passed(d) /\ call'[d] = call[d]
            /\ call[d].ref \in Ref /\ made'[call[d].ref].id = made[call[d].ref].id
    BY <1>1, <1>2, PassedStay
  <1>8. TrialOnce' /\ Trials'  BY <1>1, <1>6, <1>7, TrialsStay DEF SignupsIInv
  <1>9. SignupsTyped' /\ OwnIds'  BY <1>1, <1>4 DEF SignupsIInv, SignupsTyped, OwnIds, Customers
  <1>10. QED  BY <1>4, <1>5, <1>8, <1>9 DEF SignupsIInv

LEMMA MakeRoomStep ==
  ASSUME SignupsIInv, NEW c \in Caller, NEW r \in Ref, r = call[c].ref, MakeRoom(c)
  PROVE  SignupsIInv'
  <1>1. /\ call[c].step = "room"
        /\ UNCHANGED <<buyer, customer, bill, marks, answered, given, helped, unchecked>>
    BY DEF MakeRoom, history
  <1>2. /\ SignupsTyped /\ r \in Ref /\ r \in customer /\ call[c] \in CallRow /\ RefOK(r)
        /\ \A d \in Caller \ {c} : call[d].step # "idle" => call[d].ref # r
    BY <1>1 DEF SignupsIInv, SignupsTyped, CallOK
  <1>3. CASE made[r].id = Nothing
    <2>1. PICK i \in Id : IsFree(i) /\ made' = [made EXCEPT ![r] = [NoRoom EXCEPT !.id = i]]
      BY <1>3 DEF MakeRoom
    <2> DEFINE x == [call[c] EXCEPT !.new = TRUE, !.step = "start"]
    <2>2. call' = [call EXCEPT ![c] = x]  BY <1>3 DEF MakeRoom
    <2>3. x \in CallRow /\ x.step = "start" /\ x.ref = r /\ x.new  BY <1>2 DEF CallRow
    <2>4. call'[c] = x /\ \A d \in Caller \ {c} : call'[d] = call[d]  BY <2>2, <1>2 DEF SignupsTyped
    <2> HIDE DEF x
    <2>5. made'[r].id = i /\ made'[r].of = Nothing /\ \A q \in Ref \ {r} : made'[q] = made[q]
      BY <2>1, <1>2 DEF NoRoom, SignupsTyped
    <2>6. made' \in [Ref -> SignupsRoomRow]  BY <2>1, <1>2 DEF NoRoom, SignupsRoomRow, SignupsTyped
    <2>7. bill[r] = NoBill /\ r \notin answered /\ bill[r].status = "none"
      BY <1>2, <1>3 DEF RefOK, NoBill
    <2>8. call' \in [Caller -> CallRow] /\ \A d \in Caller : CallOK(d)'
      BY <1>1, <2>2, <2>3, <2>5, <2>7, CallGoesOn
    <2>9. RefOK(r)'
      <3>1. BeginsChecked(r)'  BY <2>3, <2>4 DEF BeginsChecked
      <3>2. QED  BY <1>1, <2>5, <2>7, <3>1 DEF RefOK
    <2>10. \A q \in Ref : RefOK(q)'
      <3> SUFFICES ASSUME NEW q \in Ref, q # r PROVE RefOK(q)'  BY <2>9
      <3>1. QED  BY <1>1, <2>2, <2>3, <2>5, OthersStay
    <2>11. \A q \in Ref : SignupsDue(q)' => SignupsDue(q) /\ made'[q].id = made[q].id
      <3> SUFFICES ASSUME NEW q \in Ref, SignupsDue(q)' PROVE SignupsDue(q) /\ made'[q].id = made[q].id  OBVIOUS
      <3>1. q # r  BY <1>1, <2>7 DEF SignupsDue
      <3>2. ~Looked(q)  BY <1>1, <2>2, <2>3, LookedStays DEF SignupsDue
      <3>3. QED  BY <1>1, <2>5, <3>1, <3>2 DEF SignupsDue
    <2>12. \A d \in Caller : Passed(d)' =>
            /\ Passed(d) /\ call'[d] = call[d]
            /\ call[d].ref \in Ref /\ made'[call[d].ref].id = made[call[d].ref].id
      BY <1>1, <2>2, <2>3, <2>5, PassedStay
    <2>13. TrialOnce' /\ Trials'  BY <1>1, <2>11, <2>12, TrialsStay DEF SignupsIInv
    <2>14. OwnIds'
      <3>1. \A q \in Ref : made[q].id # i  BY <2>1 DEF IsFree
      <3>2. QED  BY <2>5, <3>1 DEF SignupsIInv, OwnIds
    <2>15. \A q \in Ref : made'[q].of # Nothing => made'[q].of \in customer'
      BY <1>1, <1>2, <2>5 DEF SignupsTyped
    <2>16. SignupsTyped'  BY <1>1, <1>2, <2>6, <2>8, <2>15 DEF SignupsTyped
    <2>17. QED  BY <2>8, <2>10, <2>13, <2>14, <2>16 DEF SignupsIInv
  <1>4. CASE made[r].id # Nothing
    <2> DEFINE x == [call[c] EXCEPT !.new = FALSE,
                                    !.step = IF bill[r] = NoBill THEN "start" ELSE "desired"]
    <2>1. made' = made /\ call' = [call EXCEPT ![c] = x]  BY <1>4 DEF MakeRoom
    <2>2. /\ x \in CallRow /\ x.ref = r
          /\ x.step = (IF bill[r] = NoBill THEN "start" ELSE "desired")
      BY <1>2 DEF CallRow
    <2>3. x.step = "desired" => bill[r].status # "none"  BY <1>2, <2>2 DEF RefOK
    <2> HIDE DEF x
    <2>4. call' \in [Caller -> CallRow] /\ \A d \in Caller : CallOK(d)'
      BY <1>1, <1>4, <2>1, <2>2, <2>3, CallGoesOn
    <2>5. \A q \in Ref : RefOK(q)'
      <3> SUFFICES ASSUME NEW q \in Ref PROVE RefOK(q)'  OBVIOUS
      <3>1. \A d \in Caller : call[d].step = "start" => call'[d] = call[d]
        BY <1>1, <1>2, <2>1 DEF SignupsTyped
      <3>2. QED  BY <1>1, <2>1, <3>1, RefStays DEF SignupsIInv
    <2>6. \A q \in Ref : SignupsDue(q)' => SignupsDue(q) /\ made'[q].id = made[q].id
      BY <1>1, <2>1, <2>2, LookedStays DEF SignupsDue
    <2>7. \A d \in Caller : Passed(d)' =>
            /\ Passed(d) /\ call'[d] = call[d]
            /\ call[d].ref \in Ref /\ made'[call[d].ref].id = made[call[d].ref].id
      BY <2>1, <2>2, PassedStay
    <2>8. TrialOnce' /\ Trials'  BY <1>1, <2>6, <2>7, TrialsStay DEF SignupsIInv
    <2>9. SignupsTyped' /\ OwnIds'  BY <1>1, <2>1, <2>4 DEF SignupsIInv, SignupsTyped, OwnIds
    <2>10. QED  BY <2>4, <2>5, <2>8, <2>9 DEF SignupsIInv
  <1>5. QED  BY <1>3, <1>4

\* A trial begun without a check: somebody's call died before it.
LEMMA UncheckedBegin ==
  ASSUME SignupsIInv, NEW c \in Caller, call[c].step = "start", ~call[c].new, buyer[call[c].ref].plan # "resold"
  PROVE  call[c].ref \in unchecked
  <1> DEFINE r == call[c].ref
  <1>1. /\ r \in Ref /\ made[r].id # Nothing /\ bill[r] = NoBill
        /\ \A d \in Caller \ {c} : call[d].step # "idle" => call[d].ref # r
    BY DEF SignupsIInv, CallOK
  <1>2. r \in unchecked \/ \E d \in Caller : call[d].step = "start" /\ call[d].ref = r /\ call[d].new
    BY <1>1 DEF SignupsIInv, RefOK, BeginsChecked
  <1>3. QED  BY <1>1, <1>2

LEMMA BeginStep ==
  ASSUME SignupsIInv, NEW c \in Caller, NEW r \in Ref, r = call[c].ref, Begin(c)
  PROVE  SignupsIInv'
  <1> DEFINE chosen == IF buyer[r].plan = "resold" THEN "paid" ELSE "trial"
  <1>1. /\ call[c].step = "start"
        /\ UNCHANGED <<buyer, customer, marks, answered, given, helped, unchecked>>
    BY DEF Begin, history
  <1>2. /\ SignupsTyped /\ r \in Ref /\ r \in customer /\ call[c] \in CallRow /\ RefOK(r)
        /\ made[r].id # Nothing /\ bill[r] = NoBill
    BY <1>1 DEF SignupsIInv, SignupsTyped, CallOK
  <1>3. made[r] # NoRoom /\ bill[r].status = "none" /\ r \notin answered
    BY <1>2 DEF NoRoom, NoBill, RefOK
  <1>4. CASE chosen = "paid" /\ ~onSale
    <2>1. call' = [call EXCEPT ![c] = NoCall] /\ UNCHANGED <<made, bill>>
      BY <1>4 DEF Begin, HangsUp
    <2>2. call' \in [Caller -> CallRow] /\ \A d \in Caller : CallOK(d)'
      BY <1>1, <2>1, NoCallRow, CallGoesOn
    <2>3. RefOK(r)'
      <3>1. BeginsChecked(r)'  BY <1>1, <1>4 DEF BeginsChecked
      <3>2. QED  BY <1>1, <1>2, <2>1, <3>1 DEF RefOK, Buys
    <2>4. \A q \in Ref : RefOK(q)'
      <3> SUFFICES ASSUME NEW q \in Ref, q # r PROVE RefOK(q)'  BY <2>3
      <3>1. QED  BY <1>1, <2>1, NoCallRow, OthersStay
    <2>5. \A q \in Ref : SignupsDue(q)' => SignupsDue(q) /\ made'[q].id = made[q].id
      BY <1>1, <2>1, NoCallRow, LookedStays DEF SignupsDue
    <2>6. \A d \in Caller : Passed(d)' =>
            /\ Passed(d) /\ call'[d] = call[d]
            /\ call[d].ref \in Ref /\ made'[call[d].ref].id = made[call[d].ref].id
      BY <2>1, NoCallRow, PassedStay
    <2>7. TrialOnce' /\ Trials'  BY <1>1, <2>5, <2>6, TrialsStay DEF SignupsIInv
    <2>8. SignupsTyped' /\ OwnIds'  BY <1>1, <2>1, <2>2 DEF SignupsIInv, SignupsTyped, OwnIds
    <2>9. QED  BY <2>2, <2>4, <2>7, <2>8 DEF SignupsIInv
  <1>5. CASE ~(chosen = "paid" /\ ~onSale)
    <2> DEFINE step == IF call[c].new /\ chosen = "trial" /\ ~Buys(r) THEN "look" ELSE "desired"
               x == [call[c] EXCEPT !.step = step]
    <2>1. /\ call' = [call EXCEPT ![c] = x]
          /\ bill' = [bill EXCEPT ![r] = [status |-> IF chosen = "trial" THEN "trialing" ELSE "active",
                                          plan |-> chosen]]
          /\ made' = [made EXCEPT ![r].held = FALSE, ![r].of = r]
      BY <1>2, <1>3, <1>5 DEF Begin, Goes
    <2>2. x \in CallRow /\ x.ref = r /\ x.step = step /\ step \in {"look", "desired"}
      BY <1>2 DEF CallRow
    <2>3. /\ bill'[r].status = (IF chosen = "trial" THEN "trialing" ELSE "active")
          /\ bill'[r] # NoBill /\ bill' \in [Ref -> BillRow]
          /\ \A q \in Ref \ {r} : bill'[q] = bill[q]
      BY <2>1, <1>2 DEF SignupsTyped, BillRow, NoBill
    <2>4. /\ made'[r].id = made[r].id /\ made'[r].of = r
          /\ \A q \in Ref \ {r} : made'[q] = made[q]
      BY <2>1, <1>2 DEF SignupsTyped, SignupsRoomRow
    <2>5. made' \in [Ref -> SignupsRoomRow]
      <3>1. [made[r] EXCEPT !.held = FALSE, !.of = r] \in SignupsRoomRow
        BY <1>2 DEF SignupsTyped, SignupsRoomRow, Customers
      <3>2. made' = [made EXCEPT ![r] = [made[r] EXCEPT !.held = FALSE, !.of = r]]  BY <2>1
      <3>3. QED  BY <3>1, <3>2, <1>2 DEF SignupsTyped
    <2> HIDE DEF x
    <2>6. call' \in [Caller -> CallRow] /\ \A d \in Caller : CallOK(d)'
      BY <1>1, <1>2, <2>1, <2>2, <2>3, <2>4, CallGoesOn
    <2>7. RefOK(r)'
      BY <1>1, <1>2, <1>3, <2>3, <2>4 DEF RefOK, BeginsChecked, Buys
    <2>8. \A q \in Ref : RefOK(q)'
      <3> SUFFICES ASSUME NEW q \in Ref, q # r PROVE RefOK(q)'  BY <2>7
      <3>1. QED  BY <1>1, <2>1, <2>2, <2>3, <2>4, OthersStay
    <2>9. ~SignupsDue(r)'
      <3>1. CASE step = "look"
        <4>1. call'[c].step = "look" /\ call'[c].ref = r  BY <2>1, <2>2, <3>1, <1>2 DEF SignupsTyped
        <4>2. Looked(r)'  BY <4>1 DEF Looked
        <4>3. QED  BY <4>2 DEF SignupsDue
      <3>2. CASE step = "desired"
        <4>1. buyer[r].plan = "trial" => ~call[c].new  BY <3>2 DEF Buys
        <4>2. buyer[r].plan = "trial" => r \in unchecked  BY <1>1, <4>1, UncheckedBegin
        <4>3. QED  BY <1>1, <4>2 DEF SignupsDue
      <3>3. QED  BY <2>2, <3>1, <3>2
    <2>10. \A q \in Ref : SignupsDue(q)' => SignupsDue(q) /\ made'[q].id = made[q].id
      <3> SUFFICES ASSUME NEW q \in Ref, SignupsDue(q)' PROVE SignupsDue(q) /\ made'[q].id = made[q].id  OBVIOUS
      <3>1. q # r  BY <2>9
      <3>2. ~Looked(q)  BY <1>1, <2>1, <2>2, LookedStays DEF SignupsDue
      <3>3. QED  BY <1>1, <2>3, <2>4, <3>1, <3>2 DEF SignupsDue
    <2>11. \A d \in Caller : Passed(d)' =>
            /\ Passed(d) /\ call'[d] = call[d]
            /\ call[d].ref \in Ref /\ made'[call[d].ref].id = made[call[d].ref].id
      BY <1>1, <2>1, <2>2, <2>4, PassedStay
    <2>12. TrialOnce' /\ Trials'  BY <1>1, <2>10, <2>11, TrialsStay DEF SignupsIInv
    <2>13. OwnIds'  BY <2>4 DEF SignupsIInv, OwnIds
    <2>14. \A q \in Ref : made'[q].of # Nothing => made'[q].of \in customer'
      BY <1>1, <1>2, <2>4 DEF SignupsTyped
    <2>15. SignupsTyped'  BY <1>1, <1>2, <2>3, <2>5, <2>6, <2>14 DEF SignupsTyped
    <2>16. QED  BY <2>6, <2>8, <2>12, <2>13, <2>15 DEF SignupsIInv
  <1>6. QED  BY <1>4, <1>5

\* A check that finds nobody: no other customer is the same person, so no other
\* check of the person's passed; no mark of theirs on another newsroom, so no
\* other trial of theirs is due or given.
LEMMA LookForEarlierStep ==
  ASSUME SignupsIInv, NEW c \in Caller, NEW r \in Ref, r = call[c].ref, LookForEarlier(c)
  PROVE  SignupsIInv'
  <1> DEFINE x == [call[c] EXCEPT !.step = "mark", !.match = Earlier(r)]
  <1>1. /\ call[c].step = "look" /\ call' = [call EXCEPT ![c] = x]
        /\ UNCHANGED <<buyer, customer, made, bill, marks, answered, given, helped, unchecked>>
    BY DEF LookForEarlier, history
  <1>2. /\ SignupsTyped /\ Trials /\ r \in Ref /\ call[c] \in CallRow /\ made[r].id # Nothing
        /\ bill[r].status # "none" /\ \A d \in Caller : CallOK(d)
    BY <1>1 DEF SignupsIInv, SignupsTyped, CallOK
  <1>3. Earlier(r) \in BOOLEAN  BY DEF Earlier
  <1>4. x \in CallRow /\ x.step = "mark" /\ x.ref = r  BY <1>2, <1>3 DEF CallRow
  <1>5. x.match = Earlier(r)  BY <1>2 DEF CallRow
  <1> HIDE DEF x
  <1>6. call'[c] = x /\ \A d \in Caller \ {c} : call'[d] = call[d]  BY <1>1, <1>2 DEF SignupsTyped
  <1>7. call' \in [Caller -> CallRow] /\ \A d \in Caller : CallOK(d)'
    BY <1>1, <1>2, <1>4, CallGoesOn
  <1>8. \A q \in Ref : RefOK(q)'
    <2> SUFFICES ASSUME NEW q \in Ref PROVE RefOK(q)'  OBVIOUS
    <2>1. \A d \in Caller : call[d].step = "start" => call'[d] = call[d]  BY <1>1, <1>6
    <2>2. QED  BY <1>1, <2>1, RefStays DEF SignupsIInv
  <1>9. \A q \in Ref : SignupsDue(q)' => SignupsDue(q)  BY <1>1, <1>4, LookedStays DEF SignupsDue
  <1>10. (OnlyGiven(r) /\ NoOtherDue(r)) \/ Earlier(r)
    <2> SUFFICES ASSUME ~Earlier(r) PROVE OnlyGiven(r) /\ NoOtherDue(r)  OBVIOUS
    <2>1. \A i \in Id \ {made[r].id} : <<buyer[r].who, i>> \notin marks  BY DEF Earlier
    <2>2. OnlyGiven(r)
      <3> SUFFICES ASSUME NEW g \in given, buyer[g[1]].who = buyer[r].who PROVE g[2] = made[r].id
        BY DEF OnlyGiven
      <3>1. g[2] \in Id /\ <<buyer[g[1]].who, g[2]>> \in marks  BY <1>2 DEF SignupsTyped, Trials
      <3>2. QED  BY <2>1, <3>1
    <2>3. NoOtherDue(r)
      <3> SUFFICES ASSUME NEW q \in Ref \ {r}, SignupsDue(q), buyer[q].who = buyer[r].who PROVE FALSE
        BY DEF NoOtherDue
      <3>1. <<buyer[q].who, made[q].id>> \in marks  BY <1>2 DEF Trials
      <3>2. made[q].id \in Id  BY <1>2, <3>1 DEF SignupsTyped
      <3>3. made[q].id # made[r].id  BY <1>2, <3>2 DEF SignupsIInv, OwnIds
      <3>4. QED  BY <2>1, <3>1, <3>2, <3>3
    <2>4. QED  BY <2>2, <2>3
  <1>11. ASSUME NEW d \in Caller \ {c}, Passed(d), buyer[call[d].ref].who = buyer[r].who
         PROVE  Earlier(r)
    <2>1. call[d].ref \in Ref /\ call[d].ref \in customer /\ call[d].ref # r
      BY <1>1, <1>2, <1>11 DEF Passed, CallOK
    <2>2. Identity(call[d].ref) = buyer[r].who  BY <1>11, <2>1 DEF Identity
    <2>3. QED  BY <2>1, <2>2 DEF Earlier
  <1>12. ASSUME NEW d \in Caller, Passed(d)'
         PROVE  OnlyGiven(call[d].ref)' /\ NoOtherDue(call[d].ref)' /\ NoOtherPassed(d)'
    <2>1. CASE d = c
      <3>1. ~Earlier(r) /\ call'[d].ref = r  BY <1>4, <1>5, <1>6, <1>12, <2>1 DEF Passed
      <3>2. OnlyGiven(call[d].ref)' /\ NoOtherDue(call[d].ref)'
        BY <1>1, <1>9, <1>10, <3>1 DEF OnlyGiven, NoOtherDue
      <3>3. NoOtherPassed(d)'
        BY <1>1, <1>6, <1>11, <2>1, <3>1 DEF NoOtherPassed, Passed
      <3>4. QED  BY <3>2, <3>3
    <2>2. CASE d # c
      <3>1. call'[d] = call[d] /\ Passed(d)  BY <1>6, <1>12, <2>2 DEF Passed
      <3>2. OnlyGiven(call[d].ref) /\ NoOtherDue(call[d].ref) /\ NoOtherPassed(d)  BY <1>2, <3>1 DEF Trials
      <3>3. OnlyGiven(call[d].ref)' /\ NoOtherDue(call[d].ref)'
        BY <1>1, <1>9, <3>1, <3>2 DEF OnlyGiven, NoOtherDue
      <3>4. NoOtherPassed(d)'
        <4> SUFFICES ASSUME NEW e \in Caller \ {d}, Passed(e)'
                     PROVE  buyer[call'[e].ref].who # buyer[call[d].ref].who
          BY <1>1, <3>1 DEF NoOtherPassed
        <4>1. CASE e = c  BY <1>4, <1>5, <1>6, <1>11, <2>2, <3>1, <4>1 DEF Passed
        <4>2. CASE e # c  BY <1>6, <3>2, <4>2 DEF NoOtherPassed, Passed
        <4>3. QED  BY <4>1, <4>2
      <3>5. QED  BY <3>3, <3>4
    <2>3. QED  BY <2>1, <2>2
  <1>13. \A q \in Ref : SignupsDue(q)' =>
           (<<buyer[q].who, made[q].id>> \in marks)' /\ OnlyGiven(q)' /\ NoOtherDue(q)'
    BY <1>1, <1>2, <1>9 DEF Trials, OnlyGiven, NoOtherDue
  <1>14. \A g \in given' : (<<buyer[g[1]].who, g[2]>> \in marks)'  BY <1>1, <1>2 DEF Trials
  <1>15. Trials'  BY <1>12, <1>13, <1>14 DEF Trials
  <1>16. TrialOnce' /\ OwnIds'  BY <1>1 DEF SignupsIInv, TrialOnce, SamePerson, OwnIds
  <1>17. SignupsTyped'  BY <1>1, <1>2, <1>7 DEF SignupsTyped
  <1>18. QED  BY <1>7, <1>8, <1>15, <1>16, <1>17 DEF SignupsIInv

LEMMA TrialOrNotStep ==
  ASSUME SignupsIInv, NEW c \in Caller, NEW r \in Ref, r = call[c].ref, TrialOrNot(c)
  PROVE  SignupsIInv'
  <1> DEFINE x == [call[c] EXCEPT !.step = "desired"]
             mark == <<buyer[r].who, made[r].id>>
  <1>1. /\ call[c].step = "mark" /\ call' = [call EXCEPT ![c] = x] /\ marks' = marks \cup {mark}
        /\ UNCHANGED <<buyer, customer, answered, given, helped, unchecked>>
    BY DEF TrialOrNot, Goes, history
  <1>2. /\ SignupsTyped /\ TrialOnce /\ Trials /\ RefOK(r) /\ call[c] \in CallRow /\ made[r].id # Nothing
        /\ bill[r].status # "none" /\ \A d \in Caller : CallOK(d)
        /\ \A d \in Caller \ {c} : call[d].step # "idle" => call[d].ref # r
    BY <1>1 DEF SignupsIInv, SignupsTyped, CallOK
  <1>3. x \in CallRow /\ x.step = "desired" /\ x.ref = r  BY <1>2 DEF CallRow
  <1> HIDE DEF x
  <1>4. call'[c] = x /\ \A d \in Caller \ {c} : call'[d] = call[d]  BY <1>1, <1>2 DEF SignupsTyped
  <1>5. mark \in Who \X Id
    <2>1. made[r].id \in Id /\ buyer[r].who \in Who  BY <1>2 DEF SignupsTyped, SignupsRoomRow, BuyerRow
    <2>2. QED  BY <2>1
  <1>6. \A d \in Caller : Passed(d)' => d # c /\ call'[d] = call[d] /\ Passed(d)
    BY <1>3, <1>4 DEF Passed
  <1>7. CASE call[c].match
    <2>1. /\ bill' = [bill EXCEPT ![r].status = "expired"] /\ made' = [made EXCEPT ![r].held = TRUE]
      BY <1>7 DEF TrialOrNot
    <2>2. /\ bill'[r].status = "expired" /\ bill' \in [Ref -> BillRow]
          /\ \A q \in Ref \ {r} : bill'[q] = bill[q]
      BY <2>1, <1>2 DEF SignupsTyped, BillRow
    <2>3. /\ made'[r].held /\ made'[r].id = made[r].id /\ made' \in [Ref -> SignupsRoomRow]
          /\ \A q \in Ref : made'[q].of = made[q].of
          /\ \A q \in Ref \ {r} : made'[q] = made[q]
      BY <2>1, <1>2 DEF SignupsTyped, SignupsRoomRow
    <2>4. call' \in [Caller -> CallRow] /\ \A d \in Caller : CallOK(d)'
      BY <1>1, <1>2, <1>3, <2>2, <2>3, CallGoesOn
    <2>5. RefOK(r)'
      BY <1>1, <1>2, <2>2, <2>3 DEF RefOK, BeginsChecked, NoBill
    <2>6. \A q \in Ref : RefOK(q)'
      <3> SUFFICES ASSUME NEW q \in Ref, q # r PROVE RefOK(q)'  BY <2>5
      <3>1. QED  BY <1>1, <1>3, <2>2, <2>3, OthersStay
    <2>7. \A q \in Ref : SignupsDue(q)' => SignupsDue(q) /\ made'[q].id = made[q].id
      <3> SUFFICES ASSUME NEW q \in Ref, SignupsDue(q)' PROVE SignupsDue(q) /\ made'[q].id = made[q].id  OBVIOUS
      <3>1. q # r  BY <2>2 DEF SignupsDue
      <3>2. ~Looked(q)  BY <1>1, <1>3, <3>1, LookedStays DEF SignupsDue
      <3>3. QED  BY <1>1, <2>2, <2>3, <3>1, <3>2 DEF SignupsDue
    <2>8. \A d \in Caller : Passed(d)' =>
            /\ Passed(d) /\ call'[d] = call[d]
            /\ call[d].ref \in Ref /\ made'[call[d].ref].id = made[call[d].ref].id
      BY <1>1, <1>3, <2>3, PassedStay
    <2>9. TrialOnce' /\ Trials'  BY <1>1, <1>2, <2>7, <2>8, TrialsStay
    <2>10. OwnIds'  BY <2>3 DEF SignupsIInv, OwnIds
    <2>11. SignupsTyped'  BY <1>1, <1>2, <1>5, <2>2, <2>3, <2>4 DEF SignupsTyped
    <2>12. QED  BY <2>4, <2>6, <2>9, <2>10, <2>11 DEF SignupsIInv
  <1>8. CASE ~call[c].match
    <2>1. UNCHANGED <<bill, made>>  BY <1>8 DEF TrialOrNot
    <2>2. OnlyGiven(r) /\ NoOtherDue(r) /\ NoOtherPassed(c)
      BY <1>1, <1>2, <1>8 DEF Trials, Passed
    <2>3. call' \in [Caller -> CallRow] /\ \A d \in Caller : CallOK(d)'
      BY <1>1, <1>2, <1>3, <2>1, CallGoesOn
    <2>4. \A q \in Ref : RefOK(q)'
      <3> SUFFICES ASSUME NEW q \in Ref PROVE RefOK(q)'  OBVIOUS
      <3>1. \A d \in Caller : call[d].step = "start" => call'[d] = call[d]  BY <1>1, <1>4
      <3>2. QED  BY <1>1, <2>1, <3>1, RefStays DEF SignupsIInv
    <2>5. \A q \in Ref \ {r} : SignupsDue(q)' => SignupsDue(q)
      BY <1>1, <1>3, <2>1, LookedStays DEF SignupsDue
    <2>6. ASSUME NEW q \in Ref, SignupsDue(q)'
          PROVE  (<<buyer[q].who, made[q].id>> \in marks)' /\ OnlyGiven(q)' /\ NoOtherDue(q)'
      <3>1. CASE q = r
        <4>1. (<<buyer[q].who, made[q].id>> \in marks)' /\ OnlyGiven(q)'
          BY <1>1, <2>1, <2>2, <3>1 DEF OnlyGiven
        <4>2. NoOtherDue(q)'  BY <1>1, <2>2, <2>5, <3>1 DEF NoOtherDue
        <4>3. QED  BY <4>1, <4>2
      <3>2. CASE q # r
        <4>1. SignupsDue(q)  BY <2>5, <2>6, <3>2
        <4>2. <<buyer[q].who, made[q].id>> \in marks /\ OnlyGiven(q) /\ NoOtherDue(q)
          BY <1>2, <4>1 DEF Trials
        <4>3. (<<buyer[q].who, made[q].id>> \in marks)' /\ OnlyGiven(q)'
          BY <1>1, <2>1, <4>2 DEF OnlyGiven
        <4>4. NoOtherDue(q)'
          <5> SUFFICES ASSUME NEW p \in Ref \ {q}, SignupsDue(p)' PROVE buyer[p].who # buyer[q].who
            BY <1>1 DEF NoOtherDue
          <5>1. CASE p = r  BY <2>2, <3>2, <4>1, <5>1 DEF NoOtherDue
          <5>2. CASE p # r  BY <2>5, <4>2, <5>2 DEF NoOtherDue
          <5>3. QED  BY <5>1, <5>2
        <4>5. QED  BY <4>3, <4>4
      <3>3. QED  BY <3>1, <3>2
    <2>7. ASSUME NEW d \in Caller, Passed(d)'
          PROVE  OnlyGiven(call[d].ref)' /\ NoOtherDue(call[d].ref)' /\ NoOtherPassed(d)'
      <3>1. d # c /\ call'[d] = call[d] /\ Passed(d)  BY <1>6, <2>7
      <3>2. OnlyGiven(call[d].ref) /\ NoOtherDue(call[d].ref) /\ NoOtherPassed(d)  BY <1>2, <3>1 DEF Trials
      <3>3. OnlyGiven(call[d].ref)'  BY <1>1, <2>1, <3>1, <3>2 DEF OnlyGiven
      <3>4. NoOtherDue(call[d].ref)'
        <4> SUFFICES ASSUME NEW p \in Ref \ {call[d].ref}, SignupsDue(p)' PROVE buyer[p].who # buyer[call[d].ref].who
          BY <1>1, <3>1 DEF NoOtherDue
        <4>1. CASE p = r  BY <2>2, <3>1, <4>1 DEF NoOtherPassed
        <4>2. CASE p # r  BY <2>5, <3>2, <4>2 DEF NoOtherDue
        <4>3. QED  BY <4>1, <4>2
      <3>5. NoOtherPassed(d)'  BY <1>1, <1>6, <3>1, <3>2 DEF NoOtherPassed
      <3>6. QED  BY <3>3, <3>4, <3>5
    <2>8. \A g \in given' : (<<buyer[g[1]].who, g[2]>> \in marks)'  BY <1>1, <1>2 DEF Trials
    <2>9. Trials'  BY <2>6, <2>7, <2>8 DEF Trials
    <2>10. TrialOnce' /\ OwnIds'  BY <1>1, <2>1 DEF SignupsIInv, TrialOnce, SamePerson, OwnIds
    <2>11. SignupsTyped'  BY <1>1, <1>2, <1>5, <2>1, <2>3 DEF SignupsTyped
    <2>12. QED  BY <2>3, <2>4, <2>9, <2>10, <2>11 DEF SignupsIInv
  <1>9. QED  BY <1>7, <1>8

\* The answer gives a trial that is due, and no other of the person's is.
LEMMA DesiredStep ==
  ASSUME SignupsIInv, NEW c \in Caller, NEW r \in Ref, r = call[c].ref, Desired(c)
  PROVE  SignupsIInv'
  <1> DEFINE waits == Buys(r) /\ bill[r].status \in {"trialing", "expired"}
             standing == IF waits THEN "expired" ELSE bill[r].status
             gives == standing = "trialing" /\ r \notin helped \cup unchecked
  <1>1. /\ call[c].step = "desired" /\ call' = [call EXCEPT ![c] = NoCall]
        /\ UNCHANGED <<buyer, customer, marks, helped, unchecked>>
    BY DEF Desired, HangsUp, history
  <1>2. /\ SignupsTyped /\ TrialOnce /\ Trials /\ RefOK(r) /\ call[c] \in CallRow /\ made[r].id # Nothing
        /\ bill[r].status # "none" /\ \A d \in Caller : CallOK(d)
        /\ \A d \in Caller \ {c} : call[d].step # "idle" => call[d].ref # r
    BY <1>1 DEF SignupsIInv, SignupsTyped, CallOK
  <1>3. /\ \/ UNCHANGED <<bill, made>>
           \/ /\ waits /\ bill' = [bill EXCEPT ![r] = [status |-> "expired", plan |-> "paid"]]
              /\ made' = [made EXCEPT ![r].held = TRUE]
        /\ answered' \subseteq answered \cup {r}
        /\ r \in answered' => r \in answered \/ (waits => made' = [made EXCEPT ![r].held = TRUE])
        /\ \/ given' = given
           \/ gives /\ given' = given \cup {<<r, made[r].id>>} /\ UNCHANGED <<bill, made>>
    BY DEF Desired
  <1>4. /\ bill' \in [Ref -> BillRow] /\ bill'[r].status # "none"
        /\ bill'[r] = bill[r] \/ bill'[r].status = "expired"
        /\ \A q \in Ref \ {r} : bill'[q] = bill[q]
    BY <1>2, <1>3 DEF SignupsTyped, BillRow
  <1>5. /\ made' \in [Ref -> SignupsRoomRow]
        /\ made[r].held => made'[r].held
        /\ \A q \in Ref : made'[q].id = made[q].id /\ made'[q].of = made[q].of
        /\ \A q \in Ref \ {r} : made'[q] = made[q]
        /\ r \in answered' => r \in answered \/ ~waits \/ made'[r].held
    <2> DEFINE stopped == [made EXCEPT ![r].held = TRUE]
    <2>1. /\ stopped \in [Ref -> SignupsRoomRow] /\ stopped[r].held
          /\ \A q \in Ref : stopped[q].id = made[q].id /\ stopped[q].of = made[q].of
          /\ \A q \in Ref \ {r} : stopped[q] = made[q]
      BY <1>2 DEF SignupsTyped, SignupsRoomRow
    <2>2. made' = made \/ made' = stopped  BY <1>3
    <2>3. r \in answered' => r \in answered \/ (waits => made' = stopped)  BY <1>3
    <2> HIDE DEF stopped, waits
    <2>4. CASE made' = made  BY <1>2, <2>1, <2>3, <2>4 DEF SignupsTyped
    <2>5. CASE made' = stopped  BY <2>1, <2>3, <2>5
    <2>6. QED  BY <2>2, <2>4, <2>5
  <1>6. call' \in [Caller -> CallRow] /\ \A d \in Caller : CallOK(d)'
    BY <1>1, <1>4, <1>5, NoCallRow, CallGoesOn
  <1>7. RefOK(r)'
    <2>1. bill'[r] # NoBill  BY <1>4 DEF NoBill
    <2>2. r \in answered' /\ Buys(r) => made'[r].held \/ r \in helped
      <3>1. bill[r].status \in {"trialing", "active", "expired"}  BY <1>2 DEF SignupsTyped, BillRow
      <3>2. Buys(r) => waits \/ r \in helped  BY <3>1, <1>2 DEF RefOK
      <3>3. r \in answered /\ Buys(r) => made[r].held \/ r \in helped  BY <1>2 DEF RefOK
      <3>4. made[r].held => made'[r].held  BY <1>5
      <3>5. r \in answered' => r \in answered \/ ~waits \/ made'[r].held  BY <1>5
      <3> HIDE DEF waits
      <3>6. QED  BY <3>2, <3>3, <3>4, <3>5, Zenon
    <2>3. QED  BY <1>1, <1>2, <1>4, <1>5, <2>1, <2>2 DEF RefOK, BeginsChecked, Buys
  <1>8. \A q \in Ref : RefOK(q)'
    <2> SUFFICES ASSUME NEW q \in Ref, q # r PROVE RefOK(q)'  BY <1>7
    <2>1. QED  BY <1>1, <1>3, <1>4, <1>5, NoCallRow, OthersStay
  <1>9. \A q \in Ref : SignupsDue(q)' => SignupsDue(q) /\ made'[q].id = made[q].id
    <2> SUFFICES ASSUME NEW q \in Ref, SignupsDue(q)' PROVE SignupsDue(q)  BY <1>5
    <2>1. ~Looked(q)  BY <1>1, NoCallRow, LookedStays DEF SignupsDue
    <2>2. QED  BY <1>1, <1>4, <2>1 DEF SignupsDue
  <1>10. \A d \in Caller : Passed(d)' =>
            /\ Passed(d) /\ call'[d] = call[d]
            /\ call[d].ref \in Ref /\ made'[call[d].ref].id = made[call[d].ref].id
    BY <1>1, <1>5, NoCallRow, PassedStay
  <1>11. OwnIds' /\ \A q \in Ref : made'[q].of # Nothing => made'[q].of \in customer'
    BY <1>1, <1>2, <1>5 DEF SignupsIInv, OwnIds, SignupsTyped
  <1>12. answered' \subseteq Ref  BY <1>2, <1>3 DEF SignupsTyped
  <1>13. CASE given' = given
    <2>1. TrialOnce' /\ Trials'  BY <1>1, <1>2, <1>9, <1>10, <1>13, TrialsStay
    <2>2. SignupsTyped'  BY <1>1, <1>2, <1>4, <1>5, <1>6, <1>11, <1>13, <1>12 DEF SignupsTyped
    <2>3. QED  BY <1>6, <1>8, <1>11, <2>1, <2>2 DEF SignupsIInv
  <1>14. CASE gives /\ given' = given \cup {<<r, made[r].id>>} /\ UNCHANGED <<bill, made>>
    <2>1. SignupsDue(r)
      <3>1. bill[r].status = "trialing" /\ ~Buys(r)  BY <1>14
      <3>2. buyer[r].plan = "trial"
        BY <1>2, <1>14, <3>1 DEF RefOK, Buys, SignupsTyped, BuyerRow
      <3>3. ~Looked(r)  BY <1>1, <1>2 DEF Looked
      <3>4. QED  BY <1>14, <3>1, <3>2, <3>3 DEF SignupsDue
    <2>2. <<buyer[r].who, made[r].id>> \in marks /\ OnlyGiven(r) /\ NoOtherDue(r)  BY <1>2, <2>1 DEF Trials
    <2>3. given' \subseteq Ref \X Id
      <3>1. made[r].id \in Id  BY <1>2 DEF SignupsTyped, SignupsRoomRow
      <3>2. QED  BY <1>2, <1>14, <3>1 DEF SignupsTyped
    <2>4. TrialOnce'
      <3> SUFFICES ASSUME NEW g \in given', NEW h \in given', buyer[g[1]].who = buyer[h[1]].who
                   PROVE  g[2] = h[2]
        BY <1>1 DEF TrialOnce, SamePerson
      <3> DEFINE n == <<r, made[r].id>>
      <3>1. n[1] = r /\ n[2] = made[r].id  OBVIOUS
      <3> HIDE DEF n
      <3>2. (g \in given \/ g = n) /\ (h \in given \/ h = n)  BY <1>14 DEF n
      <3>3. CASE g \in given /\ h \in given  BY <1>2, <3>3 DEF TrialOnce, SamePerson
      <3>4. CASE g = n /\ h \in given  BY <2>2, <3>1, <3>4 DEF OnlyGiven
      <3>5. CASE g \in given /\ h = n  BY <2>2, <3>1, <3>5 DEF OnlyGiven
      <3>6. QED  BY <3>2, <3>3, <3>4, <3>5
    <2>5. ASSUME NEW p \in Ref, OnlyGiven(p), p = r \/ buyer[p].who # buyer[r].who
          PROVE  OnlyGiven(p)'
      <3> SUFFICES ASSUME NEW g \in given', buyer[g[1]].who = buyer[p].who PROVE g[2] = made[p].id
        BY <1>1, <1>14 DEF OnlyGiven
      <3> DEFINE n == <<r, made[r].id>>
      <3>1. n[1] = r /\ n[2] = made[r].id  OBVIOUS
      <3> HIDE DEF n
      <3>2. g \in given \/ g = n  BY <1>14 DEF n
      <3>3. QED  BY <2>5, <3>1, <3>2 DEF OnlyGiven
    <2>6. \A g \in given' : (<<buyer[g[1]].who, g[2]>> \in marks)'
      <3> SUFFICES ASSUME NEW g \in given' PROVE <<buyer[g[1]].who, g[2]>> \in marks  BY <1>1
      <3>1. QED  BY <1>2, <1>14, <2>2 DEF Trials
    <2>7. ASSUME NEW q \in Ref, SignupsDue(q)'
          PROVE  (<<buyer[q].who, made[q].id>> \in marks)' /\ OnlyGiven(q)' /\ NoOtherDue(q)'
      <3>1. SignupsDue(q)  BY <1>9, <2>7
      <3>2. <<buyer[q].who, made[q].id>> \in marks /\ OnlyGiven(q) /\ NoOtherDue(q)
        BY <1>2, <3>1 DEF Trials
      <3>3. q = r \/ buyer[q].who # buyer[r].who  BY <2>2, <3>1 DEF NoOtherDue
      <3>4. OnlyGiven(q)'  BY <2>5, <3>2, <3>3
      <3>5. NoOtherDue(q)'  BY <1>1, <1>9, <3>2 DEF NoOtherDue
      <3>6. QED  BY <1>1, <1>14, <3>2, <3>4, <3>5
    <2>8. ASSUME NEW d \in Caller, Passed(d)'
          PROVE  OnlyGiven(call[d].ref)' /\ NoOtherDue(call[d].ref)' /\ NoOtherPassed(d)'
      <3>1. call'[d] = call[d] /\ Passed(d) /\ call[d].ref \in Ref  BY <1>10, <2>8
      <3>2. PICK p \in Ref : p = call[d].ref  BY <3>1
      <3>3. OnlyGiven(p) /\ NoOtherDue(p) /\ NoOtherPassed(d)  BY <1>2, <3>1, <3>2 DEF Trials
      <3>4. p # r  BY <1>1, <1>2, <3>1, <3>2 DEF Passed
      <3>5. buyer[p].who # buyer[r].who  BY <2>1, <3>3, <3>4 DEF NoOtherDue
      <3>6. OnlyGiven(p)'  BY <2>5, <3>3, <3>5
      <3>7. NoOtherDue(p)'  BY <1>1, <1>9, <3>3 DEF NoOtherDue
      <3>8. OnlyGiven(call[d].ref)' /\ NoOtherDue(call[d].ref)'
        BY <3>1, <3>2, <3>6, <3>7 DEF OnlyGiven, NoOtherDue
      <3>9. NoOtherPassed(d)'  BY <1>1, <1>10, <3>1, <3>3 DEF NoOtherPassed
      <3>10. QED  BY <3>8, <3>9
    <2>9. Trials'  BY <2>6, <2>7, <2>8 DEF Trials
    <2>10. SignupsTyped'  BY <1>1, <1>2, <1>6, <1>14, <1>12, <2>3 DEF SignupsTyped
    <2>11. QED  BY <1>6, <1>8, <1>11, <2>4, <2>9, <2>10 DEF SignupsIInv
  <1>15. QED  BY <1>3, <1>13, <1>14

LEMMA DieMidwayStep ==
  ASSUME SignupsIInv, NEW c \in Caller, DieMidway(c)
  PROVE  SignupsIInv'
  <1>1. /\ call' = [call EXCEPT ![c] = NoCall] /\ unchecked \subseteq unchecked'
        /\ call[c].step \in {"start", "look", "mark"} => call[c].ref \in unchecked'
        /\ UNCHANGED <<buyer, customer, made, bill, marks, answered, given, helped>>
    BY DEF DieMidway, HangsUp
  <1>2. SignupsTyped /\ \A d \in Caller : CallOK(d)  BY DEF SignupsIInv
  <1>3. call[c].step # "idle"  BY <1>2 DEF DieMidway, CallOK
  <1>4. call' \in [Caller -> CallRow] /\ \A d \in Caller : CallOK(d)'
    BY <1>1, <1>3, NoCallRow, CallGoesOn
  <1>5. \A q \in Ref : RefOK(q)'
    <2> SUFFICES ASSUME NEW q \in Ref PROVE RefOK(q)'  OBVIOUS
    <2>1. \A d \in Caller : call[d].step = "start" /\ call[d].ref = q =>
                              call'[d] = call[d] \/ q \in unchecked'
      BY <1>1, <1>2 DEF SignupsTyped
    <2>2. QED  BY <1>1, <2>1, RefStays DEF SignupsIInv
  <1>6. \A q \in Ref : SignupsDue(q)' => SignupsDue(q) /\ made'[q].id = made[q].id
    <2> SUFFICES ASSUME NEW q \in Ref, SignupsDue(q)' PROVE SignupsDue(q)  BY <1>1
    <2>1. ~(call[c].step \in {"look", "mark"} /\ call[c].ref = q)  BY <1>1 DEF SignupsDue
    <2>2. ~Looked(q)  BY <1>1, <2>1, NoCallRow, LookedStays DEF SignupsDue
    <2>3. QED  BY <1>1, <2>2 DEF SignupsDue
  <1>7. \A d \in Caller : Passed(d)' =>
            /\ Passed(d) /\ call'[d] = call[d]
            /\ call[d].ref \in Ref /\ made'[call[d].ref].id = made[call[d].ref].id
    BY <1>1, NoCallRow, PassedStay
  <1>8. TrialOnce' /\ Trials'  BY <1>1, <1>6, <1>7, TrialsStay DEF SignupsIInv
  <1>9. SignupsTyped' /\ OwnIds'  BY <1>1, <1>4 DEF SignupsIInv, SignupsTyped, OwnIds
  <1>10. QED  BY <1>4, <1>5, <1>8, <1>9 DEF SignupsIInv

-----------------------------------------------------------------------------
(* What happens between two calls.                                         *)

LEMMA NobodyCalls ==
  ASSUME NoCalls, call' = call
  PROVE  /\ \A c \in Caller : call[c].step = "idle" /\ ~Passed(c) /\ ~Passed(c)' /\ CallOK(c)'
         /\ \A r \in Ref : ~Looked(r)
  BY NoCallRow DEF NoCalls, Passed, CallOK, Looked

LEMMA BetweenCalls ==
  ASSUME SignupsIInv, NoCalls, SignupsTyped', OwnIds', UNCHANGED <<buyer, call, marks, given>>,
         \A r \in Ref : RefOK(r)',
         \A r \in Ref : SignupsDue(r)' => SignupsDue(r) /\ made'[r].id = made[r].id
  PROVE  SignupsIInv'
  <1>1. \A c \in Caller : ~Passed(c)' /\ CallOK(c)'  BY NobodyCalls
  <1>2. TrialOnce' /\ Trials'  BY <1>1, TrialsStay DEF SignupsIInv
  <1>3. QED  BY <1>1, <1>2 DEF SignupsIInv

LEMMA StartedStep ==
  ASSUME SignupsIInv, NEW r \in Ref, NEW chosen \in {"trial", "paid"}, Started(r, chosen)
  PROVE  SignupsIInv'
  <1>1. /\ NoCalls /\ made[r].id # Nothing /\ helped' = helped \cup {r}
        /\ bill' = [bill EXCEPT ![r] = [status |-> IF chosen = "trial" THEN "trialing" ELSE "active", plan |-> chosen]]
        /\ made' = [made EXCEPT ![r].held = FALSE]
        /\ UNCHANGED <<buyer, customer, marks, call, answered, given, unchecked>>
    BY DEF Started
  <1>2. /\ bill' \in [Ref -> BillRow] /\ bill'[r].status # "none" /\ bill'[r] # NoBill
        /\ \A q \in Ref \ {r} : bill'[q] = bill[q]
    BY <1>1 DEF SignupsIInv, SignupsTyped, BillRow, NoBill
  <1>3. /\ made' \in [Ref -> SignupsRoomRow] /\ \A q \in Ref \ {r} : made'[q] = made[q]
        /\ \A q \in Ref : made'[q].id = made[q].id /\ made'[q].of = made[q].of
    BY <1>1 DEF SignupsIInv, SignupsTyped, SignupsRoomRow
  <1>4. SignupsTyped' /\ OwnIds'  BY <1>1, <1>2, <1>3 DEF SignupsIInv, SignupsTyped, OwnIds
  <1>5. RefOK(r)'  BY <1>1, <1>2, <1>3 DEF RefOK, BeginsChecked
  <1>6. \A q \in Ref : RefOK(q)'
    <2> SUFFICES ASSUME NEW q \in Ref, q # r PROVE RefOK(q)'  BY <1>5
    <2>1. QED  BY <1>1, <1>2, <1>3, RefStays DEF SignupsIInv
  <1>7. \A q \in Ref : SignupsDue(q)' => SignupsDue(q) /\ made'[q].id = made[q].id
    BY <1>1, <1>2, <1>3, NobodyCalls DEF SignupsDue
  <1>8. QED  BY <1>1, <1>4, <1>6, <1>7, BetweenCalls

LEMMA ExpiresStep ==
  ASSUME SignupsIInv, NEW r \in Ref, Expires(r)
  PROVE  SignupsIInv'
  <1>1. /\ NoCalls /\ bill[r].status \in {"trialing", "active"}
        /\ bill' = [bill EXCEPT ![r].status = "expired"]
        /\ UNCHANGED <<buyer, customer, made, marks, call, answered, given, helped, unchecked>>
    BY DEF Expires, history
  <1>2. /\ bill' \in [Ref -> BillRow] /\ bill'[r].status = "expired" /\ bill'[r] # NoBill
        /\ \A q \in Ref \ {r} : bill'[q] = bill[q]
    BY <1>1 DEF SignupsIInv, SignupsTyped, BillRow, NoBill
  <1>3. SignupsTyped' /\ OwnIds'  BY <1>1, <1>2 DEF SignupsIInv, SignupsTyped, OwnIds
  <1>4. RefOK(r)'
    <2>1. bill[r] # NoBill /\ RefOK(r)  BY <1>1 DEF NoBill, SignupsIInv
    <2>2. QED  BY <1>1, <1>2, <2>1 DEF RefOK, BeginsChecked, Buys
  <1>5. \A q \in Ref : RefOK(q)'
    <2> SUFFICES ASSUME NEW q \in Ref, q # r PROVE RefOK(q)'  BY <1>4
    <2>1. QED  BY <1>1, <1>2, RefStays DEF SignupsIInv
  <1>6. \A q \in Ref : SignupsDue(q)' => SignupsDue(q) /\ made'[q].id = made[q].id
    BY <1>1, <1>2, NobodyCalls DEF SignupsDue
  <1>7. QED  BY <1>1, <1>3, <1>5, <1>6, BetweenCalls

LEMMA DeleteNewsroomStep ==
  ASSUME SignupsIInv, NEW r \in Ref, DeleteNewsroom(r)
  PROVE  SignupsIInv'
  <1>1. /\ NoCalls /\ made' = [made EXCEPT ![r] = NoRoom] /\ bill' = [bill EXCEPT ![r] = NoBill]
        /\ answered' = answered \ {r} /\ helped' = helped \ {r}
        /\ UNCHANGED <<buyer, customer, marks, call, given, unchecked>>
    BY DEF DeleteNewsroom
  <1>2. NoRoom \in SignupsRoomRow /\ NoBill \in BillRow /\ NoRoom.id = Nothing /\ NoRoom.of = Nothing
        /\ NoBill.status = "none"
    BY DEF NoRoom, NoBill, SignupsRoomRow, BillRow
  <1>3. /\ made' \in [Ref -> SignupsRoomRow] /\ bill' \in [Ref -> BillRow]
        /\ made'[r] = NoRoom /\ bill'[r] = NoBill
        /\ \A q \in Ref \ {r} : made'[q] = made[q] /\ bill'[q] = bill[q]
    BY <1>1, <1>2 DEF SignupsIInv, SignupsTyped
  <1>4. \A q \in Ref : made'[q].of # Nothing => made'[q].of \in customer'
    BY <1>1, <1>2, <1>3 DEF SignupsIInv, SignupsTyped
  <1>5. SignupsTyped'  BY <1>1, <1>3, <1>4 DEF SignupsIInv, SignupsTyped
  <1>6. OwnIds'  BY <1>2, <1>3 DEF SignupsIInv, OwnIds
  <1>7. RefOK(r)'  BY <1>1, <1>2, <1>3 DEF RefOK, BeginsChecked
  <1>8. \A q \in Ref : RefOK(q)'
    <2> SUFFICES ASSUME NEW q \in Ref, q # r PROVE RefOK(q)'  BY <1>7
    <2>1. QED  BY <1>1, <1>3, RefStays DEF SignupsIInv
  <1>9. \A q \in Ref : SignupsDue(q)' => SignupsDue(q) /\ made'[q].id = made[q].id
    BY <1>1, <1>2, <1>3, NobodyCalls DEF SignupsDue
  <1>10. QED  BY <1>1, <1>5, <1>6, <1>8, <1>9, BetweenCalls

\* Customers may come and go: what was given is told by the marks.
LEMMA CustomersStep ==
  ASSUME SignupsIInv, NoCalls, SignupsTyped',
         UNCHANGED <<buyer, call, marks, given, bill, answered, helped, unchecked>>,
         \A q \in Ref : made'[q].id = made[q].id /\ made'[q].held = made[q].held
  PROVE  SignupsIInv'
  <1>1. \A q \in Ref : RefOK(q)'  BY RefStays DEF SignupsIInv
  <1>2. \A q \in Ref : SignupsDue(q)' => SignupsDue(q)  BY NobodyCalls DEF SignupsDue
  <1>3. OwnIds'  BY DEF SignupsIInv, OwnIds
  <1>4. QED  BY <1>1, <1>2, <1>3, BetweenCalls

LEMMA CustomerPagesStep ==
  ASSUME SignupsIInv, CustomerPages
  PROVE  SignupsIInv'
  <1>1. ASSUME NEW w \in Who, CreateCustomer(w) PROVE SignupsIInv'
    <2>1. SignupsTyped'  BY <1>1 DEF CreateCustomer, SignupsIInv, SignupsTyped, Customers
    <2>2. QED  BY <1>1, <2>1, CustomersStep DEF CreateCustomer
  <1>2. ASSUME NEW k \in Customers, DeleteCustomer(k) PROVE SignupsIInv'
    <2>1. SignupsTyped'  BY <1>2 DEF DeleteCustomer, SignupsIInv, SignupsTyped
    <2>2. QED  BY <1>2, <2>1, CustomersStep DEF DeleteCustomer
  <1>3. ASSUME NEW r \in Ref, NEW k \in Customers \cup {Nothing}, LinkCustomer(r, k) PROVE SignupsIInv'
    <2>1. /\ NoCalls /\ made' = [made EXCEPT ![r].of = k] /\ customer \subseteq customer'
          /\ k # Nothing => k \in customer'
          /\ UNCHANGED <<buyer, bill, marks, call, answered, given, helped, unchecked>>
      BY <1>3 DEF LinkCustomer
    <2>2. customer' \subseteq Customers  BY <1>3 DEF LinkCustomer, SignupsIInv, SignupsTyped, BuyerRow, Customers
    <2>3. /\ made' \in [Ref -> SignupsRoomRow] /\ made'[r].of = k
          /\ \A q \in Ref : made'[q].id = made[q].id /\ made'[q].held = made[q].held
          /\ \A q \in Ref \ {r} : made'[q] = made[q]
      BY <2>1 DEF SignupsIInv, SignupsTyped, SignupsRoomRow
    <2>4. \A q \in Ref : made'[q].of # Nothing => made'[q].of \in customer'
      BY <2>1, <2>3 DEF SignupsIInv, SignupsTyped
    <2>5. SignupsTyped'  BY <2>1, <2>2, <2>3, <2>4 DEF SignupsIInv, SignupsTyped
    <2>6. QED  BY <2>1, <2>3, <2>5, CustomersStep
  <1>4. QED  BY <1>1, <1>2, <1>3 DEF CustomerPages

-----------------------------------------------------------------------------
LEMMA SignupCallsStep ==
  ASSUME SignupsIInv, SignupCalls
  PROVE  SignupsIInv'
  <1>1. PICK c \in Caller :
          \/ \E r \in Ref : Signup(c, r)
          \/ MakeRoom(c) \/ Begin(c) \/ LookForEarlier(c) \/ TrialOrNot(c) \/ Desired(c) \/ DieMidway(c)
    BY DEF SignupCalls
  <1>2. CASE \E r \in Ref : Signup(c, r)  BY <1>2, SignupStep
  <1>3. CASE DieMidway(c)  BY <1>3, DieMidwayStep
  <1>4. CASE MakeRoom(c) \/ Begin(c) \/ LookForEarlier(c) \/ TrialOrNot(c) \/ Desired(c)
    <2>1. call[c].step # "idle"
      BY <1>4 DEF MakeRoom, Begin, LookForEarlier, TrialOrNot, Desired
    <2>2. call[c].ref \in Ref  BY <2>1 DEF SignupsIInv, CallOK
    <2>3. PICK r \in Ref : r = call[c].ref  BY <2>2
    <2>4. QED
      BY <1>4, <2>3, MakeRoomStep, BeginStep, LookForEarlierStep, TrialOrNotStep, DesiredStep
  <1>5. QED  BY <1>1, <1>2, <1>3, <1>4

LEMMA NothingChanges ==
  ASSUME SignupsIInv, UNCHANGED <<buyer, customer, made, bill, marks, call, answered, given, helped, unchecked>>
  PROVE  SignupsIInv'
  <1>1. SignupsTyped' /\ OwnIds' /\ TrialOnce'  BY DEF SignupsIInv, SignupsTyped, OwnIds, TrialOnce, SamePerson
  <1>2. \A c \in Caller : CallOK(c)'  BY DEF SignupsIInv, CallOK
  <1>3. \A r \in Ref : RefOK(r)'  BY RefStays DEF SignupsIInv
  <1>4. \A r \in Ref : SignupsDue(r)' => SignupsDue(r)  BY DEF SignupsDue, Looked
  <1>5. \A c \in Caller : Passed(c)' => Passed(c) /\ call[c].ref \in Ref
    BY DEF Passed, SignupsIInv, CallOK
  <1>6. Trials'  BY <1>4, <1>5, TrialsStay DEF SignupsIInv
  <1>7. QED  BY <1>1, <1>2, <1>3, <1>6 DEF SignupsIInv

LEMMA SignupsNextHolds ==
  ASSUME SignupsIInv, [SignupsNext]_signupVars
  PROVE  SignupsIInv'
  <1>1. CASE Catalogue  BY <1>1, NothingChanges DEF Catalogue
  <1>2. CASE UNCHANGED signupVars  BY <1>2, NothingChanges DEF signupVars
  <1>3. QED
    BY <1>1, <1>2, SignupCallsStep, CustomerPagesStep, ExpiresStep, DeleteNewsroomStep, StartedStep
    DEF SignupsNext

(***************************************************************************)
(* The theorems.                                                           *)
(***************************************************************************)
LEMMA SignupsInvariant == SignupsSpec => []SignupsIInv
  <1>1. SignupsInit => SignupsIInv  BY SignupsInitHolds
  <1>2. SignupsIInv /\ [SignupsNext]_signupVars => SignupsIInv'  BY SignupsNextHolds
  <1>3. QED  BY <1>1, <1>2, PTL DEF SignupsSpec

\* The rows and the calls hold what the code may write in them (billing.signup).
THEOREM SignupsTypeCorrect == SignupsSpec => []SignupsTypeOK
  <1>1. SignupsIInv => SignupsTypeOK  BY DEF SignupsIInv, SignupsTyped, SignupsTypeOK, SignupsRoomRow, BillRow
  <1>2. QED  BY <1>1, SignupsInvariant, PTL

\* Whatever the calls, deaths and deletions, a person's signups end with a
\* running trial in one newsroom (trials.py, billing._trial_once).
THEOREM OneTrial == SignupsSpec => []TrialOnce
  <1>1. SignupsIInv => TrialOnce  BY DEF SignupsIInv
  <1>2. QED  BY <1>1, SignupsInvariant, PTL

\* An answered signup of a plan sold on the public site stays stopped until
\* somebody pays or the operator starts it (billing.signup).
THEOREM PaymentFirst == SignupsSpec => []PaysFirst
  <1>1. SignupsIInv => PaysFirst  BY DEF SignupsIInv, SignupsTyped, PaysFirst, RefOK
  <1>2. QED  BY <1>1, SignupsInvariant, PTL

HIDE SignupsAssumption

-----------------------------------------------------------------------------
(***************************************************************************)
(* For any people, newsrooms, links and pages open at once: a link takes   *)
(* effect at most once, and, where the checks that count rows do not       *)
(* overlap, a newsroom keeps an owner and the console an operator.         *)
(***************************************************************************)

PersonRow == {p \in [known : BOOLEAN, password : BOOLEAN, operator : BOOLEAN] :
                p.operator \/ p.password => p.known}
AccountsKinds == {"none", "invite", "reset", "setup", "gone"}
LinkRow == [kind : AccountsKinds, user : User \cup {Nowhere}, room : Room \cup {Nowhere},
            role : Roles \cup {NoRole}, operator : BOOLEAN]
PageRow == [step : {"rest", "accept", "demote", "oust"}, link : Link \cup {Nowhere},
            user : User \cup {Nowhere}, room : Room \cup {Nowhere}, role : Roles \cup {NoRole}]

(***************************************************************************)
(* The inductive invariant.                                                *)
(***************************************************************************)

\* A page that goes on has read what it goes on with.
PageOK(q) ==
  /\ request[q].step = "accept" => request[q].link \in Link /\ request[q].user \in User
  /\ request[q].step = "demote" => request[q].user \in User /\ request[q].room \in Room
  /\ request[q].step = "oust" => request[q].user \in User

AccountsTyped ==
  /\ person \in [User -> PersonRow]
  /\ role \in [User -> [Room -> Roles \cup {NoRole}]]
  /\ open \in [Room -> {"none", "on", "off", "deleted"}]
  /\ session \subseteq User \X (Room \cup {Nowhere})
  /\ link \in [Link -> LinkRow] /\ opened \in [Link -> Nat]
  /\ request \in [Page -> PageRow] /\ \A q \in Page : PageOK(q)

\* A link that may still be used was never used, nor taken back.
LinkOK(k) ==
  /\ link[k].kind # "gone" => opened[k] = 0 /\ k \notin revoked
  /\ opened[k] + (IF k \in revoked THEN 1 ELSE 0) <= 1

AccountsIInv == AccountsTyped /\ \A k \in Link : LinkOK(k)

-----------------------------------------------------------------------------
USE AccountsAssumption

\* What a step may do to a link: leave it, make it, use it, or take it back.
LinkStep(k) ==
  \/ /\ link'[k].kind = link[k].kind \/ link[k].kind = "none"
     /\ opened'[k] = opened[k] /\ (k \in revoked' <=> k \in revoked)
  \/ /\ link[k].kind # "gone" /\ link'[k].kind = "gone"
     /\ \/ opened'[k] = opened[k]
        \/ opened'[k] = opened[k] + 1 /\ (k \in revoked' <=> k \in revoked)

LEMMA LinksStay ==
  ASSUME AccountsIInv, AccountsTyped', \A k \in Link : LinkStep(k)
  PROVE  AccountsIInv'
  <1>1. ASSUME NEW k \in Link PROVE LinkOK(k)'
    <2>1. opened[k] \in Nat /\ opened'[k] \in Nat /\ LinkOK(k) /\ LinkStep(k)  BY DEF AccountsIInv, AccountsTyped
    <2>2. QED  BY <2>1 DEF LinkOK, LinkStep
  <1>2. QED  BY <1>1 DEF AccountsIInv

LEMMA AccountsInitHolds == AccountsInit => AccountsIInv
  <1> SUFFICES ASSUME AccountsInit PROVE AccountsIInv  OBVIOUS
  <1> USE DEF AccountsInit
  <1>1. Stranger \in PersonRow  BY DEF Stranger, PersonRow
  <1>2. NoLinkYet \in LinkRow  BY DEF NoLinkYet, LinkRow, AccountsKinds
  <1>3. AtRest \in PageRow /\ AtRest.step = "rest"  BY DEF AtRest, PageRow
  <1>4. AccountsTyped  BY <1>1, <1>2, <1>3 DEF AccountsTyped, PageOK
  <1>5. \A k \in Link : LinkOK(k)  BY DEF LinkOK
  <1>6. QED  BY <1>4, <1>5 DEF AccountsIInv

\* The rows the steps write.
LEMMA RowsWritten ==
  ASSUME AccountsTyped, NEW u \in User
  PROVE  /\ Welcomed(u) \in PersonRow /\ Ensured(u) \in PersonRow /\ Welcomed(u).known /\ Ensured(u).known
         /\ [Welcomed(u) EXCEPT !.operator = TRUE] \in PersonRow
         /\ \A r \in Room \cup {Nowhere}, as \in Roles : Invitation(u, r, as) \in LinkRow
         /\ \A j \in Link : [link[j] EXCEPT !.kind = "gone"] \in LinkRow
                            /\ [link[j] EXCEPT !.kind = "gone"].kind = "gone"
  <1>1. person[u] \in PersonRow  BY DEF AccountsTyped
  <1>2. Ensured(u) \in PersonRow /\ Ensured(u).known  BY <1>1 DEF Ensured, PersonRow
  <1>3. Welcomed(u) \in PersonRow /\ Welcomed(u).known  BY <1>2 DEF Welcomed, PersonRow
  <1>4. [Welcomed(u) EXCEPT !.operator = TRUE] \in PersonRow  BY <1>3 DEF PersonRow
  <1>5. \A r \in Room \cup {Nowhere}, as \in Roles : Invitation(u, r, as) \in LinkRow
    BY DEF Invitation, NoLinkYet, LinkRow, AccountsKinds
  <1>6. \A j \in Link : [link[j] EXCEPT !.kind = "gone"] \in LinkRow /\ [link[j] EXCEPT !.kind = "gone"].kind = "gone"
    BY DEF AccountsTyped, LinkRow, AccountsKinds
  <1>7. QED  BY <1>2, <1>3, <1>4, <1>5, <1>6

(***************************************************************************)
(* One lemma per group of steps.                                           *)
(***************************************************************************)

\* Steps that touch neither links nor the pages under way.
LEMMA AccountsPeopleStep ==
  ASSUME AccountsIInv, UNCHANGED <<links, request>>,
         person' \in [User -> PersonRow], role' \in [User -> [Room -> Roles \cup {NoRole}]],
         open' \in [Room -> {"none", "on", "off", "deleted"}],
         session' \subseteq User \X (Room \cup {Nowhere})
  PROVE  AccountsIInv'
  <1> USE DEF links
  <1>1. AccountsTyped'  BY DEF AccountsIInv, AccountsTyped, PageOK
  <1>2. \A k \in Link : LinkStep(k)  BY DEF LinkStep
  <1>3. QED  BY <1>1, <1>2, LinksStay

\* Steps that write one page and no link.
LEMMA PageStep ==
  ASSUME AccountsIInv, UNCHANGED links, NEW q \in Page, NEW x \in PageRow, request' = [request EXCEPT ![q] = x],
         x.step = "accept" => x.link \in Link /\ x.user \in User,
         x.step = "demote" => x.user \in User /\ x.room \in Room,
         x.step = "oust" => x.user \in User,
         person' \in [User -> PersonRow], role' \in [User -> [Room -> Roles \cup {NoRole}]],
         open' = open, session' \subseteq User \X (Room \cup {Nowhere})
  PROVE  AccountsIInv'
  <1>1. request' \in [Page -> PageRow] /\ \A p \in Page : request'[p] = IF p = q THEN x ELSE request[p]
    BY DEF AccountsIInv, AccountsTyped
  <1>2. \A p \in Page : PageOK(p)'  BY <1>1 DEF AccountsIInv, AccountsTyped, PageOK
  <1>3. AccountsTyped'  BY <1>1, <1>2 DEF AccountsIInv, AccountsTyped, links
  <1>4. \A k \in Link : LinkStep(k)  BY DEF LinkStep, links
  <1>5. QED  BY <1>3, <1>4, LinksStay

\* Steps that send one link, and may write people.
LEMMA SendsStep ==
  ASSUME AccountsIInv, NEW k \in Link, NEW to \in LinkRow, Sends(k, to), UNCHANGED <<request, opened, revoked>>,
         person' \in [User -> PersonRow], role' \in [User -> [Room -> Roles \cup {NoRole}]],
         open' \in [Room -> {"none", "on", "off", "deleted"}], session' = session
  PROVE  AccountsIInv'
  <1>1. link' \in [Link -> LinkRow] /\ \A j \in Link : link'[j] = IF j = k THEN to ELSE link[j]
    BY DEF AccountsIInv, AccountsTyped, Sends
  <1>2. AccountsTyped'  BY <1>1 DEF AccountsIInv, AccountsTyped, PageOK
  <1>3. \A j \in Link : LinkStep(j)  BY <1>1 DEF LinkStep, Sends, Unused
  <1>4. QED  BY <1>2, <1>3, LinksStay

\* Steps that take links back: those of a set, or all but a new one.
LEMMA TakenBackStep ==
  ASSUME AccountsIInv, NEW ks \in SUBSET Link, \A j \in ks : link[j].kind # "gone",
         UNCHANGED <<request, opened>>, link' \in [Link -> LinkRow],
         \A j \in Link : j \in ks => link'[j].kind = "gone",
         \A j \in Link \ ks : (link'[j].kind = link[j].kind \/ link[j].kind = "none")
                              /\ (j \in revoked' <=> j \in revoked),
         person' \in [User -> PersonRow], role' \in [User -> [Room -> Roles \cup {NoRole}]],
         open' \in [Room -> {"none", "on", "off", "deleted"}],
         session' \subseteq User \X (Room \cup {Nowhere})
  PROVE  AccountsIInv'
  <1>1. AccountsTyped'  BY DEF AccountsIInv, AccountsTyped, PageOK
  <1>2. \A k \in Link : LinkStep(k)  BY DEF LinkStep
  <1>3. QED  BY <1>1, <1>2, LinksStay

-----------------------------------------------------------------------------
LEMMA SetupLinkStep == ASSUME AccountsIInv, NEW k \in Link, SetupLink(k) PROVE AccountsIInv'
  <1> DEFINE ks == {j \in Link : link[j].kind = "setup"}
             new == [NoLinkYet EXCEPT !.kind = "setup", !.operator = TRUE]
  <1>1. link[k].kind = "none" /\ revoked' = revoked \cup ks  BY DEF SetupLink, Unused
  <1>2. new \in LinkRow  BY DEF NoLinkYet, LinkRow, AccountsKinds
  <1>3. \A j \in Link : link'[j] = IF j = k THEN new
                                   ELSE IF j \in ks THEN [link[j] EXCEPT !.kind = "gone"] ELSE link[j]
    BY DEF SetupLink
  <1>4. \A j \in Link : [link[j] EXCEPT !.kind = "gone"] \in LinkRow /\ [link[j] EXCEPT !.kind = "gone"].kind = "gone"
    BY DEF AccountsIInv, AccountsTyped, LinkRow, AccountsKinds
  <1>5. link' \in [Link -> LinkRow]
    <2>1. \A j \in Link : link'[j] \in LinkRow  BY <1>2, <1>3, <1>4 DEF AccountsIInv, AccountsTyped
    <2>2. link' = [j \in Link |-> link'[j]]  BY DEF SetupLink
    <2>3. QED  BY <2>1, <2>2
  <1>6. \A j \in Link : j \in ks => link'[j].kind = "gone"  BY <1>1, <1>3, <1>4
  <1>7. \A j \in Link \ ks : (link'[j].kind = link[j].kind \/ link[j].kind = "none")
                             /\ (j \in revoked' <=> j \in revoked)
    BY <1>1, <1>3
  <1>8. /\ UNCHANGED <<request, opened, person, role, open, session>>
        /\ \A j \in ks : link[j].kind # "gone"
    BY DEF SetupLink, people
  <1>9. /\ person' \in [User -> PersonRow] /\ role' \in [User -> [Room -> Roles \cup {NoRole}]]
        /\ open' \in [Room -> {"none", "on", "off", "deleted"}]
        /\ session' \subseteq User \X (Room \cup {Nowhere})
    BY <1>8 DEF AccountsIInv, AccountsTyped
  <1> HIDE DEF ks, new
  <1>10. ks \in SUBSET Link  BY DEF ks
  <1>11. QED  BY <1>5, <1>6, <1>7, <1>8, <1>9, <1>10, TakenBackStep

LEMMA FirstAdminStep == ASSUME AccountsIInv, NEW u \in User, FirstAdmin(u) PROVE AccountsIInv'
  <1> DEFINE ks == {j \in Link : link[j].kind = "setup"}
  <1>1. revoked' = revoked \cup ks  BY DEF FirstAdmin
  <1>2. \A j \in Link : [link[j] EXCEPT !.kind = "gone"] \in LinkRow /\ [link[j] EXCEPT !.kind = "gone"].kind = "gone"
    BY DEF AccountsIInv, AccountsTyped, LinkRow, AccountsKinds
  <1>3. \A j \in Link : link'[j] = IF j \in ks THEN [link[j] EXCEPT !.kind = "gone"] ELSE link[j]
    BY DEF FirstAdmin
  <1>4. link' \in [Link -> LinkRow]
    <2>1. \A j \in Link : link'[j] \in LinkRow  BY <1>2, <1>3 DEF AccountsIInv, AccountsTyped
    <2>2. link' = [j \in Link |-> link'[j]]  BY DEF FirstAdmin
    <2>3. QED  BY <2>1, <2>2
  <1>5. \A j \in Link : j \in ks => link'[j].kind = "gone"  BY <1>2, <1>3
  <1>6. \A j \in Link \ ks : (link'[j].kind = link[j].kind \/ link[j].kind = "none")
                             /\ (j \in revoked' <=> j \in revoked)
    BY <1>1, <1>3
  <1>7. UNCHANGED <<request, opened, role, open, session>> /\ \A j \in ks : link[j].kind # "gone"
    BY DEF FirstAdmin
  <1>8. person' \in [User -> PersonRow]  BY RowsWritten DEF FirstAdmin, AccountsIInv, AccountsTyped
  <1>9. /\ role' \in [User -> [Room -> Roles \cup {NoRole}]] /\ open' \in [Room -> {"none", "on", "off", "deleted"}]
        /\ session' \subseteq User \X (Room \cup {Nowhere})
    BY <1>7 DEF AccountsIInv, AccountsTyped
  <1> HIDE DEF ks
  <1>10. ks \in SUBSET Link  BY DEF ks
  <1>11. QED  BY <1>4, <1>5, <1>6, <1>7, <1>8, <1>9, <1>10, TakenBackStep

LEMMA AddUserStep ==
  ASSUME AccountsIInv, NEW u \in User, NEW r \in Room \cup {Nowhere}, NEW as \in Roles, AddUser(u, r, as)
  PROVE  AccountsIInv'
  <1>1. person' \in [User -> PersonRow]  BY RowsWritten DEF AddUser, AccountsIInv, AccountsTyped
  <1>2. role' \in [User -> [Room -> Roles \cup {NoRole}]]  BY DEF AddUser, AccountsIInv, AccountsTyped
  <1>3. open' = open /\ session' = session /\ UNCHANGED <<links, request>>  BY DEF AddUser
  <1>4. QED  BY <1>1, <1>2, <1>3, AccountsPeopleStep DEF AccountsIInv, AccountsTyped

LEMMA CreateRoomStep ==
  ASSUME AccountsIInv, NEW u \in User, NEW r \in Room, NEW k \in Link, CreateRoom(u, r, k)
  PROVE  AccountsIInv'
  <1>1. person' \in [User -> PersonRow]  BY RowsWritten DEF CreateRoom, AccountsIInv, AccountsTyped
  <1>2. role' \in [User -> [Room -> Roles \cup {NoRole}]]  BY DEF CreateRoom, AccountsIInv, AccountsTyped
  <1>3. open' \in [Room -> {"none", "on", "off", "deleted"}]  BY DEF CreateRoom, AccountsIInv, AccountsTyped
  <1>4. UNCHANGED <<session, request, opened, revoked>>  BY DEF CreateRoom
  <1>5. CASE UNCHANGED link
    <2>1. UNCHANGED <<links, request>>  BY <1>4, <1>5 DEF links
    <2>2. QED  BY <1>1, <1>2, <1>3, <1>4, <2>1, AccountsPeopleStep DEF AccountsIInv, AccountsTyped
  <1>6. CASE Sends(k, Invitation(u, r, "owner"))
    <2>1. Invitation(u, r, "owner") \in LinkRow  BY RowsWritten DEF AccountsIInv
    <2>2. QED  BY <1>1, <1>2, <1>3, <1>4, <1>6, <2>1, SendsStep
  <1>7. QED  BY <1>5, <1>6 DEF CreateRoom

LEMMA SuspendRoomStep == ASSUME AccountsIInv, NEW r \in Room, SuspendRoom(r) PROVE AccountsIInv'
  <1>1. open' \in [Room -> {"none", "on", "off", "deleted"}]  BY DEF SuspendRoom, AccountsIInv, AccountsTyped
  <1>2. UNCHANGED <<person, role, session, links, request>>  BY DEF SuspendRoom
  <1>3. QED  BY <1>1, <1>2, AccountsPeopleStep DEF AccountsIInv, AccountsTyped

LEMMA DeleteRoomStep == ASSUME AccountsIInv, NEW r \in Room, DeleteRoom(r) PROVE AccountsIInv'
  <1> DEFINE ks == {j \in Link : link[j].room = r /\ Usable(j)}
  <1>1. \A j \in Link : [link[j] EXCEPT !.kind = "gone"] \in LinkRow /\ [link[j] EXCEPT !.kind = "gone"].kind = "gone"
    BY DEF AccountsIInv, AccountsTyped, LinkRow, AccountsKinds
  <1>2. \A j \in Link : link'[j] = IF j \in ks THEN [link[j] EXCEPT !.kind = "gone"] ELSE link[j]
    BY DEF DeleteRoom
  <1>3. link' \in [Link -> LinkRow]
    <2>1. \A j \in Link : link'[j] \in LinkRow  BY <1>1, <1>2 DEF AccountsIInv, AccountsTyped
    <2>2. link' = [j \in Link |-> link'[j]]  BY DEF DeleteRoom
    <2>3. QED  BY <2>1, <2>2
  <1>4. UNCHANGED <<request, opened, revoked, person>>  BY DEF DeleteRoom
  <1>5. \A j \in Link : j \in ks => link'[j].kind = "gone"  BY <1>1, <1>2
  <1>6. \A j \in Link \ ks : (link'[j].kind = link[j].kind \/ link[j].kind = "none")
                             /\ (j \in revoked' <=> j \in revoked)
    BY <1>2, <1>4
  <1>7. \A j \in ks : link[j].kind # "gone"  BY DEF Usable
  <1>8. role' \in [User -> [Room -> Roles \cup {NoRole}]]  BY DEF DeleteRoom, AccountsIInv, AccountsTyped
  <1>9. open' \in [Room -> {"none", "on", "off", "deleted"}]  BY DEF DeleteRoom, AccountsIInv, AccountsTyped
  <1>10. session' \subseteq User \X (Room \cup {Nowhere})
    <2>1. session' = {s \in session : s[2] # r} \cup {<<u, Nowhere>> : u \in {v \in Operators : <<v, r>> \in session}}
      BY DEF DeleteRoom
    <2>2. {s \in session : s[2] # r} \subseteq User \X (Room \cup {Nowhere})  BY DEF AccountsIInv, AccountsTyped
    <2>3. \A u \in Operators : <<u, Nowhere>> \in User \X (Room \cup {Nowhere})  BY DEF Operators
    <2>4. QED  BY <2>1, <2>2, <2>3, Zenon
  <1>11. person' \in [User -> PersonRow]  BY <1>4 DEF AccountsIInv, AccountsTyped
  <1> HIDE DEF ks
  <1>12. ks \in SUBSET Link  BY DEF ks
  <1>13. QED  BY <1>3, <1>4, <1>5, <1>6, <1>7, <1>8, <1>9, <1>10, <1>11, <1>12, TakenBackStep

LEMMA InviteStep ==
  ASSUME AccountsIInv, NEW u \in User, NEW r \in Room, NEW as \in Roles, NEW k \in Link, Invite(u, r, as, k)
  PROVE  AccountsIInv'
  <1>1. Invitation(u, r, as) \in LinkRow  BY RowsWritten DEF AccountsIInv
  <1>2. /\ Sends(k, Invitation(u, r, as)) /\ UNCHANGED <<request, opened, revoked>>
        /\ UNCHANGED <<person, role, open, session>>
    BY DEF Invite, people
  <1>3. QED  BY <1>1, <1>2, SendsStep DEF AccountsIInv, AccountsTyped

LEMMA InviteOperatorStep ==
  ASSUME AccountsIInv, NEW u \in User, NEW k \in Link, InviteOperator(u, k)
  PROVE  AccountsIInv'
  <1> DEFINE to == [NoLinkYet EXCEPT !.kind = "invite", !.user = u, !.operator = TRUE]
  <1>1. to \in LinkRow  BY DEF NoLinkYet, LinkRow, AccountsKinds
  <1>2. /\ Sends(k, to) /\ UNCHANGED <<request, opened, revoked>> /\ UNCHANGED <<person, role, open, session>>
    BY DEF InviteOperator, people
  <1> HIDE DEF to
  <1>3. QED  BY <1>1, <1>2, SendsStep DEF AccountsIInv, AccountsTyped

LEMMA SendResetStep ==
  ASSUME AccountsIInv, NEW u \in User, NEW k \in Link, SendReset(u, k)
  PROVE  AccountsIInv'
  <1> DEFINE to == [NoLinkYet EXCEPT !.kind = "reset", !.user = u]
  <1>1. to \in LinkRow  BY DEF NoLinkYet, LinkRow, AccountsKinds
  <1>2. /\ Sends(k, to) /\ UNCHANGED <<request, opened, revoked>> /\ UNCHANGED <<person, role, open, session>>
    BY DEF SendReset, people
  <1> HIDE DEF to
  <1>3. QED  BY <1>1, <1>2, SendsStep DEF AccountsIInv, AccountsTyped

LEMMA RevokeStep == ASSUME AccountsIInv, NEW k \in Link, Revoke(k) PROVE AccountsIInv'
  <1>1. \A j \in Link : [link[j] EXCEPT !.kind = "gone"] \in LinkRow /\ [link[j] EXCEPT !.kind = "gone"].kind = "gone"
    BY DEF AccountsIInv, AccountsTyped, LinkRow, AccountsKinds
  <1>2. \A j \in Link : link'[j] = IF j \in {k} THEN [link[j] EXCEPT !.kind = "gone"] ELSE link[j]
    BY DEF Revoke, RevokeAll
  <1>3. link' \in [Link -> LinkRow]
    <2>1. \A j \in Link : link'[j] \in LinkRow  BY <1>1, <1>2 DEF AccountsIInv, AccountsTyped
    <2>2. link' = [j \in Link |-> link'[j]]  BY DEF Revoke, RevokeAll
    <2>3. QED  BY <2>1, <2>2
  <1>4. /\ UNCHANGED <<request, opened, person, role, open, session>>
        /\ revoked' = revoked \cup {k} /\ link[k].kind # "gone"
    BY DEF Revoke, RevokeAll, people
  <1>5. \A j \in Link : j \in {k} => link'[j].kind = "gone"  BY <1>1, <1>2
  <1>6. \A j \in Link \ {k} : (link'[j].kind = link[j].kind \/ link[j].kind = "none")
                              /\ (j \in revoked' <=> j \in revoked)
    BY <1>2, <1>4
  <1>7. /\ person' \in [User -> PersonRow] /\ role' \in [User -> [Room -> Roles \cup {NoRole}]]
        /\ open' \in [Room -> {"none", "on", "off", "deleted"}]
        /\ session' \subseteq User \X (Room \cup {Nowhere})
    BY <1>4 DEF AccountsIInv, AccountsTyped
  <1>8. {k} \in SUBSET Link /\ \A j \in {k} : link[j].kind # "gone"  BY <1>4
  <1>9. QED  BY <1>3, <1>4, <1>5, <1>6, <1>7, <1>8, TakenBackStep

LEMMA ResendStep == ASSUME AccountsIInv, NEW u \in User, NEW r \in Room, NEW k \in Link, Resend(u, r, k) PROVE AccountsIInv'
  <1> DEFINE old == {j \in Link : link[j].kind = "invite" /\ link[j].user = u /\ link[j].room = r}
             as == IF role[u][r] # NoRole THEN role[u][r] ELSE link[CHOOSE j \in old : TRUE].role
             new == Invitation(u, r, as)
  <1>1. link[k].kind = "none" /\ revoked' = revoked \cup old  BY DEF Resend, Unused
  <1>2. as \in Roles \cup {NoRole}
    <2>1. role[u][r] \in Roles \cup {NoRole}  BY DEF AccountsIInv, AccountsTyped
    <2>2. CASE role[u][r] # NoRole  BY <2>1, <2>2
    <2>3. CASE role[u][r] = NoRole
      <3>1. old # {}  BY <2>3 DEF Resend
      <3>2. (CHOOSE j \in old : TRUE) \in Link  BY <3>1, Zenon
      <3>3. \A j \in Link : link[j].role \in Roles \cup {NoRole}  BY DEF AccountsIInv, AccountsTyped, LinkRow
      <3>4. QED  BY <2>3, <3>2, <3>3
    <2>4. QED  BY <2>2, <2>3
  <1>3. /\ link' = [j \in Link |-> IF j = k THEN new
                                   ELSE IF j \in old THEN [link[j] EXCEPT !.kind = "gone"] ELSE link[j]]
        /\ UNCHANGED <<request, opened, person, role, open, session>>
    BY DEF Resend, people
  <1>4. \A j \in old : j \in Link /\ link[j].kind = "invite"  OBVIOUS
  <1>5. old \in SUBSET Link  OBVIOUS
  <1> HIDE DEF old, as
  <1>6. new \in LinkRow  BY <1>2 DEF Invitation, NoLinkYet, LinkRow, AccountsKinds
  <1>7. \A j \in Link : [link[j] EXCEPT !.kind = "gone"] \in LinkRow /\ [link[j] EXCEPT !.kind = "gone"].kind = "gone"
    BY DEF AccountsIInv, AccountsTyped, LinkRow, AccountsKinds
  <1> HIDE DEF new
  <1>8. \A j \in Link : link'[j] = IF j = k THEN new
                                   ELSE IF j \in old THEN [link[j] EXCEPT !.kind = "gone"] ELSE link[j]
    BY <1>3
  <1>9. link' \in [Link -> LinkRow]
    <2>1. \A j \in Link : link'[j] \in LinkRow  BY <1>6, <1>7, <1>8 DEF AccountsIInv, AccountsTyped
    <2>2. link' = [j \in Link |-> link'[j]]  BY <1>3
    <2>3. QED  BY <2>1, <2>2
  <1>10. k \notin old  BY <1>1, <1>4
  <1>11. \A j \in Link : j \in old => link'[j].kind = "gone"  BY <1>7, <1>8, <1>10
  <1>12. \A j \in Link \ old : (link'[j].kind = link[j].kind \/ link[j].kind = "none")
                               /\ (j \in revoked' <=> j \in revoked)
    BY <1>1, <1>8
  <1>13. \A j \in old : link[j].kind # "gone"  BY <1>4
  <1>14. /\ person' \in [User -> PersonRow] /\ role' \in [User -> [Room -> Roles \cup {NoRole}]]
         /\ open' \in [Room -> {"none", "on", "off", "deleted"}]
         /\ session' \subseteq User \X (Room \cup {Nowhere})
    BY <1>3 DEF AccountsIInv, AccountsTyped
  <1>15. UNCHANGED <<request, opened>>  BY <1>3
  <1>16. QED  BY <1>5, <1>9, <1>11, <1>12, <1>13, <1>14, <1>15, TakenBackStep

-----------------------------------------------------------------------------
LEMMA LooksUpStep ==
  ASSUME AccountsIInv, NEW q \in Page, NEW k \in Link, NEW u \in User, LooksUp(q, k, u)
  PROVE  AccountsIInv'
  <1> DEFINE x == [AtRest EXCEPT !.step = "accept", !.link = k, !.user = u]
  <1>1. x \in PageRow /\ x.step = "accept" /\ x.link = k /\ x.user = u  BY DEF AtRest, PageRow
  <1>2. /\ request' = [request EXCEPT ![q] = x]
        /\ UNCHANGED links /\ UNCHANGED <<person, role, open, session>>
    BY DEF LooksUp, people
  <1> HIDE DEF x
  <1>3. QED  BY <1>1, <1>2, PageStep DEF AccountsIInv, AccountsTyped

LEMMA DemoteStep ==
  ASSUME AccountsIInv, NEW q \in Page, NEW u \in User, NEW r \in Room, NEW as \in Roles \cup {NoRole}, Demote(q, u, r, as)
  PROVE  AccountsIInv'
  <1> DEFINE x == [AtRest EXCEPT !.step = "demote", !.user = u, !.room = r, !.role = as]
  <1>1. x \in PageRow /\ x.step = "demote" /\ x.room = r /\ x.user = u  BY DEF AtRest, PageRow
  <1>2. /\ request' = [request EXCEPT ![q] = x]
        /\ UNCHANGED links /\ UNCHANGED <<person, role, open, session>>
    BY DEF Demote, people
  <1> HIDE DEF x
  <1>3. QED  BY <1>1, <1>2, PageStep DEF AccountsIInv, AccountsTyped

LEMMA OustStep == ASSUME AccountsIInv, NEW q \in Page, NEW u \in User, Oust(q, u) PROVE AccountsIInv'
  <1> DEFINE x == [AtRest EXCEPT !.step = "oust", !.user = u]
  <1>1. x \in PageRow /\ x.step = "oust" /\ x.user = u  BY DEF AtRest, PageRow
  <1>2. /\ request' = [request EXCEPT ![q] = x]
        /\ UNCHANGED links /\ UNCHANGED <<person, role, open, session>>
    BY DEF Oust, people
  <1> HIDE DEF x
  <1>3. QED  BY <1>1, <1>2, PageStep DEF AccountsIInv, AccountsTyped

LEMMA RestIsPage == AtRest \in PageRow /\ AtRest.step = "rest"
  BY DEF AtRest, PageRow

LEMMA DemotedStep == ASSUME AccountsIInv, NEW q \in Page, Demoted(q) PROVE AccountsIInv'
  <1> DEFINE u == request[q].user
             r == request[q].room
             as == request[q].role
  <1>1. u \in User /\ r \in Room  BY DEF Demoted, AccountsIInv, AccountsTyped, PageOK
  <1>2. as \in Roles \cup {NoRole}  BY DEF AccountsIInv, AccountsTyped, PageRow
  <1>3. /\ role' = IF role[u][r] = NoRole THEN role ELSE [role EXCEPT ![u][r] = as]
        /\ session' = IF as = NoRole THEN session \ {<<u, r>>} ELSE session
        /\ request' = [request EXCEPT ![q] = AtRest] /\ UNCHANGED <<person, open, links>>
    BY DEF Demoted
  <1> HIDE DEF u, r, as
  <1>4. role' \in [User -> [Room -> Roles \cup {NoRole}]]  BY <1>1, <1>2, <1>3 DEF AccountsIInv, AccountsTyped
  <1>5. session' \subseteq User \X (Room \cup {Nowhere})  BY <1>3 DEF AccountsIInv, AccountsTyped
  <1>6. QED  BY <1>3, <1>4, <1>5, RestIsPage, PageStep DEF AccountsIInv, AccountsTyped

LEMMA OustedStep == ASSUME AccountsIInv, NEW q \in Page, Ousted(q) PROVE AccountsIInv'
  <1> DEFINE u == request[q].user
  <1>1. u \in User  BY DEF Ousted, AccountsIInv, AccountsTyped, PageOK
  <1>2. /\ person' = [person EXCEPT ![u].operator = FALSE] /\ session' = session \ {<<u, Nowhere>>}
        /\ request' = [request EXCEPT ![q] = AtRest] /\ UNCHANGED <<role, open, links>>
    BY DEF Ousted
  <1> HIDE DEF u
  <1>3. [person[u] EXCEPT !.operator = FALSE] \in PersonRow  BY <1>1 DEF AccountsIInv, AccountsTyped, PersonRow
  <1>4. person' \in [User -> PersonRow]  BY <1>2, <1>3 DEF AccountsIInv, AccountsTyped
  <1>5. session' \subseteq User \X (Room \cup {Nowhere})  BY <1>2 DEF AccountsIInv, AccountsTyped
  <1>6. QED  BY <1>2, <1>4, <1>5, RestIsPage, PageStep DEF AccountsIInv, AccountsTyped

\* The account a link leaves behind.
LEMMA AcceptedRow ==
  ASSUME AccountsTyped, NEW u \in User, NEW me \in {person[u], Welcomed(u)}, me = person[u] => person[u].known,
         NEW op \in BOOLEAN
  PROVE  [me EXCEPT !.operator = @ \/ op] \in PersonRow
  <1>1. me \in PersonRow /\ me.known
    <2>1. Welcomed(u) \in PersonRow /\ Welcomed(u).known  BY RowsWritten
    <2>2. person[u] \in PersonRow  BY DEF AccountsTyped
    <2>3. QED  BY <2>1, <2>2
  <1>2. (me.operator \/ op) \in BOOLEAN  BY Zenon
  <1>3. QED  BY <1>1, <1>2 DEF PersonRow

LEMMA AcceptStep == ASSUME AccountsIInv, NEW q \in Page, Accept(q) PROVE AccountsIInv'
  <1> DEFINE k == request[q].link
             u == request[q].user
             joins == link[k].room # Nowhere /\ link[k].role # NoRole
             known == link[k].kind = "invite" /\ person[u].password
             me == IF known THEN person[u] ELSE Welcomed(u)
             kept == IF link[k].kind = "reset" THEN {s \in session : s[1] # u} ELSE session
             takes == /\ person' = [person EXCEPT ![u] = [me EXCEPT !.operator = @ \/ link[k].operator]]
                      /\ role' = IF joins THEN [role EXCEPT ![u][link[k].room] = link[k].role] ELSE role
                      /\ link' = [link EXCEPT ![k].kind = "gone"]
                      /\ opened' = [opened EXCEPT ![k] = @ + 1]
                      /\ session' = kept \cup {<<u, link[k].room>>}
                      /\ UNCHANGED <<open, revoked>>
  <1>1. k \in Link /\ u \in User  BY DEF Accept, AccountsIInv, AccountsTyped, PageOK
  <1>2. request' = [request EXCEPT ![q] = AtRest]  BY DEF Accept
  <1>3. UNCHANGED <<people, session, links>> \/ (Usable(k) /\ takes)  BY Zenon DEF Accept, StillUnused
  <1>4. CASE UNCHANGED <<people, session, links>>
    <2>1. UNCHANGED links /\ UNCHANGED <<person, role, open, session>>  BY <1>4 DEF people
    <2>2. QED  BY <1>2, <2>1, RestIsPage, PageStep DEF AccountsIInv, AccountsTyped
  <1>5. CASE Usable(k) /\ takes
    <2>1. link[k] \in LinkRow  BY <1>1 DEF AccountsIInv, AccountsTyped
    <2>2. person' \in [User -> PersonRow]
      <3>1. me \in {person[u], Welcomed(u)}  OBVIOUS
      <3>2. person[u] \in PersonRow /\ link[k].operator \in BOOLEAN  BY <1>1, <2>1 DEF AccountsIInv, AccountsTyped, LinkRow
      <3>3. me = person[u] => person[u].known
        <4>1. CASE known  BY <3>2, <4>1 DEF PersonRow
        <4>2. CASE ~known  BY <1>1, <4>2, RowsWritten DEF AccountsIInv
        <4>3. QED  BY <4>1, <4>2
      <3> HIDE DEF me, k, u
      <3>4. [me EXCEPT !.operator = @ \/ link[k].operator] \in PersonRow
        BY <1>1, <3>1, <3>2, <3>3, AcceptedRow DEF AccountsIInv
      <3>5. QED  BY <1>1, <1>5, <3>4 DEF AccountsIInv, AccountsTyped
    <2>3. role' \in [User -> [Room -> Roles \cup {NoRole}]]
      <3>1. link[k].room \in Room \cup {Nowhere} /\ link[k].role \in Roles \cup {NoRole}  BY <2>1 DEF LinkRow
      <3> HIDE DEF k, u
      <3>2. QED  BY <1>1, <1>5, <3>1 DEF AccountsIInv, AccountsTyped
    <2>4. session' \subseteq User \X (Room \cup {Nowhere})
      <3>1. link[k].room \in Room \cup {Nowhere}  BY <2>1 DEF LinkRow
      <3>2. kept \subseteq User \X (Room \cup {Nowhere})  BY DEF AccountsIInv, AccountsTyped
      <3> HIDE DEF k, u, kept
      <3>3. QED  BY <1>1, <1>5, <3>1, <3>2
    <2> DEFINE gone == [link[k] EXCEPT !.kind = "gone"]
    <2>5. gone \in LinkRow /\ gone.kind = "gone"  BY <2>1 DEF LinkRow, AccountsKinds
    <2> HIDE DEF k, u, joins, me, kept
    <2>6. link' = [link EXCEPT ![k] = gone]  BY <1>5
    <2> HIDE DEF gone
    <2>7. link' \in [Link -> LinkRow] /\ \A j \in Link : link'[j] = IF j = k THEN gone ELSE link[j]
      BY <1>1, <2>5, <2>6 DEF AccountsIInv, AccountsTyped
    <2>8. opened' \in [Link -> Nat] /\ \A j \in Link : opened'[j] = IF j = k THEN opened[j] + 1 ELSE opened[j]
      BY <1>1, <1>5 DEF AccountsIInv, AccountsTyped
    <2>9. \A j \in Link : LinkStep(j)
      <3>1. link[k].kind # "gone" /\ revoked' = revoked  BY <1>5 DEF Usable
      <3>2. QED  BY <2>5, <2>7, <2>8, <3>1 DEF LinkStep
    <2>10. request' \in [Page -> PageRow] /\ \A p \in Page : request'[p] = IF p = q THEN AtRest ELSE request[p]
      BY <1>2, RestIsPage DEF AccountsIInv, AccountsTyped
    <2>11. \A p \in Page : PageOK(p)'  BY <2>10, RestIsPage DEF AccountsIInv, AccountsTyped, PageOK
    <2>12. open' = open  BY <1>5
    <2>13. AccountsTyped'  BY <2>2, <2>3, <2>4, <2>7, <2>8, <2>10, <2>11, <2>12 DEF AccountsIInv, AccountsTyped
    <2>14. QED  BY <2>9, <2>13, LinksStay
  <1>6. QED  BY <1>3, <1>4, <1>5

LEMMA SignInStep == ASSUME AccountsIInv, NEW u \in User, NEW x \in Room \cup {Nowhere}, SignIn(u, x) PROVE AccountsIInv'
  <1>1. UNCHANGED <<links, request>> /\ UNCHANGED <<person, role, open>>  BY DEF SignIn, people
  <1>2. session' \subseteq User \X (Room \cup {Nowhere})  BY DEF SignIn, AccountsIInv, AccountsTyped
  <1>3. QED  BY <1>1, <1>2, AccountsPeopleStep DEF AccountsIInv, AccountsTyped

LEMMA SignOutStep == ASSUME AccountsIInv, NEW s \in session, SignOut(s) PROVE AccountsIInv'
  <1>1. UNCHANGED <<links, request>> /\ UNCHANGED <<person, role, open>>  BY DEF SignOut, people
  <1>2. session' \subseteq User \X (Room \cup {Nowhere})  BY DEF SignOut, AccountsIInv, AccountsTyped
  <1>3. QED  BY <1>1, <1>2, AccountsPeopleStep DEF AccountsIInv, AccountsTyped

LEMMA EnterStep ==
  ASSUME AccountsIInv, NEW u \in User, NEW x \in Room \cup {Nowhere}, NEW r \in Room, Enter(u, x, r)
  PROVE  AccountsIInv'
  <1>1. UNCHANGED <<links, request>> /\ UNCHANGED <<person, role, open>>  BY DEF Enter, people
  <1>2. session' \subseteq User \X (Room \cup {Nowhere})  BY DEF Enter, AccountsIInv, AccountsTyped
  <1>3. QED  BY <1>1, <1>2, AccountsPeopleStep DEF AccountsIInv, AccountsTyped

-----------------------------------------------------------------------------
LEMMA AccountsStepHolds == AccountsIInv /\ [AccountsNext]_accountVars => AccountsIInv'
  <1> SUFFICES ASSUME AccountsIInv, [AccountsNext]_accountVars PROVE AccountsIInv'  OBVIOUS
  <1>1. CASE UNCHANGED accountVars
    <2>1. UNCHANGED <<links, request>> /\ UNCHANGED <<person, role, open, session>>
      BY <1>1 DEF accountVars, links
    <2>2. QED  BY <2>1, AccountsPeopleStep DEF AccountsIInv, AccountsTyped
  <1>2. CASE CommandLine  BY <1>2, SetupLinkStep, FirstAdminStep, AddUserStep DEF CommandLine
  <1>3. CASE PublicPages
    BY <1>3, SendResetStep, LooksUpStep, AcceptStep, SignInStep, EnterStep, SignOutStep DEF PublicPages
  <1>4. CASE PeoplePages
    BY <1>4, RevokeStep, ResendStep, InviteStep, DemotedStep, DemoteStep DEF PeoplePages
  <1>5. CASE ConsolePeople
    BY <1>5, SuspendRoomStep, DeleteRoomStep, CreateRoomStep, InviteOperatorStep, OustStep, OustedStep
    DEF ConsolePeople
  <1>6. QED  BY <1>1, <1>2, <1>3, <1>4, <1>5 DEF AccountsNext

LEMMA AccountsInvariant == AccountsSpec => []AccountsIInv
  BY AccountsInitHolds, AccountsStepHolds, PTL DEF AccountsSpec

(***************************************************************************)
(* Every row of the tables holds what the code may write in it, whatever   *)
(* the order of requests: no operator and no password without an account.  *)
(***************************************************************************)
THEOREM AccountsTypeCorrect == AccountsSpec => []AccountsTypeOK
  <1>1. AccountsIInv => AccountsTypeOK
    <2> SUFFICES ASSUME AccountsIInv PROVE AccountsTypeOK  OBVIOUS
    <2>1. \A u \in User : person[u].operator \/ person[u].password => person[u].known
      BY DEF AccountsIInv, AccountsTyped, PersonRow
    <2>2. \A k \in Link : link[k].kind \in {"none", "invite", "reset", "setup", "gone"}
      BY DEF AccountsIInv, AccountsTyped, LinkRow, AccountsKinds
    <2>3. QED  BY <2>1, <2>2 DEF AccountsTypeOK, AccountsIInv, AccountsTyped
  <1>2. QED  BY <1>1, AccountsInvariant, PTL

(***************************************************************************)
(* A link takes effect at most once, and never after it was taken back,    *)
(* however many pages of it are open: accept uses it only while its row    *)
(* still says that it is unused.                                           *)
(***************************************************************************)
THEOREM LinksOpenAtMostOnce == AccountsSpec => []LinksOpenOnce
  <1>1. AccountsIInv => LinksOpenOnce  BY DEF AccountsIInv, LinkOK, LinksOpenOnce
  <1>2. QED  BY <1>1, AccountsInvariant, PTL

(***************************************************************************)
(* Somebody in charge.  A request that counted the others and has not yet  *)
(* written finds them still there, because it alone counts; every other    *)
(* step that writes people waits for it (Alone).                           *)
(***************************************************************************)
OwnersThere == \A r \in Room : Exists(r) => Owners(r) # {}
OperatorsThere == launched => Operators # {}
CountOK(q) ==
  LET x == request[q]
  IN /\ x.step = "demote" /\ role[x.user][x.room] = "owner" => OthersOwn(x.user, x.room)
     /\ x.step = "oust" => Operators \ {x.user} # {}
     /\ x.step \in Counting => \A p \in Page \ {q} : request[p].step \notin Counting

CInv == AccountsIInv /\ OwnersThere /\ OperatorsThere /\ \A q \in Page : CountOK(q)

Quiet == \A q \in Page : request[q].step \notin Counting

\* What becomes of the owners, and of the operators, in one step.
LEMMA OwnersStay ==
  ASSUME OwnersThere, role' = role, \A r \in Room : Exists(r)' => Exists(r)
  PROVE  OwnersThere'
  BY DEF OwnersThere, Owners

LEMMA RoleGiven ==
  ASSUME AccountsIInv, OwnersThere, NEW u \in User, NEW x \in Room, NEW as \in Roles \cup {NoRole},
         role' = [role EXCEPT ![u][x] = as],
         role[u][x] = "owner" /\ as # "owner" => OthersOwn(u, x),
         \A r \in Room : Exists(r)' => Exists(r) \/ (r = x /\ as = "owner")
  PROVE  OwnersThere'
  <1>1. \A v \in User, r \in Room : role'[v][r] = IF v = u /\ r = x THEN as ELSE role[v][r]
    BY DEF AccountsIInv, AccountsTyped
  <1>2. ASSUME NEW r \in Room, Exists(r)' PROVE Owners(r)' # {}
    <2>1. CASE r = x /\ as = "owner"
      <3>1. u \in Owners(r)'  BY <1>1, <2>1 DEF Owners
      <3>2. QED  BY <3>1
    <2>2. CASE r # x
      <3>1. Exists(r)  BY <1>2, <2>2
      <3>2. Owners(r)' = Owners(r)  BY <1>1, <2>2 DEF Owners
      <3>3. QED  BY <3>1, <3>2 DEF OwnersThere
    <2>3. CASE r = x /\ as # "owner"
      <3>1. Exists(r)  BY <1>2, <2>3
      <3>2. PICK v \in Owners(r) : v # u \/ role[u][x] # "owner"
        <4>1. Owners(r) # {}  BY <3>1 DEF OwnersThere
        <4>2. CASE role[u][x] = "owner"  BY <2>3, <4>2 DEF OthersOwn
        <4>3. CASE role[u][x] # "owner"  BY <4>1, <4>3
        <4>4. QED  BY <4>2, <4>3
      <3>3. v # u  BY <2>3, <3>2 DEF Owners
      <3>4. v \in Owners(r)'  BY <1>1, <3>2, <3>3 DEF Owners
      <3>5. QED  BY <3>4
    <2>4. QED  BY <2>1, <2>2, <2>3
  <1>3. QED  BY <1>2 DEF OwnersThere

LEMMA OperatorsStay ==
  ASSUME OperatorsThere, \A u \in User : person[u].operator => person'[u].operator,
         launched' => launched \/ \E u \in User : person'[u].operator
  PROVE  OperatorsThere'
  BY DEF OperatorsThere, Operators

LEMMA SamePeople ==
  ASSUME CInv, UNCHANGED people
  PROVE  OwnersThere' /\ OperatorsThere'
  BY DEF CInv, people, OwnersThere, OperatorsThere, Owners, Operators, Exists

\* After a step that waits for the requests that count, none of them is left.
LEMMA AccountsQuietStep ==
  ASSUME AccountsIInv', OwnersThere', OperatorsThere', Quiet'
  PROVE  CInv'
  BY DEF CInv, CountOK, Quiet, Counting

LEMMA StaysQuiet ==
  ASSUME ~CountsOverlap, Alone, UNCHANGED request
  PROVE  Quiet'
  BY DEF Alone, Quiet

LEMMA CountInit == AccountsInit => CInv
  <1> SUFFICES ASSUME AccountsInit PROVE CInv  OBVIOUS
  <1>1. \A q \in Page : CountOK(q)  BY DEF AccountsInit, AtRest, CountOK, Counting
  <1>2. OwnersThere /\ OperatorsThere  BY DEF AccountsInit, OwnersThere, OperatorsThere, Exists
  <1>3. QED  BY <1>1, <1>2, AccountsInitHolds DEF CInv

-----------------------------------------------------------------------------
LEMMA OperatorKept ==
  ASSUME AccountsIInv, NEW u \in User
  PROVE  Welcomed(u).operator = person[u].operator /\ Ensured(u).operator = person[u].operator
  BY DEF AccountsIInv, AccountsTyped, PersonRow, Welcomed, Ensured

LEMMA AccountMade ==
  ASSUME CInv, NEW u \in User, launched' = launched,
         person' = [person EXCEPT ![u] = Welcomed(u)] \/ person' = [person EXCEPT ![u] = Ensured(u)]
  PROVE  OperatorsThere'
  <1>1. \A v \in User : person'[v].operator = person[v].operator  BY OperatorKept DEF CInv, AccountsIInv, AccountsTyped
  <1>2. QED  BY <1>1, OperatorsStay DEF CInv

LEMMA CommandLineCounts ==
  ASSUME ~CountsOverlap, CInv, CommandLine
  PROVE  Quiet' /\ OwnersThere' /\ OperatorsThere'
  <1>1. ASSUME NEW k \in Link, SetupLink(k) PROVE Quiet' /\ OwnersThere' /\ OperatorsThere'
    BY <1>1, StaysQuiet, SamePeople DEF SetupLink
  <1>2. ASSUME NEW u \in User, FirstAdmin(u) PROVE Quiet' /\ OwnersThere' /\ OperatorsThere'
    <2>1. Quiet'  BY <1>2, StaysQuiet DEF FirstAdmin
    <2>2. role' = role /\ open' = open  BY <1>2 DEF FirstAdmin
    <2>3. OwnersThere'  BY <2>2, OwnersStay DEF Exists, CInv
    <2>4. person'[u] = [Welcomed(u) EXCEPT !.operator = TRUE]  BY <1>2 DEF FirstAdmin, CInv, AccountsIInv, AccountsTyped
    <2>5. [Welcomed(u) EXCEPT !.operator = TRUE].operator = TRUE
      BY RowsWritten DEF CInv, AccountsIInv, PersonRow
    <2>6. u \in Operators'  BY <2>4, <2>5 DEF Operators
    <2>7. QED  BY <2>1, <2>3, <2>6 DEF OperatorsThere
  <1>3. ASSUME NEW u \in User, NEW r \in Room \cup {Nowhere}, NEW as \in Roles, AddUser(u, r, as)
        PROVE  Quiet' /\ OwnersThere' /\ OperatorsThere'
    <2>1. Quiet'  BY <1>3, StaysQuiet DEF AddUser
    <2>2. open' = open /\ OperatorsThere'  BY <1>3, AccountMade DEF AddUser
    <2>3. CASE r = Nowhere
      <3>1. role' = role  BY <1>3, <2>3 DEF AddUser
      <3>2. OwnersThere'  BY <2>2, <3>1, OwnersStay DEF Exists, CInv
      <3>3. QED  BY <2>1, <2>2, <3>2
    <2>4. CASE r # Nowhere
      <3>1. r \in Room /\ role' = [role EXCEPT ![u][r] = as]  BY <1>3, <2>4 DEF AddUser
      <3>2. role[u][r] = "owner" /\ as # "owner" => OthersOwn(u, r)  BY <1>3, <2>4 DEF AddUser
      <3>3. OwnersThere'  BY <2>2, <3>1, <3>2, RoleGiven DEF Exists, CInv
      <3>4. QED  BY <2>1, <2>2, <3>3
    <2>5. QED  BY <2>3, <2>4
  <1>4. QED  BY <1>1, <1>2, <1>3 DEF CommandLine

LEMMA AcceptCounts ==
  ASSUME ~CountsOverlap, CInv, NEW q \in Page, Accept(q)
  PROVE  Quiet' /\ OwnersThere' /\ OperatorsThere'
  <1> DEFINE k == request[q].link
             u == request[q].user
             joins == link[k].room # Nowhere /\ link[k].role # NoRole
             known == link[k].kind = "invite" /\ person[u].password
             me == IF known THEN person[u] ELSE Welcomed(u)
             takes == /\ person' = [person EXCEPT ![u] = [me EXCEPT !.operator = @ \/ link[k].operator]]
                      /\ role' = IF joins THEN [role EXCEPT ![u][link[k].room] = link[k].role] ELSE role
                      /\ launched' = (launched \/ link[k].operator)
                      /\ UNCHANGED open
                      /\ joins /\ role[u][link[k].room] = "owner" /\ link[k].role # "owner"
                           => OthersOwn(u, link[k].room)
  <1>1. k \in Link /\ u \in User  BY DEF Accept, CInv, AccountsIInv, AccountsTyped, PageOK
  <1>2. request' = [request EXCEPT ![q] = AtRest] /\ Alone  BY DEF Accept
  <1>3. UNCHANGED people \/ takes  BY Zenon DEF Accept
  <1>4. Quiet'  BY <1>2, RestIsPage DEF Quiet, Alone, Counting, CInv, AccountsIInv, AccountsTyped
  <1>5. CASE UNCHANGED people  BY <1>4, <1>5, SamePeople
  <1>6. CASE takes
    <2>1. link[k] \in LinkRow  BY <1>1 DEF CInv, AccountsIInv, AccountsTyped
    <2>2. person[u] \in PersonRow /\ me \in PersonRow /\ me.operator = person[u].operator
      BY <1>1, RowsWritten, OperatorKept DEF CInv, AccountsIInv, AccountsTyped
    <2>3. link[k].operator \in BOOLEAN /\ link[k].room \in Room \cup {Nowhere} /\ link[k].role \in Roles \cup {NoRole}
      BY <2>1 DEF LinkRow
    <2>4. OwnersThere'
      <3>1. CASE joins
        <4>1. link[k].room \in Room /\ role' = [role EXCEPT ![u][link[k].room] = link[k].role] /\ open' = open
          BY <1>6, <2>3, <3>1
        <4>2. role[u][link[k].room] = "owner" /\ link[k].role # "owner" => OthersOwn(u, link[k].room)
          BY <1>6, <3>1
        <4> HIDE DEF k, u
        <4>3. QED  BY <1>1, <2>3, <4>1, <4>2, RoleGiven DEF Exists, CInv
      <3>2. CASE ~joins
        <4>1. role' = role /\ open' = open  BY <1>6, <3>2
        <4>2. QED  BY <4>1, OwnersStay DEF Exists, CInv
      <3>3. QED  BY <3>1, <3>2
    <2>5. OperatorsThere'
      <3> DEFINE entry == [me EXCEPT !.operator = @ \/ link[k].operator]
      <3>1. entry.operator = (person[u].operator \/ link[k].operator)
        <4> HIDE DEF me, k, u
        <4>1. QED  BY <2>2 DEF PersonRow
      <3>2. person' = [person EXCEPT ![u] = entry]  BY <1>6
      <3>3. launched' = (launched \/ link[k].operator)  BY <1>6
      <3> HIDE DEF entry, k, u, me
      <3>4. \A v \in User : person'[v] = IF v = u THEN entry ELSE person[v]
        BY <1>1, <3>2 DEF CInv, AccountsIInv, AccountsTyped
      <3>5. \A v \in User : person[v].operator => person'[v].operator  BY <3>1, <3>4
      <3>6. launched' => launched \/ \E v \in User : person'[v].operator  BY <1>1, <3>1, <3>3, <3>4
      <3>7. QED  BY <3>5, <3>6, OperatorsStay DEF CInv
    <2>6. QED  BY <1>4, <2>4, <2>5
  <1>7. QED  BY <1>3, <1>5, <1>6

LEMMA SessionsCount ==
  ASSUME ~CountsOverlap, CInv, NEW u \in User,
         \/ \E k \in Link : SendReset(u, k)
         \/ \E x \in Room \cup {Nowhere} : SignIn(u, x) \/ \E r \in Room : Enter(u, x, r)
         \/ \E s \in session : SignOut(s)
  PROVE  Quiet' /\ OwnersThere' /\ OperatorsThere'
  <1>1. Alone /\ UNCHANGED request /\ UNCHANGED people  BY DEF SendReset, SignIn, SignOut, Enter
  <1>2. QED  BY <1>1, StaysQuiet, SamePeople

LEMMA RoomsCount ==
  ASSUME ~CountsOverlap, CInv, NEW r \in Room,
         SuspendRoom(r) \/ DeleteRoom(r) \/ \E u \in User, k \in Link : CreateRoom(u, r, k)
  PROVE  Quiet' /\ OwnersThere' /\ OperatorsThere'
  <1>1. CASE SuspendRoom(r)
    <2>1. Quiet'  BY <1>1, StaysQuiet DEF SuspendRoom
    <2>2. role' = role /\ UNCHANGED <<person, launched>>  BY <1>1 DEF SuspendRoom
    <2>3. \A x \in Room : Exists(x)' => Exists(x)  BY <1>1 DEF SuspendRoom, Exists, CInv, AccountsIInv, AccountsTyped
    <2>4. QED  BY <2>1, <2>2, <2>3, OwnersStay, OperatorsStay DEF CInv
  <1>2. CASE DeleteRoom(r)
    <2>1. Quiet'  BY <1>2, StaysQuiet DEF DeleteRoom
    <2>2. UNCHANGED <<person, launched>>  BY <1>2 DEF DeleteRoom
    <2>3. \A x \in Room : Exists(x)' => Exists(x) /\ x # r  BY <1>2 DEF DeleteRoom, Exists, CInv, AccountsIInv, AccountsTyped
    <2>4. \A x \in Room \ {r}, u \in User : role'[u][x] = role[u][x]  BY <1>2 DEF DeleteRoom, CInv, AccountsIInv, AccountsTyped
    <2>5. \A x \in Room \ {r} : Owners(x)' = Owners(x)  BY <2>4 DEF Owners
    <2>6. OwnersThere'  BY <2>3, <2>5 DEF OwnersThere, CInv
    <2>7. QED  BY <2>1, <2>2, <2>6, OperatorsStay DEF CInv
  <1>3. ASSUME NEW u \in User, NEW k \in Link, CreateRoom(u, r, k)
        PROVE  Quiet' /\ OwnersThere' /\ OperatorsThere'
    <2>1. Quiet'  BY <1>3, StaysQuiet DEF CreateRoom
    <2>2. role' = [role EXCEPT ![u][r] = "owner"] /\ OperatorsThere'  BY <1>3, AccountMade DEF CreateRoom
    <2>3. \A x \in Room : Exists(x)' => Exists(x) \/ x = r  BY <1>3 DEF CreateRoom, Exists, CInv, AccountsIInv, AccountsTyped
    <2>4. OwnersThere'  BY <2>2, <2>3, RoleGiven DEF CInv
    <2>5. QED  BY <2>1, <2>2, <2>4
  <1>4. QED  BY <1>1, <1>2, <1>3

LEMMA LinksCount ==
  ASSUME ~CountsOverlap, CInv, NEW k \in Link,
         \/ Revoke(k)
         \/ \E u \in User : InviteOperator(u, k)
         \/ \E u \in User, r \in Room : Resend(u, r, k) \/ \E as \in Roles : Invite(u, r, as, k)
  PROVE  Quiet' /\ OwnersThere' /\ OperatorsThere'
  <1>1. Alone /\ UNCHANGED request /\ UNCHANGED people
    <2>1. ASSUME Revoke(k) PROVE Alone /\ UNCHANGED request /\ UNCHANGED people  BY <2>1 DEF Revoke
    <2>2. ASSUME NEW u \in User, InviteOperator(u, k) PROVE Alone /\ UNCHANGED request /\ UNCHANGED people
      BY <2>2 DEF InviteOperator
    <2>3. ASSUME NEW u \in User, NEW r \in Room, Resend(u, r, k)
          PROVE  Alone /\ UNCHANGED request /\ UNCHANGED people
      BY <2>3 DEF Resend
    <2>4. ASSUME NEW u \in User, NEW r \in Room, NEW as \in Roles, Invite(u, r, as, k)
          PROVE  Alone /\ UNCHANGED request /\ UNCHANGED people
      BY <2>4 DEF Invite
    <2>5. QED  BY <2>1, <2>2, <2>3, <2>4
  <1>2. QED  BY <1>1, StaysQuiet, SamePeople

-----------------------------------------------------------------------------
\* The requests that count, and the one step of another that may come between.
LEMMA LooksUpCounts ==
  ASSUME CInv, AccountsIInv', NEW q \in Page, NEW k \in Link, NEW u \in User, LooksUp(q, k, u)
  PROVE  CInv'
  <1> DEFINE x == [AtRest EXCEPT !.step = "accept", !.link = k, !.user = u]
  <1>1. x.step = "accept"  BY DEF AtRest
  <1>2. request' = [request EXCEPT ![q] = x] /\ UNCHANGED people  BY DEF LooksUp
  <1> HIDE DEF x
  <1>3. \A p \in Page : request'[p] = IF p = q THEN x ELSE request[p]  BY <1>2 DEF CInv, AccountsIInv, AccountsTyped
  <1>4. OwnersThere' /\ OperatorsThere'  BY <1>2, SamePeople
  <1>5. ASSUME NEW p \in Page PROVE CountOK(p)'
    <2>1. CountOK(p)  BY DEF CInv
    <2>2. person' = person /\ role' = role  BY <1>2 DEF people
    <2>3. QED  BY <1>1, <1>3, <2>1, <2>2 DEF CountOK, Counting, OthersOwn, Owners, Operators
  <1>6. QED  BY <1>4, <1>5 DEF CInv

LEMMA DemoteCounts ==
  ASSUME ~CountsOverlap, CInv, AccountsIInv', NEW q \in Page, NEW u \in User, NEW r \in Room, NEW as \in Roles \cup {NoRole},
         Demote(q, u, r, as)
  PROVE  CInv'
  <1> DEFINE x == [AtRest EXCEPT !.step = "demote", !.user = u, !.room = r, !.role = as]
  <1>1. x.step = "demote" /\ x.room = r /\ x.user = u  BY DEF AtRest
  <1>2. request' = [request EXCEPT ![q] = x] /\ UNCHANGED people /\ Quiet  BY DEF Demote, Alone, Quiet
  <1> HIDE DEF x
  <1>3. \A p \in Page : request'[p] = IF p = q THEN x ELSE request[p]  BY <1>2 DEF CInv, AccountsIInv, AccountsTyped
  <1>4. OwnersThere' /\ OperatorsThere'  BY <1>2, SamePeople
  <1>5. person' = person /\ role' = role  BY <1>2 DEF people
  <1>6. role[u][r] = "owner" => OthersOwn(u, r)  BY DEF Demote
  <1>7. \A p \in Page \ {q} : request'[p].step \notin Counting  BY <1>2, <1>3 DEF Quiet
  <1>8. ASSUME NEW p \in Page PROVE CountOK(p)'
    <2>1. CASE p = q
      BY <1>1, <1>3, <1>5, <1>6, <1>7, <2>1 DEF CountOK, OthersOwn, Owners
    <2>2. CASE p # q  BY <1>7, <2>2 DEF CountOK, Counting
    <2>3. QED  BY <2>1, <2>2
  <1>9. QED  BY <1>4, <1>8 DEF CInv

\* Two of a finite set are more than one of them.
LEMMA MoreThanOne ==
  ASSUME NEW S, NEW u, Cardinality(S) > 1, IsFiniteSet(S)
  PROVE  S \ {u} # {}
  <1> SUFFICES ASSUME S \subseteq {u} PROVE FALSE  OBVIOUS
  <1>1. IsFiniteSet({u}) /\ Cardinality({u}) = 1  BY FS_Singleton
  <1>2. Cardinality(S) <= Cardinality({u})  BY <1>1, FS_Subset
  <1>3. Cardinality(S) \in Nat  BY FS_CardinalityType
  <1>4. QED  BY <1>1, <1>2, <1>3

LEMMA OustCounts ==
  ASSUME IsFiniteSet(User), ~CountsOverlap, CInv, AccountsIInv', NEW q \in Page, NEW u \in User, Oust(q, u)
  PROVE  CInv'
  <1> DEFINE x == [AtRest EXCEPT !.step = "oust", !.user = u]
  <1>1. x.step = "oust" /\ x.user = u  BY DEF AtRest
  <1>2. request' = [request EXCEPT ![q] = x] /\ UNCHANGED people /\ Quiet  BY DEF Oust, Alone, Quiet
  <1> HIDE DEF x
  <1>3. \A p \in Page : request'[p] = IF p = q THEN x ELSE request[p]  BY <1>2 DEF CInv, AccountsIInv, AccountsTyped
  <1>4. OwnersThere' /\ OperatorsThere'  BY <1>2, SamePeople
  <1>5. person' = person /\ role' = role  BY <1>2 DEF people
  <1>6. Operators \ {u} # {}
    <2>1. Operators \subseteq User  BY DEF Operators
    <2>2. IsFiniteSet(Operators)  BY <2>1, FS_Subset
    <2>3. QED  BY <2>2, MoreThanOne DEF Oust
  <1>7. \A p \in Page \ {q} : request'[p].step \notin Counting  BY <1>2, <1>3 DEF Quiet
  <1>8. ASSUME NEW p \in Page PROVE CountOK(p)'
    <2>1. CASE p = q
      BY <1>1, <1>3, <1>5, <1>6, <1>7, <2>1 DEF CountOK, Operators
    <2>2. CASE p # q  BY <1>7, <2>2 DEF CountOK, Counting
    <2>3. QED  BY <2>1, <2>2
  <1>9. QED  BY <1>4, <1>8 DEF CInv

LEMMA CountedAlone ==
  ASSUME CInv, NEW q \in Page, request[q].step \in Counting, request' = [request EXCEPT ![q] = AtRest]
  PROVE  Quiet'
  <1>1. \A p \in Page \ {q} : request[p].step \notin Counting  BY DEF CInv, CountOK
  <1>2. QED  BY <1>1, RestIsPage DEF Quiet, Counting, CInv, AccountsIInv, AccountsTyped

LEMMA DemotedCounts ==
  ASSUME CInv, AccountsIInv', NEW q \in Page, Demoted(q)
  PROVE  CInv'
  <1> DEFINE u == request[q].user
             r == request[q].room
             as == request[q].role
  <1>1. u \in User /\ r \in Room /\ as \in Roles \cup {NoRole}
    BY DEF Demoted, CInv, AccountsIInv, AccountsTyped, PageOK, PageRow
  <1>2. Quiet'  BY CountedAlone DEF Demoted, Counting
  <1>3. role[u][r] = "owner" => OthersOwn(u, r)  BY DEF Demoted, CInv, CountOK
  <1>4. /\ role' = IF role[u][r] = NoRole THEN role ELSE [role EXCEPT ![u][r] = as]
        /\ UNCHANGED <<person, open, launched>>
    BY DEF Demoted
  <1> HIDE DEF u, r, as
  <1>5. \A x \in Room : Exists(x)' => Exists(x)  BY <1>4 DEF Exists
  <1>6. OwnersThere'
    <2>1. CASE role' = role  BY <1>5, <2>1, OwnersStay DEF CInv
    <2>2. CASE role' = [role EXCEPT ![u][r] = as]  BY <1>1, <1>3, <1>5, <2>2, RoleGiven DEF CInv
    <2>3. QED  BY <1>4, <2>1, <2>2
  <1>7. OperatorsThere'  BY <1>4, OperatorsStay DEF CInv
  <1>8. QED  BY <1>2, <1>6, <1>7, AccountsQuietStep

LEMMA OustedCounts ==
  ASSUME CInv, AccountsIInv', NEW q \in Page, Ousted(q)
  PROVE  CInv'
  <1> DEFINE u == request[q].user
  <1>1. u \in User  BY DEF Ousted, CInv, AccountsIInv, AccountsTyped, PageOK
  <1>2. Quiet'  BY CountedAlone DEF Ousted, Counting
  <1>3. Operators \ {u} # {}  BY DEF Ousted, CInv, CountOK
  <1>4. person' = [person EXCEPT ![u].operator = FALSE] /\ UNCHANGED <<role, open>>  BY DEF Ousted
  <1> HIDE DEF u
  <1>5. OwnersThere'  BY <1>4, OwnersStay DEF CInv, Exists
  <1>6. PICK v \in User : v # u /\ person[v].operator  BY <1>3 DEF Operators
  <1>7. person'[v] = person[v]  BY <1>4, <1>6 DEF CInv, AccountsIInv, AccountsTyped
  <1>8. v \in Operators'  BY <1>6, <1>7 DEF Operators
  <1>9. OperatorsThere'  BY <1>8 DEF OperatorsThere
  <1>10. QED  BY <1>2, <1>5, <1>9, AccountsQuietStep

LEMMA CountStep ==
  ASSUME IsFiniteSet(User), ~CountsOverlap
  PROVE  CInv /\ [AccountsNext]_accountVars => CInv'
  <1> SUFFICES ASSUME CInv, [AccountsNext]_accountVars PROVE CInv'  OBVIOUS
  <1>1. AccountsIInv'  BY AccountsStepHolds DEF CInv
  <1>2. CASE UNCHANGED accountVars
    <2>1. UNCHANGED people /\ request' = request /\ person' = person /\ role' = role
      BY <1>2 DEF accountVars, people
    <2>2. OwnersThere' /\ OperatorsThere'  BY <2>1, SamePeople
    <2>3. \A q \in Page : CountOK(q)'  BY <2>1 DEF CInv, CountOK, OthersOwn, Owners, Operators
    <2>4. QED  BY <1>1, <2>2, <2>3 DEF CInv
  <1>3. CASE CommandLine  BY <1>1, <1>3, CommandLineCounts, AccountsQuietStep
  <1>4. CASE PublicPages
    <2>1. ASSUME NEW u \in User, NEW k \in Link, NEW q \in Page, LooksUp(q, k, u) PROVE CInv'
      BY <1>1, <2>1, LooksUpCounts
    <2>2. ASSUME NEW q \in Page, Accept(q) PROVE CInv'  BY <1>1, <2>2, AcceptCounts, AccountsQuietStep
    <2>3. ASSUME NEW u \in User, NEW k \in Link, SendReset(u, k) PROVE CInv'
      BY <1>1, <2>3, SessionsCount, AccountsQuietStep
    <2>4. ASSUME NEW u \in User, NEW x \in Room \cup {Nowhere}, SignIn(u, x) \/ \E r \in Room : Enter(u, x, r)
          PROVE  CInv'
      BY <1>1, <2>4, SessionsCount, AccountsQuietStep
    <2>5. ASSUME NEW s \in session, SignOut(s) PROVE CInv'
      <3>1. PICK u \in User : TRUE  BY DEF CInv, AccountsIInv, AccountsTyped
      <3>2. QED  BY <1>1, <2>5, SessionsCount, AccountsQuietStep
    <2>6. QED  BY <1>4, <2>1, <2>2, <2>3, <2>4, <2>5 DEF PublicPages
  <1>5. CASE PeoplePages
    <2>1. ASSUME NEW k \in Link,
                 Revoke(k) \/ \E u \in User, r \in Room : Resend(u, r, k) \/ \E as \in Roles : Invite(u, r, as, k)
          PROVE  CInv'
      BY <1>1, <2>1, LinksCount, AccountsQuietStep
    <2>2. ASSUME NEW q \in Page, Demoted(q) PROVE CInv'  BY <1>1, <2>2, DemotedCounts
    <2>3. ASSUME NEW q \in Page, NEW u \in User, NEW r \in Room, NEW as \in Roles \cup {NoRole}, Demote(q, u, r, as)
          PROVE  CInv'
      BY <1>1, <2>3, DemoteCounts
    <2>4. QED  BY <1>5, <2>1, <2>2, <2>3 DEF PeoplePages
  <1>6. CASE ConsolePeople
    <2>1. ASSUME NEW r \in Room, SuspendRoom(r) \/ DeleteRoom(r) \/ \E u \in User, k \in Link : CreateRoom(u, r, k)
          PROVE  CInv'
      BY <1>1, <2>1, RoomsCount, AccountsQuietStep
    <2>2. ASSUME NEW u \in User, NEW k \in Link, InviteOperator(u, k) PROVE CInv'
      BY <1>1, <2>2, LinksCount, AccountsQuietStep
    <2>3. ASSUME NEW u \in User, NEW q \in Page, Oust(q, u) PROVE CInv'  BY <1>1, <2>3, OustCounts
    <2>4. ASSUME NEW q \in Page, Ousted(q) PROVE CInv'  BY <1>1, <2>4, OustedCounts
    <2>5. QED  BY <1>6, <2>1, <2>2, <2>3, <2>4 DEF ConsolePeople
  <1>7. QED  BY <1>2, <1>3, <1>4, <1>5, <1>6 DEF AccountsNext

(***************************************************************************)
(* Where the transactions that count rows do not interleave, every         *)
(* newsroom that exists has an owner and, once there was an operator,      *)
(* there is one, whoever is removed, demoted or invited in whatever order  *)
(* (_keep_an_owner, remove_operator).                                      *)
(***************************************************************************)
THEOREM InCharge ==
  ASSUME IsFiniteSet(User)
  PROVE  ~CountsOverlap => (AccountsSpec => []SomeoneInCharge)
  <1> SUFFICES ASSUME ~CountsOverlap PROVE AccountsSpec => []SomeoneInCharge  OBVIOUS
  <1>1. CInv /\ [AccountsNext]_accountVars => CInv'  BY CountStep
  <1>2. CInv => SomeoneInCharge  BY DEF CInv, OwnersThere, OperatorsThere, SomeoneInCharge
  <1>3. QED  BY <1>1, <1>2, CountInit, PTL DEF AccountsSpec

HIDE AccountsAssumption

-----------------------------------------------------------------------------
(***************************************************************************)
(* A process never admits more runs or fetches than the daily limit, nor   *)
(* calls beyond the monthly budget by more than one call, for every set of *)
(* requests, processes, limits and periods.                                *)
(***************************************************************************)

Daily == {"run", "fetch"}

\* Admitted by a process and still to be recorded.
LimitsDue(p, kind) ==
  {r \in Requests : ProcessOf[r] = p /\ Kinds[r] = kind /\ Stands(r, "admitted")}

(***************************************************************************)
(* The inductive invariant.                                                *)
(***************************************************************************)

\* The gate of a process names the one request that is checked.
GateKept == \A r \in Requests : InGate(r) <=> gate[ProcessOf[r]] = r

\* Nothing is dated in the future, and a request that has a row is recorded.
InTime ==
  \A r \in Requests : /\ row[r] <= now /\ req[r].since <= now
                      /\ row[r] # 0 => req[r].pc \in {"recorded", "over"}

\* What a request has counted still covers what its process has to record,
\* and a request that passed the check leaves room for itself.
RoomKept ==
  \A r \in Requests : Kinds[r] \in Daily =>
    /\ req[r].pc \in {"counted", "month"} =>
         Cardinality(LimitsDue(ProcessOf[r], Kinds[r])) <= req[r].pending
    /\ req[r].pc = "within" /\ Limits[Kinds[r]] # None =>
         Cardinality(Counted(ProcessOf[r], Kinds[r], now)) < Limits[Kinds[r]]

LimitsIInv == LimitsTypeOK /\ GateKept /\ InTime /\ RoomKept /\ DayLimit

-----------------------------------------------------------------------------
USE TenantLimitsAssumption

\* A set of requests is finite, and no smaller than its subsets.
LEMMA SmallerSet ==
  ASSUME NEW S \in SUBSET Requests, NEW T \in SUBSET S
  PROVE  /\ IsFiniteSet(S) /\ IsFiniteSet(T)
         /\ Cardinality(S) \in Nat /\ Cardinality(T) \in Nat
         /\ Cardinality(T) <= Cardinality(S)
  <1>1. IsFiniteSet(S)  BY FS_Subset
  <1>2. IsFiniteSet(T) /\ Cardinality(T) <= Cardinality(S)  BY <1>1, FS_Subset
  <1>3. QED  BY <1>1, <1>2, FS_CardinalityType

\* What a process has to record counts in the present period.
LEMMA CountedSets ==
  ASSUME NEW p, NEW kind, NEW period
  PROVE  /\ Counted(p, kind, period) \in SUBSET Requests
         /\ LimitsDue(p, kind) \in SUBSET Requests
         /\ Reserved(p, kind) \in SUBSET Requests
         /\ LimitsDue(p, kind) \subseteq Reserved(p, kind)
         /\ Recorded(kind, period) \in SUBSET Requests
  BY DEF Counted, LimitsDue, Reserved, Recorded, Stands

\* The types of what the actions write.
LEMMA RequestType ==
  ASSUME LimitsTypeOK, NEW r \in Requests, NEW pc \in {"admitted", "over"}
  PROVE  /\ req[r] \in Request /\ Left(r, pc) \in Request
         /\ Left(r, pc).pc = pc
         /\ Left(r, pc).since \in {0, req[r].since}
  <1>1. req[r] \in Request  BY DEF LimitsTypeOK
  <1>2. NoRequest \in Request  BY DEF NoRequest, Request
  <1>3. QED  BY <1>1, <1>2 DEF Left, Request, NoRequest

\* A request moves, and the others stay.
LEMMA OneMoves ==
  ASSUME LimitsTypeOK, NEW r \in Requests, NEW new \in Request,
         req' = [req EXCEPT ![r] = new]
  PROVE  /\ req' \in [Requests -> Request]
         /\ req'[r] = new
         /\ \A q \in Requests : q # r => req'[q] = req[q]
  BY DEF LimitsTypeOK

\* The counters of a process count the calls and runs it has to record.
LEMMA CountsType ==
  ASSUME NEW p, NEW kind
  PROVE  Cardinality(Reserved(p, kind)) \in Nat
  BY CountedSets, SmallerSet

-----------------------------------------------------------------------------
(* A step that admits nobody. *)

\* Nobody is admitted, only admitted requests get a row, of the present
\* period.
AdmitsNobody ==
  /\ \A q \in Requests :
       /\ Stands(q, "admitted")' => Stands(q, "admitted")
       /\ row'[q] = row[q] \/ (row'[q] = now /\ Stands(q, "admitted"))
  /\ now' = now \/ (now' = now + 1 /\ row' = row)

\* A request that is checked keeps what it counted, or counts now.
ChecksRight ==
  \A q \in Requests : Kinds[q] \in Daily =>
    /\ req'[q].pc \in {"counted", "month"} =>
         \/ req[q].pc \in {"counted", "month"} /\ req'[q].pending = req[q].pending
         \/ Cardinality(LimitsDue(ProcessOf[q], Kinds[q])) <= req'[q].pending
    /\ req'[q].pc = "within" /\ Limits[Kinds[q]] # None =>
         \/ req[q].pc = "within"
         \/ Cardinality(Counted(ProcessOf[q], Kinds[q], now)) < Limits[Kinds[q]]

\* Then what a process has to record, and what counts in a period, shrinks.
LEMMA SetsShrink ==
  ASSUME LimitsTypeOK, InTime, AdmitsNobody, NEW p, NEW kind
  PROVE  /\ LimitsDue(p, kind)' \subseteq LimitsDue(p, kind)
         /\ Counted(p, kind, now)' \subseteq Counted(p, kind, now)
         /\ \A d \in 1..LastPeriod :
              \/ Counted(p, kind, d)' \subseteq Counted(p, kind, d)
              \/ Counted(p, kind, d)' \subseteq Counted(p, kind, now)
  <1>1. LimitsDue(p, kind)' \subseteq LimitsDue(p, kind)
    BY DEF AdmitsNobody, LimitsDue
  <1>2. CASE now' = now
    BY <1>1, <1>2 DEF AdmitsNobody, Counted
  <1>3. CASE now' = now + 1 /\ row' = row
    <2>1. ASSUME NEW q \in Requests  PROVE row[q] \in Nat /\ row[q] <= now /\ now \in Nat
      BY DEF LimitsTypeOK, InTime
    <2>2. Counted(p, kind, now)' \subseteq Counted(p, kind, now)
      BY <1>3, <2>1 DEF AdmitsNobody, Counted
    <2>3. ASSUME NEW d \in 1..LastPeriod, d # now'
          PROVE  Counted(p, kind, d)' \subseteq Counted(p, kind, d)
      BY <1>3, <2>3 DEF AdmitsNobody, Counted
    <2>4. QED  BY <1>1, <2>2, <2>3
  <1>4. QED  BY <1>2, <1>3 DEF AdmitsNobody

LEMMA LimitIsNat ==
  ASSUME NEW kind \in Daily, Limits[kind] # None
  PROVE  Limits[kind] \in Nat
  BY DEF Daily, Limit

LEMMA NobodyMore ==
  ASSUME LimitsIInv, LimitsTypeOK', AdmitsNobody, ChecksRight
  PROVE  RoomKept' /\ DayLimit'
  <1> USE DEF LimitsIInv
  <1>1. DayLimit'
    <2> SUFFICES ASSUME NEW p \in Processes, NEW kind \in Daily, NEW d \in 1..LastPeriod,
                        Limits[kind] # None
                 PROVE  Cardinality(Counted(p, kind, d)') <= Limits[kind]
      BY DEF DayLimit, Daily
    <2>1. PICK e \in 1..LastPeriod : Counted(p, kind, d)' \subseteq Counted(p, kind, e)
      BY SetsShrink DEF LimitsTypeOK
    <2>2. /\ Cardinality(Counted(p, kind, e)) <= Limits[kind]
          /\ Counted(p, kind, e) \in SUBSET Requests
      BY CountedSets DEF DayLimit, Daily
    <2>3. /\ Cardinality(Counted(p, kind, d)') \in Nat /\ Cardinality(Counted(p, kind, e)) \in Nat
          /\ Cardinality(Counted(p, kind, d)') <= Cardinality(Counted(p, kind, e))
      BY <2>1, <2>2, SmallerSet
    <2>4. QED  BY <2>2, <2>3, LimitIsNat
  <1>2. RoomKept'
    <2> SUFFICES ASSUME NEW q \in Requests, Kinds[q] \in Daily
                 PROVE  /\ req'[q].pc \in {"counted", "month"} =>
                             Cardinality(LimitsDue(ProcessOf[q], Kinds[q])') <= req'[q].pending
                        /\ req'[q].pc = "within" /\ Limits[Kinds[q]] # None =>
                             Cardinality(Counted(ProcessOf[q], Kinds[q], now)') < Limits[Kinds[q]]
      BY DEF RoomKept
    <2> DEFINE D == LimitsDue(ProcessOf[q], Kinds[q])
               C == Counted(ProcessOf[q], Kinds[q], now)
    <2>1. /\ Cardinality(D') <= Cardinality(D) /\ Cardinality(D') \in Nat /\ Cardinality(D) \in Nat
          /\ Cardinality(C') <= Cardinality(C) /\ Cardinality(C') \in Nat /\ Cardinality(C) \in Nat
      <3>1. D' \in SUBSET D /\ C' \in SUBSET C  BY SetsShrink
      <3>2. D \in SUBSET Requests /\ C \in SUBSET Requests  BY CountedSets
      <3> HIDE DEF D, C
      <3>3. QED  BY <3>1, <3>2, SmallerSet
    <2>2. /\ req'[q].pc \in {"counted", "month"} =>
               Cardinality(D) <= req'[q].pending
          /\ req'[q].pc = "within" /\ Limits[Kinds[q]] # None =>
               Cardinality(C) < Limits[Kinds[q]]
      BY DEF ChecksRight, RoomKept
    <2>3. req'[q].pending \in Nat
      BY DEF LimitsTypeOK, Request
    <2>4. QED  BY <2>1, <2>2, <2>3, LimitIsNat
  <1>3. QED  BY <1>1, <1>2

-----------------------------------------------------------------------------
(* The steps *)

\* What the lemma NobodyMore and the invariant need of a step.
Sound == LimitsTypeOK' /\ GateKept' /\ InTime' /\ AdmitsNobody /\ ChecksRight

\* What a request counts in the gate covers what its process has to record.
LEMMA TakeGateOK ==
  ASSUME LimitsIInv, NEW r \in Requests, TakeGate(r)
  PROVE  Sound
  <1> USE DEF LimitsIInv
  <1> DEFINE p == ProcessOf[r]
             calls == Cardinality(Reserved(p, "call")) + Cardinality(Reserved(p, "run"))
             new == [req[r] EXCEPT !.pc = "counted", !.since = now,
                       !.pending = Pending(r), !.calls = calls]
  <1>1. /\ req[r] \in Request /\ now \in 0..LastPeriod /\ p \in Processes
    BY DEF LimitsTypeOK
  <1>2. calls \in Nat /\ Pending(r) \in Nat
    BY CountsType DEF Pending
  <1>3. /\ new \in Request /\ new.pc = "counted" /\ new.since = now
        /\ new.pending = Pending(r)
    <2> HIDE DEF calls
    <2>1. QED  BY <1>1, <1>2 DEF Request
  <1>4. /\ req' = [req EXCEPT ![r] = new] /\ gate' = [gate EXCEPT ![p] = r]
        /\ req[r].pc = "new" /\ gate[p] = None
        /\ row' = row /\ now' = now /\ deaths' = deaths
    BY DEF TakeGate, Stands, GateFree
  <1>5. Cardinality(LimitsDue(p, Kinds[r])) <= Pending(r)
    BY CountedSets, SmallerSet DEF Pending
  <1> HIDE DEF new
  <1>6. /\ req' \in [Requests -> Request] /\ req'[r] = new
        /\ \A q \in Requests : q # r => req'[q] = req[q]
    BY <1>3, <1>4, OneMoves
  <1>7. gate' \in [Processes -> Requests \cup {None}]
        /\ gate'[p] = r /\ \A x \in Processes : x # p => gate'[x] = gate[x]
    BY <1>1, <1>4 DEF LimitsTypeOK
  <1>8. LimitsTypeOK'
    BY <1>4, <1>6, <1>7 DEF LimitsTypeOK
  <1>9. GateKept'
    BY <1>3, <1>4, <1>6, <1>7 DEF GateKept, InGate
  <1>10. InTime'
    BY <1>1, <1>3, <1>4, <1>6 DEF InTime, LimitsTypeOK
  <1>11. AdmitsNobody
    BY <1>3, <1>4, <1>6 DEF AdmitsNobody, Stands
  <1>12. ChecksRight
    BY <1>3, <1>5, <1>6 DEF ChecksRight, RoomKept
  <1>13. QED  BY <1>8, <1>9, <1>10, <1>11, <1>12 DEF Sound

\* Leaving the gate, admitted or not.
LEMMA LeavesOK ==
  ASSUME LimitsIInv, NEW r \in Requests, NEW pc \in {"admitted", "over"}, Leaves(r, pc),
         UNCHANGED <<row, now>>, deaths' \in 0..MaxDeaths,
         row[r] # 0 => pc = "over"
  PROVE  /\ LimitsTypeOK' /\ GateKept' /\ InTime' /\ ChecksRight
         /\ req'[r].pc = pc
         /\ \A q \in Requests : q # r => req'[q] = req[q]
  <1> USE DEF LimitsIInv
  <1>1. /\ Left(r, pc) \in Request /\ Left(r, pc).pc = pc
        /\ Left(r, pc).since <= now
    BY RequestType DEF LimitsTypeOK, InTime
  <1>2. /\ req' \in [Requests -> Request] /\ req'[r] = Left(r, pc)
        /\ \A q \in Requests : q # r => req'[q] = req[q]
    BY <1>1, OneMoves DEF Leaves
  <1>3. LimitsTypeOK'
    BY <1>2 DEF LimitsTypeOK, Leaves
  <1>4. GateKept'
    BY <1>1, <1>2 DEF GateKept, InGate, Leaves
  <1>5. InTime'
    BY <1>1, <1>2 DEF InTime
  <1>6. ChecksRight
    BY <1>1, <1>2 DEF ChecksRight
  <1>7. QED  BY <1>1, <1>2, <1>3, <1>4, <1>5, <1>6

\* A request is refused, or given up.
LEMMA EndsOK ==
  ASSUME LimitsIInv, NEW r \in Requests, Leaves(r, "over"),
         UNCHANGED <<row, now>>, deaths' \in 0..MaxDeaths
  PROVE  Sound
  <1>1. /\ LimitsTypeOK' /\ GateKept' /\ InTime' /\ ChecksRight
        /\ req'[r].pc = "over"
        /\ \A q \in Requests : q # r => req'[q] = req[q]
    BY LeavesOK
  <1>2. AdmitsNobody
    BY <1>1 DEF AdmitsNobody, Stands
  <1>3. QED  BY <1>1, <1>2 DEF Sound

\* The request moves on and the gate stays.
LEMMA MovesOK ==
  ASSUME LimitsIInv, NEW r \in Requests, NEW new \in Request,
         req' = [req EXCEPT ![r] = new], UNCHANGED <<gate, now, deaths>>,
         new.since = req[r].since,
         new.pc \in {"counted", "month", "within"} <=> InGate(r),
         row' \in [Requests -> 0..LastPeriod],
         \A q \in Requests : q # r => row'[q] = row[q],
         row'[r] <= now,
         row'[r] # 0 => new.pc \in {"recorded", "over"}
  PROVE  /\ LimitsTypeOK' /\ GateKept' /\ InTime'
         /\ req'[r] = new
         /\ \A q \in Requests : q # r => req'[q] = req[q]
  <1> USE DEF LimitsIInv
  <1>1. /\ req' \in [Requests -> Request] /\ req'[r] = new
        /\ \A q \in Requests : q # r => req'[q] = req[q]
    BY OneMoves
  <1>2. LimitsTypeOK'
    BY <1>1 DEF LimitsTypeOK
  <1>3. GateKept'
    BY <1>1 DEF GateKept, InGate
  <1>4. InTime'
    BY <1>1 DEF InTime
  <1>5. QED  BY <1>1, <1>2, <1>3, <1>4

LEMMA CheckMonthOK ==
  ASSUME LimitsIInv, NEW r \in Requests, CheckMonth(r)
  PROVE  Sound
  <1> USE DEF LimitsIInv
  <1>1. CASE Refuse(r)
    <2>1. UNCHANGED <<row, now>> /\ deaths' \in 0..MaxDeaths
      BY DEF CheckMonth, LimitsTypeOK
    <2>2. QED  BY <1>1, <2>1, EndsOK DEF Refuse
  <1>2. CASE ~Refuse(r)
    <2> DEFINE pc == IF Kinds[r] = "run" THEN "month" ELSE "within"
               blind == Kinds[r] = "call" /\ Recorded("call", req[r].since) = {}
               new == [req[r] EXCEPT !.pc = pc, !.blind = blind]
    <2>1. /\ req' = [req EXCEPT ![r] = new] /\ UNCHANGED <<row, gate, now, deaths>>
          /\ req[r].pc = "counted" /\ Kinds[r] \in {"run", "call"}
      BY <1>2 DEF CheckMonth, Stands
    <2>2. blind \in BOOLEAN  BY Zenon
    <2>3. /\ new \in Request /\ new.pc = pc /\ new.since = req[r].since
          /\ new.pending = req[r].pending
      <3> HIDE DEF blind
      <3>1. req[r] \in Request  BY DEF LimitsTypeOK
      <3>2. QED  BY <2>2, <3>1 DEF Request
    <2> HIDE DEF new, blind
    <2>4. /\ LimitsTypeOK' /\ GateKept' /\ InTime' /\ req'[r] = new
          /\ \A q \in Requests : q # r => req'[q] = req[q]
      <3>1. row[r] = 0  BY <2>1 DEF InTime
      <3>2. /\ row \in [Requests -> 0..LastPeriod] /\ row[r] <= now
        BY DEF LimitsTypeOK, InTime
      <3>3. InGate(r) /\ new.pc \in {"counted", "month", "within"}
        BY <2>1, <2>3 DEF InGate
      <3>4. QED  BY <2>1, <2>3, <3>1, <3>2, <3>3, MovesOK
    <2>5. AdmitsNobody
      BY <2>1, <2>3, <2>4 DEF AdmitsNobody, Stands
    <2>6. ChecksRight
      BY <2>1, <2>3, <2>4 DEF ChecksRight, Daily
    <2>7. QED  BY <2>4, <2>5, <2>6 DEF Sound
  <1>3. QED  BY <1>1, <1>2

\* Whoever is within the daily limit leaves room for itself.
LEMMA DayWithinRoom ==
  ASSUME LimitsIInv, NEW r \in Requests, Kinds[r] \in Daily,
         req[r].pc \in {"counted", "month"}, DayWithin(r), Limits[Kinds[r]] # None
  PROVE  Cardinality(Counted(ProcessOf[r], Kinds[r], now)) < Limits[Kinds[r]]
  <1> USE DEF LimitsIInv
  <1> DEFINE C == Counted(ProcessOf[r], Kinds[r], now)
             D == LimitsDue(ProcessOf[r], Kinds[r])
             R == Recorded(Kinds[r], req[r].since)
  <1>1. C \subseteq R \cup D
    BY DEF Counted, Recorded, LimitsDue, Stands, InTime, LimitsTypeOK, Request
  <1>2. R \in SUBSET Requests /\ D \in SUBSET Requests
    BY CountedSets
  <1>3. /\ Cardinality(R) + req[r].pending < Limits[Kinds[r]]
        /\ Cardinality(D) <= req[r].pending
        /\ req[r].pending \in Nat /\ Limits[Kinds[r]] \in Nat
    BY LimitIsNat DEF DayWithin, RoomKept, LimitsTypeOK, Request
  <1> HIDE DEF C, D, R
  <1>4. /\ IsFiniteSet(R) /\ IsFiniteSet(D)
        /\ Cardinality(R) \in Nat /\ Cardinality(D) \in Nat
    BY <1>2, SmallerSet
  <1>5. /\ Cardinality(R \cap D) \in Nat
        /\ Cardinality(C) \in Nat /\ Cardinality(C) <= Cardinality(R \cup D)
    <2>1. R \cup D \in SUBSET Requests /\ R \cap D \in SUBSET R  BY <1>2
    <2>2. QED  BY <1>1, <1>2, <2>1, SmallerSet
  <1>6. Cardinality(R \cup D) = Cardinality(R) + Cardinality(D) - Cardinality(R \cap D)
    BY <1>4, FS_Union
  <1>7. Cardinality(C) < Limits[Kinds[r]]
    BY <1>3, <1>4, <1>5, <1>6
  <1>8. QED  BY <1>7 DEF C

LEMMA CheckDayOK ==
  ASSUME LimitsIInv, NEW r \in Requests, CheckDay(r)
  PROVE  Sound
  <1> USE DEF LimitsIInv
  <1>1. CASE Refuse(r)
    <2>1. UNCHANGED <<row, now>> /\ deaths' \in 0..MaxDeaths
      BY DEF CheckDay, LimitsTypeOK
    <2>2. QED  BY <1>1, <2>1, EndsOK DEF Refuse
  <1>2. CASE ~Refuse(r)
    <2> DEFINE new == [req[r] EXCEPT !.pc = "within"]
    <2>1. /\ req' = [req EXCEPT ![r] = new] /\ UNCHANGED <<row, gate, now, deaths>>
          /\ req[r].pc \in {"counted", "month"} /\ Kinds[r] \in Daily /\ DayWithin(r)
      BY <1>2 DEF CheckDay, Stands, Moves, Daily
    <2>2. new \in Request /\ new.pc = "within" /\ new.since = req[r].since
      <3>1. req[r] \in Request  BY DEF LimitsTypeOK
      <3>2. QED  BY <3>1 DEF Request
    <2> HIDE DEF new
    <2>3. /\ LimitsTypeOK' /\ GateKept' /\ InTime' /\ req'[r] = new
          /\ \A q \in Requests : q # r => req'[q] = req[q]
      <3>1. row[r] = 0  BY <2>1 DEF InTime
      <3>2. /\ row \in [Requests -> 0..LastPeriod] /\ row[r] <= now
        BY DEF LimitsTypeOK, InTime
      <3>3. InGate(r)  BY <2>1 DEF InGate
      <3>4. QED  BY <2>1, <2>2, <3>1, <3>2, <3>3, MovesOK
    <2>4. AdmitsNobody
      BY <2>1, <2>2, <2>3 DEF AdmitsNobody, Stands
    <2>5. Limits[Kinds[r]] # None =>
            Cardinality(Counted(ProcessOf[r], Kinds[r], now)) < Limits[Kinds[r]]
      BY <2>1, DayWithinRoom
    <2>6. ChecksRight
      BY <2>2, <2>3, <2>5 DEF ChecksRight
    <2>7. QED  BY <2>3, <2>4, <2>6 DEF Sound
  <1>3. QED  BY <1>1, <1>2

LEMMA RecordOK ==
  ASSUME LimitsIInv, NEW r \in Requests, Record(r)
  PROVE  Sound
  <1> USE DEF LimitsIInv
  <1> DEFINE new == [req[r] EXCEPT !.pc = "recorded"]
  <1>1. /\ req' = [req EXCEPT ![r] = new] /\ row' = [row EXCEPT ![r] = now]
        /\ UNCHANGED <<gate, now, deaths>> /\ Stands(r, "admitted")
    BY DEF Record, Moves
  <1>2. new \in Request /\ new.pc = "recorded" /\ new.since = req[r].since
    <2>1. req[r] \in Request  BY DEF LimitsTypeOK
    <2>2. QED  BY <2>1 DEF Request
  <1> HIDE DEF new
  <1>3. /\ row' \in [Requests -> 0..LastPeriod] /\ row'[r] = now /\ row'[r] <= now
        /\ \A q \in Requests : q # r => row'[q] = row[q]
    BY <1>1 DEF LimitsTypeOK
  <1>4. /\ LimitsTypeOK' /\ GateKept' /\ InTime' /\ req'[r] = new
        /\ \A q \in Requests : q # r => req'[q] = req[q]
    <2>1. new.pc \in {"counted", "month", "within"} <=> InGate(r)
      BY <1>1, <1>2 DEF InGate, Stands
    <2>2. row'[r] # 0 => new.pc \in {"recorded", "over"}
      BY <1>2
    <2>3. UNCHANGED <<gate, now, deaths>> /\ req' = [req EXCEPT ![r] = new]
      BY <1>1
    <2>4. QED  BY <1>2, <1>3, <2>1, <2>2, <2>3, MovesOK
  <1>5. AdmitsNobody
    BY <1>1, <1>2, <1>3, <1>4 DEF AdmitsNobody, Stands
  <1>6. ChecksRight
    BY <1>2, <1>4 DEF ChecksRight
  <1>7. QED  BY <1>4, <1>5, <1>6 DEF Sound

LEMMA ReleaseOK ==
  ASSUME LimitsIInv, NEW r \in Requests, Release(r)
  PROVE  Sound
  <1> USE DEF LimitsIInv
  <1> DEFINE new == [req[r] EXCEPT !.pc = "over"]
  <1>1. /\ req' = [req EXCEPT ![r] = new] /\ UNCHANGED <<row, gate, now, deaths>>
        /\ Stands(r, "recorded")
    BY DEF Release, Moves
  <1>2. new \in Request /\ new.pc = "over" /\ new.since = req[r].since
    <2>1. req[r] \in Request  BY DEF LimitsTypeOK
    <2>2. QED  BY <2>1 DEF Request
  <1> HIDE DEF new
  <1>3. /\ LimitsTypeOK' /\ GateKept' /\ InTime' /\ req'[r] = new
        /\ \A q \in Requests : q # r => req'[q] = req[q]
    <2>1. ~InGate(r)  BY <1>1 DEF InGate, Stands
    <2>2. row \in [Requests -> 0..LastPeriod] /\ row[r] <= now
      BY DEF LimitsTypeOK, InTime
    <2>3. QED  BY <1>1, <1>2, <2>1, <2>2, MovesOK
  <1>4. AdmitsNobody
    BY <1>1, <1>2, <1>3 DEF AdmitsNobody, Stands
  <1>5. ChecksRight
    BY <1>2, <1>3 DEF ChecksRight
  <1>6. QED  BY <1>3, <1>4, <1>5 DEF Sound

LEMMA GivesUpOK ==
  ASSUME LimitsIInv, NEW r \in Requests, GivesUp(r)
  PROVE  Sound
  <1>1. Leaves(r, "over") /\ UNCHANGED <<row, now>> /\ deaths' \in 0..MaxDeaths
    BY DEF GivesUp, LimitFault, LimitsIInv, LimitsTypeOK
  <1>2. QED  BY <1>1, EndsOK

LEMMA CrashOK ==
  ASSUME LimitsIInv, NEW p \in Processes, ProcessDies(p)
  PROVE  Sound
  <1> USE DEF LimitsIInv
  <1>1. /\ UNCHANGED <<row, now>> /\ deaths' \in 0..MaxDeaths
        /\ gate' \in [Processes -> Requests \cup {None}]
        /\ gate'[p] = None /\ \A x \in Processes : x # p => gate'[x] = gate[x]
    BY DEF ProcessDies, LimitFault, LimitsTypeOK
  <1>2. ASSUME NEW q \in Requests
        PROVE  /\ req'[q] \in Request /\ req'[q].since \in {0, req[q].since}
               /\ req'[q] = req[q] \/ (ProcessOf[q] = p /\ req'[q].pc = "over")
               /\ ProcessOf[q] = p => req'[q].pc \in {"new", "over"}
               /\ row[q] # 0 => req'[q].pc \in {"recorded", "over"}
    <2>1. req'[q] = IF ProcessOf[q] = p /\ req[q].pc \notin {"new", "over"}
                    THEN Left(q, "over") ELSE req[q]
      BY DEF ProcessDies
    <2>2. req[q] \in Request /\ Left(q, "over") \in Request
          /\ Left(q, "over").pc = "over" /\ Left(q, "over").since \in {0, req[q].since}
      BY RequestType
    <2>3. row[q] # 0 => req[q].pc \in {"recorded", "over"}
      BY DEF InTime
    <2>4. QED  BY <2>1, <2>2, <2>3
  <1>3. LimitsTypeOK'
    <2>1. DOMAIN req' = Requests /\ req' = [q \in Requests |-> req'[q]]
      BY DEF ProcessDies
    <2>2. req' \in [Requests -> Request]  BY <1>2, <2>1
    <2>3. QED  BY <1>1, <2>2 DEF LimitsTypeOK
  <1>4. GateKept'
    BY <1>1, <1>2 DEF GateKept, InGate
  <1>5. InTime'
    BY <1>1, <1>2 DEF InTime, LimitsTypeOK
  <1>6. AdmitsNobody
    BY <1>1, <1>2 DEF AdmitsNobody, Stands
  <1>7. ChecksRight
    BY <1>2 DEF ChecksRight
  <1>8. QED  BY <1>3, <1>4, <1>5, <1>6, <1>7 DEF Sound

LEMMA NextPeriodOK ==
  ASSUME LimitsIInv, NextPeriod
  PROVE  Sound
  <1> USE DEF LimitsIInv
  <1>1. /\ now' \in 1..LastPeriod /\ now' = now + 1 /\ now \in Nat
        /\ UNCHANGED <<req, row, gate, deaths>>
    BY DEF NextPeriod, LimitsTypeOK
  <1>2. LimitsTypeOK' /\ GateKept'
    BY <1>1 DEF LimitsTypeOK, GateKept, InGate
  <1>3. InTime'
    BY <1>1 DEF InTime, LimitsTypeOK, Request
  <1>4. AdmitsNobody /\ ChecksRight
    BY <1>1 DEF AdmitsNobody, ChecksRight, Stands
  <1>5. QED  BY <1>2, <1>3, <1>4 DEF Sound

-----------------------------------------------------------------------------
(* The step that admits *)

LEMMA AdmitOK ==
  ASSUME LimitsIInv, NEW r \in Requests, Admit(r)
  PROVE  LimitsIInv'
  <1> USE DEF LimitsIInv
  <1>1. /\ Stands(r, "within") /\ Leaves(r, "admitted") /\ UNCHANGED <<row, now>>
        /\ deaths' \in 0..MaxDeaths
    BY DEF Admit, LimitsTypeOK
  <1>2. /\ LimitsTypeOK' /\ GateKept' /\ InTime'
        /\ req'[r].pc = "admitted"
        /\ \A q \in Requests : q # r => req'[q] = req[q]
    <2>1. row[r] = 0  BY <1>1 DEF InTime, Stands
    <2>2. QED  BY <1>1, <2>1, LeavesOK
  \* The sets of other processes and kinds, and of other periods, stay.
  <1>3. ASSUME NEW p, NEW kind, NEW d
        PROVE  /\ Counted(p, kind, d)' \subseteq Counted(p, kind, d) \cup {r}
               /\ d # now \/ p # ProcessOf[r] \/ kind # Kinds[r] =>
                    Counted(p, kind, d)' \subseteq Counted(p, kind, d)
               /\ p # ProcessOf[r] \/ kind # Kinds[r] =>
                    LimitsDue(p, kind)' \subseteq LimitsDue(p, kind)
    BY <1>1, <1>2 DEF Counted, LimitsDue, Stands
  <1>4. DayLimit'
    <2> SUFFICES ASSUME NEW p \in Processes, NEW kind \in Daily, NEW d \in 1..LastPeriod,
                        Limits[kind] # None
                 PROVE  Cardinality(Counted(p, kind, d)') <= Limits[kind]
      BY DEF DayLimit, Daily
    <2> DEFINE C == Counted(p, kind, d)
    <2>1. C \in SUBSET Requests /\ IsFiniteSet(C) /\ Cardinality(C) \in Nat
      BY CountedSets, SmallerSet
    <2>2. Cardinality(C) <= Limits[kind] /\ Limits[kind] \in Nat
      BY LimitIsNat DEF DayLimit, Daily
    <2>3. CASE d # now \/ p # ProcessOf[r] \/ kind # Kinds[r]
      <3>1. C' \in SUBSET C  BY <1>3, <2>3
      <3> HIDE DEF C
      <3>2. Cardinality(C') <= Cardinality(C) /\ Cardinality(C') \in Nat
        BY <2>1, <3>1, SmallerSet
      <3>3. Cardinality(C') <= Limits[kind]  BY <2>1, <2>2, <3>2
      <3>4. QED  BY <3>3 DEF C
    <2>4. CASE d = now /\ p = ProcessOf[r] /\ kind = Kinds[r]
      <3>1. Cardinality(C) < Limits[kind]
        BY <1>1, <2>4 DEF RoomKept, Stands
      <3>2. C' \in SUBSET (C \cup {r})  BY <1>3
      <3> HIDE DEF C
      <3>3. /\ C \cup {r} \in SUBSET Requests
            /\ Cardinality(C \cup {r}) <= Cardinality(C) + 1
        <4>1. Cardinality(C \cup {r}) = IF r \in C THEN Cardinality(C) ELSE Cardinality(C) + 1
          BY <2>1, FS_AddElement
        <4>2. C \cup {r} \in SUBSET Requests  BY <2>1
        <4>3. QED  BY <2>1, <4>1, <4>2
      <3>4. /\ Cardinality(C') <= Cardinality(C \cup {r})
            /\ Cardinality(C') \in Nat /\ Cardinality(C \cup {r}) \in Nat
        BY <3>2, <3>3, SmallerSet
      <3>5. Cardinality(C') <= Limits[kind]  BY <2>1, <2>2, <3>1, <3>3, <3>4
      <3>6. QED  BY <3>5 DEF C
    <2>5. QED  BY <2>3, <2>4
  \* Nobody else of this process is checked.
  <1>5. ASSUME NEW q \in Requests, InGate(q)'
        PROVE  q # r /\ ProcessOf[q] # ProcessOf[r] /\ req'[q] = req[q]
    <2>1. q # r  BY <1>2, <1>5 DEF InGate
    <2>2. InGate(q) /\ InGate(r)  BY <1>1, <1>2, <1>5, <2>1 DEF InGate, Stands
    <2>3. QED  BY <1>2, <2>1, <2>2 DEF GateKept
  <1>6. RoomKept'
    <2> SUFFICES ASSUME NEW q \in Requests, Kinds[q] \in Daily, InGate(q)'
                 PROVE  /\ req'[q].pc \in {"counted", "month"} =>
                             Cardinality(LimitsDue(ProcessOf[q], Kinds[q])') <= req'[q].pending
                        /\ req'[q].pc = "within" /\ Limits[Kinds[q]] # None =>
                             Cardinality(Counted(ProcessOf[q], Kinds[q], now)') < Limits[Kinds[q]]
      BY DEF RoomKept, InGate
    <2> DEFINE D == LimitsDue(ProcessOf[q], Kinds[q])
               C == Counted(ProcessOf[q], Kinds[q], now)
    <2>1. D' \in SUBSET D /\ C' \in SUBSET C
      BY <1>1, <1>3, <1>5
    <2>2. D \in SUBSET Requests /\ C \in SUBSET Requests  BY CountedSets
    <2>3. /\ req[q].pc \in {"counted", "month"} => Cardinality(D) <= req[q].pending
          /\ req[q].pc = "within" /\ Limits[Kinds[q]] # None => Cardinality(C) < Limits[Kinds[q]]
      BY DEF RoomKept
    <2>4. req[q].pending \in Nat /\ req'[q] = req[q]
      BY <1>5 DEF LimitsTypeOK, Request
    <2> HIDE DEF D, C
    <2>5. /\ Cardinality(D') <= Cardinality(D) /\ Cardinality(D') \in Nat /\ Cardinality(D) \in Nat
          /\ Cardinality(C') <= Cardinality(C) /\ Cardinality(C') \in Nat /\ Cardinality(C) \in Nat
      BY <2>1, <2>2, SmallerSet
    <2>6. /\ req'[q].pc \in {"counted", "month"} => Cardinality(D') <= req'[q].pending
          /\ req'[q].pc = "within" /\ Limits[Kinds[q]] # None => Cardinality(C') < Limits[Kinds[q]]
      BY <2>3, <2>4, <2>5, LimitIsNat
    <2>7. QED  BY <2>6 DEF D, C
  <1>7. QED  BY <1>2, <1>4, <1>6

-----------------------------------------------------------------------------
(* The theorems *)

LEMMA InitOK ==
  ASSUME LimitsInit
  PROVE  LimitsIInv
  <1>1. NoRequest \in Request  BY DEF NoRequest, Request
  <1>2. LimitsTypeOK  BY <1>1 DEF LimitsInit, LimitsTypeOK
  <1>3. GateKept  BY DEF LimitsInit, GateKept, InGate, NoRequest
  <1>4. InTime  BY DEF LimitsInit, InTime, NoRequest
  <1>5. RoomKept  BY DEF LimitsInit, RoomKept, NoRequest
  <1>6. DayLimit
    <2> SUFFICES ASSUME NEW p \in Processes, NEW kind \in Daily, NEW d \in 1..LastPeriod,
                        Limits[kind] # None
                 PROVE  Cardinality(Counted(p, kind, d)) <= Limits[kind]
      BY DEF DayLimit, Daily
    <2>1. Counted(p, kind, d) = {}
      BY DEF LimitsInit, Counted, Stands, NoRequest
    <2>2. QED  BY <2>1, FS_EmptySet, LimitIsNat
  <1>7. QED  BY <1>2, <1>3, <1>4, <1>5, <1>6 DEF LimitsIInv

LEMMA SoundKeeps ==
  ASSUME LimitsIInv, Sound
  PROVE  LimitsIInv'
  BY NobodyMore DEF Sound, LimitsIInv

LEMMA StutterOK ==
  ASSUME LimitsIInv, UNCHANGED limitVars
  PROVE  LimitsIInv'
  <1>1. Sound
    BY DEF limitVars, LimitsIInv, Sound, LimitsTypeOK, GateKept, InGate, InTime, AdmitsNobody, ChecksRight, Stands
  <1>2. QED  BY <1>1, SoundKeeps

LEMMA NextOK ==
  ASSUME LimitsIInv, [LimitsNext]_limitVars
  PROVE  LimitsIInv'
  <1>1. ASSUME NEW r \in Requests, TakeGate(r)  PROVE LimitsIInv'
    BY <1>1, TakeGateOK, SoundKeeps
  <1>2. ASSUME NEW r \in Requests, CheckMonth(r)  PROVE LimitsIInv'
    BY <1>2, CheckMonthOK, SoundKeeps
  <1>3. ASSUME NEW r \in Requests, CheckDay(r)  PROVE LimitsIInv'
    BY <1>3, CheckDayOK, SoundKeeps
  <1>4. ASSUME NEW r \in Requests, Admit(r)  PROVE LimitsIInv'
    BY <1>4, AdmitOK
  <1>5. ASSUME NEW r \in Requests, Record(r)  PROVE LimitsIInv'
    BY <1>5, RecordOK, SoundKeeps
  <1>6. ASSUME NEW r \in Requests, Release(r)  PROVE LimitsIInv'
    BY <1>6, ReleaseOK, SoundKeeps
  <1>7. ASSUME NEW r \in Requests, GivesUp(r)  PROVE LimitsIInv'
    BY <1>7, GivesUpOK, SoundKeeps
  <1>8. ASSUME NEW p \in Processes, ProcessDies(p)  PROVE LimitsIInv'
    BY <1>8, CrashOK, SoundKeeps
  <1>9. CASE NextPeriod
    BY <1>9, NextPeriodOK, SoundKeeps
  <1>10. CASE UNCHANGED limitVars
    BY <1>10, StutterOK
  <1>11. QED
    BY <1>1, <1>2, <1>3, <1>4, <1>5, <1>6, <1>7, <1>8, <1>9, <1>10 DEF LimitsNext, LimitsStep

\* The inductive invariant holds in every state.
THEOREM LimitsInvariant == LimitsSpec => []LimitsIInv
  <1>1. LimitsInit => LimitsIInv  BY InitOK
  <1>2. LimitsIInv /\ [LimitsNext]_limitVars => LimitsIInv'  BY NextOK
  <1>3. QED  BY <1>1, <1>2, PTL DEF LimitsSpec

\* Every variable of the limits has its type.
THEOREM LimitsTypeCorrect == LimitsSpec => []LimitsTypeOK
  <1>1. LimitsIInv => LimitsTypeOK  BY DEF LimitsIInv
  <1>2. QED  BY <1>1, LimitsInvariant, PTL

\* A process admits no more runs and fetches of a day than the tenant's
\* daily limit: reserve_slot counts what is admitted and not recorded yet
\* before it reads the store, and keeps its gate until it has admitted.
THEOREM DayLimitKept == LimitsSpec => []DayLimit
  <1>1. LimitsIInv => DayLimit  BY DEF LimitsIInv
  <1>2. QED  BY <1>1, LimitsInvariant, PTL

-----------------------------------------------------------------------------
(***************************************************************************)
(* The month's budget.  A call that was checked when some were recorded    *)
(* counted those under way, so its process has room for one more until it  *)
(* is admitted; one that was checked when none was goes blindly, and finds *)
(* only blind ones admitted before it.                                     *)
(***************************************************************************)
Spending(q) == Kinds[q] = "call" /\ req[q].since = now /\ (row[q] = now \/ Stands(q, "admitted"))
ThisMonth == Recorded("call", now)

\* Who was checked this month, and may be admitted.
Within(r) == Kinds[r] = "call" /\ Stands(r, "within") /\ req[r].since = now

Budget ==
  /\ \A q \in Requests : Spending(q) /\ ~req[q].blind => ThisMonth # {}
  /\ \A r \in Requests : Kinds[r] = "call" /\ Stands(r, "counted") =>
        Cardinality(LimitsDue(ProcessOf[r], "call")) <= req[r].calls
  /\ \A r \in Requests : Within(r) /\ req[r].blind =>
        \A q \in Admitted(ProcessOf[r]) : req[q].blind
  /\ \A r \in Requests : Within(r) /\ ~req[r].blind =>
        ThisMonth # {} /\ (Limits.tokens # None => Tokens(Admitted(ProcessOf[r])) < Limits.tokens)
  /\ \A p \in Processes : Limits.tokens # None /\ (\E q \in Admitted(p) : ~req[q].blind) =>
        Tokens(Admitted(p)) < Limits.tokens + CallTokens

BInv == LimitsIInv /\ Budget

LEMMA AdmittedSet ==
  ASSUME NEW p
  PROVE  /\ Admitted(p) = {q \in Requests : ProcessOf[q] = p /\ Spending(q)}
         /\ Admitted(p) \in SUBSET Requests /\ ThisMonth \in SUBSET Requests
  BY DEF Admitted, Spending, ThisMonth, Recorded

\* Products with the price of a call.
LEMMA TimesPlus ==
  ASSUME NEW m \in Nat, NEW n \in Nat
  PROVE  /\ CallTokens * m \in Nat /\ CallTokens * n \in Nat
         /\ CallTokens * (m + n) = CallTokens * m + CallTokens * n
         /\ CallTokens * 1 = CallTokens /\ CallTokens * n = n * CallTokens
  OBVIOUS

LEMMA TimesMore ==
  ASSUME NEW m \in Nat, NEW n \in Nat, m <= n
  PROVE  CallTokens * m <= CallTokens * n
  <1>1. PICK k \in Nat : n = m + k
    <2>1. n - m \in Nat /\ n = m + (n - m)  OBVIOUS
    <2>2. QED  BY <2>1
  <1>2. CallTokens * n = CallTokens * m + CallTokens * k  BY <1>1, TimesPlus
  <1>3. CallTokens * m \in Nat /\ CallTokens * k \in Nat  BY TimesPlus
  <1>4. QED  BY <1>2, <1>3

LEMMA FewerTokens ==
  ASSUME NEW S \in SUBSET Requests, NEW T \in SUBSET S
  PROVE  Tokens(S) \in Nat /\ Tokens(T) \in Nat /\ Tokens(T) <= Tokens(S)
  <1>1. Cardinality(S) \in Nat /\ Cardinality(T) \in Nat /\ Cardinality(T) <= Cardinality(S)
    BY SmallerSet
  <1>2. QED  BY <1>1, TimesMore, TimesPlus DEF Tokens

LEMMA TokensOfTwo ==
  ASSUME NEW S \in SUBSET Requests, NEW n \in Nat, Cardinality(S) <= n,
         NEW A \in SUBSET Requests, NEW T \in SUBSET Requests, A \subseteq T \cup S
  PROVE  Tokens(A) <= Tokens(T) + n * CallTokens
  <1>1. /\ IsFiniteSet(S) /\ IsFiniteSet(T) /\ Cardinality(S) \in Nat /\ Cardinality(T) \in Nat
    BY SmallerSet
  <1>2. T \cup S \in SUBSET Requests /\ T \cap S \in SUBSET Requests  OBVIOUS
  <1>3. Cardinality(T \cup S) <= Cardinality(T) + Cardinality(S)
    <2>1. Cardinality(T \cup S) = Cardinality(T) + Cardinality(S) - Cardinality(T \cap S)
      BY <1>1, FS_Union
    <2>2. Cardinality(T \cap S) \in Nat /\ Cardinality(T \cup S) \in Nat  BY <1>2, SmallerSet
    <2>3. QED  BY <1>1, <2>1, <2>2
  <1>4. /\ Cardinality(A) \in Nat /\ Cardinality(T \cup S) \in Nat
        /\ Cardinality(A) <= Cardinality(T \cup S)
    BY <1>2, SmallerSet
  <1>5. Cardinality(A) <= Cardinality(T) + n  BY <1>1, <1>3, <1>4
  <1>6. CallTokens * Cardinality(A) <= CallTokens * (Cardinality(T) + n)
    BY <1>1, <1>4, <1>5, TimesMore
  <1>7. CallTokens * (Cardinality(T) + n) = CallTokens * Cardinality(T) + n * CallTokens
    BY <1>1, TimesPlus
  <1>8. QED  BY <1>6, <1>7 DEF Tokens

LEMMA TokensLimit ==
  ASSUME Limits.tokens # None
  PROVE  Limits.tokens \in Nat
  BY DEF Limit

-----------------------------------------------------------------------------
\* A step within a month that admits no call.
AdmitsNoCall ==
  /\ now' = now
  /\ \A q \in Requests : Spending(q)' => Spending(q) /\ req'[q].blind = req[q].blind
  /\ \A q \in Requests : Kinds[q] = "call" /\ Stands(q, "admitted")' => Stands(q, "admitted")
  /\ \A q \in Requests : row[q] # 0 => row'[q] = row[q]

\* A call that is checked keeps what it knows, or has just been counted or checked.
ChecksCall(r) ==
  /\ Kinds[r] = "call" /\ Stands(r, "counted")' =>
       \/ Stands(r, "counted") /\ req'[r].calls = req[r].calls
       \/ Cardinality(LimitsDue(ProcessOf[r], "call")) <= req'[r].calls
  /\ Within(r)' =>
       \/ Within(r) /\ req'[r].blind = req[r].blind
       \/ req'[r].blind /\ ThisMonth = {}
       \/ /\ ~req'[r].blind /\ ThisMonth # {}
          /\ Limits.tokens # None => Tokens(Admitted(ProcessOf[r])) < Limits.tokens

LEMMA NoCallMore ==
  ASSUME BInv, LimitsIInv', AdmitsNoCall, \A r \in Requests : ChecksCall(r)
  PROVE  Budget'
  <1>1. ThisMonth # {} => ThisMonth' # {}
    BY DEF AdmitsNoCall, ThisMonth, Recorded
  <1>2. ASSUME NEW p
        PROVE  /\ Admitted(p)' \in SUBSET Admitted(p) /\ Admitted(p) \in SUBSET Requests
               /\ LimitsDue(p, "call")' \in SUBSET LimitsDue(p, "call") /\ LimitsDue(p, "call") \in SUBSET Requests
    BY AdmittedSet, CountedSets DEF AdmitsNoCall, Admitted, Spending, LimitsDue
  <1>3. ASSUME NEW p
        PROVE  /\ Tokens(Admitted(p))' \in Nat /\ Tokens(Admitted(p)) \in Nat
               /\ Tokens(Admitted(p))' <= Tokens(Admitted(p))
    BY <1>2, FewerTokens DEF Tokens
  <1>4. \A q \in Requests : Spending(q)' /\ ~req'[q].blind => ThisMonth' # {}
    BY <1>1 DEF AdmitsNoCall, BInv, Budget
  <1>5. ASSUME NEW r \in Requests, Kinds[r] = "call", Stands(r, "counted")'
        PROVE  Cardinality(LimitsDue(ProcessOf[r], "call"))' <= req'[r].calls
    <2> DEFINE D == LimitsDue(ProcessOf[r], "call")
    <2>1. Cardinality(D) <= req'[r].calls  BY <1>5 DEF ChecksCall, BInv, Budget
    <2>2. Cardinality(D') <= Cardinality(D) /\ Cardinality(D') \in Nat /\ Cardinality(D) \in Nat
      BY <1>2, SmallerSet
    <2>3. req'[r].calls \in Nat  BY DEF LimitsIInv, LimitsTypeOK, Request
    <2>4. QED  BY <2>1, <2>2, <2>3
  <1>6. ASSUME NEW r \in Requests, Within(r)', req'[r].blind
        PROVE  \A q \in Admitted(ProcessOf[r])' : req'[q].blind
    <2> SUFFICES ASSUME NEW q \in Admitted(ProcessOf[r])' PROVE req'[q].blind  OBVIOUS
    <2>1. q \in Admitted(ProcessOf[r]) /\ q \in Requests  BY <1>2
    <2>2. Spending(q)'  BY DEF Admitted, Spending
    <2>3. req'[q].blind = req[q].blind /\ Spending(q)  BY <2>1, <2>2 DEF AdmitsNoCall
    <2>4. CASE Within(r) /\ req[r].blind  BY <2>1, <2>3, <2>4 DEF BInv, Budget
    <2>5. CASE ThisMonth = {}  BY <2>1, <2>3, <2>5 DEF BInv, Budget
    <2>6. QED  BY <1>6, <2>4, <2>5 DEF ChecksCall
  <1>7. ASSUME NEW r \in Requests, Within(r)', ~req'[r].blind
        PROVE  ThisMonth' # {} /\ (Limits.tokens # None => Tokens(Admitted(ProcessOf[r]))' < Limits.tokens)
    <2>1. ThisMonth # {} /\ (Limits.tokens # None => Tokens(Admitted(ProcessOf[r])) < Limits.tokens)
      BY <1>7 DEF ChecksCall, BInv, Budget
    <2>2. QED  BY <1>1, <1>3, <2>1, TokensLimit
  <1>8. ASSUME NEW p \in Processes, Limits.tokens # None, NEW q \in Admitted(p)', ~req'[q].blind
        PROVE  Tokens(Admitted(p))' < Limits.tokens + CallTokens
    <2>1. q \in Admitted(p) /\ q \in Requests  BY <1>2
    <2>2. Spending(q)'  BY DEF Admitted, Spending
    <2>3. ~req[q].blind  BY <1>8, <2>1, <2>2 DEF AdmitsNoCall
    <2>4. Tokens(Admitted(p)) < Limits.tokens + CallTokens  BY <1>8, <2>1, <2>3 DEF BInv, Budget
    <2>5. Limits.tokens + CallTokens \in Nat  BY <1>8, TokensLimit
    <2>6. QED  BY <1>3, <2>4, <2>5
  <1>9. QED  BY <1>4, <1>5, <1>6, <1>7, <1>8 DEF Budget

\* Only one request moves, and no call is admitted.
LEMMA OneCallMoves ==
  ASSUME BInv, LimitsIInv', NEW r \in Requests, now' = now,
         \A q \in Requests : q # r => req'[q] = req[q] /\ row'[q] = row[q],
         row[r] # 0 => row'[r] = row[r],
         Spending(r)' => Spending(r) /\ req'[r].blind = req[r].blind,
         Kinds[r] = "call" /\ Stands(r, "admitted")' => Stands(r, "admitted"),
         ChecksCall(r)
  PROVE  Budget'
  <1>1. AdmitsNoCall
    BY DEF AdmitsNoCall, Spending, Stands
  <1>2. ASSUME NEW q \in Requests, q # r  PROVE ChecksCall(q)
    BY <1>2 DEF ChecksCall, Within, Stands
  <1>3. QED  BY <1>1, <1>2, NoCallMore

LEMMA TakeGateSpends ==
  ASSUME BInv, LimitsIInv', NEW r \in Requests, TakeGate(r)
  PROVE  Budget'
  <1> DEFINE p == ProcessOf[r]
             calls == Cardinality(Reserved(p, "call")) + Cardinality(Reserved(p, "run"))
  <1>1. /\ req' = [req EXCEPT ![r] = [req[r] EXCEPT !.pc = "counted", !.since = now,
                                        !.pending = Pending(r), !.calls = calls]]
        /\ row' = row /\ now' = now /\ req[r].pc = "new"
    BY DEF TakeGate, Stands
  <1> HIDE DEF calls
  <1>2. req[r] \in Request /\ req \in [Requests -> Request]
    BY DEF BInv, LimitsIInv, LimitsTypeOK
  <1>3. /\ req'[r].pc = "counted" /\ req'[r].calls = calls
        /\ \A q \in Requests : q # r => req'[q] = req[q]
    BY <1>1, <1>2 DEF Request
  <1>4. row[r] = 0 /\ now # 0
    BY <1>1 DEF BInv, LimitsIInv, InTime, LimitsTypeOK
  <1>5. Cardinality(LimitsDue(p, "call")) <= calls
    <2>1. /\ Cardinality(LimitsDue(p, "call")) <= Cardinality(Reserved(p, "call"))
          /\ Cardinality(LimitsDue(p, "call")) \in Nat /\ Cardinality(Reserved(p, "call")) \in Nat
          /\ Cardinality(Reserved(p, "run")) \in Nat
      BY CountedSets, SmallerSet
    <2>2. QED  BY <2>1 DEF calls
  <1>6. ChecksCall(r)
    BY <1>3, <1>5 DEF ChecksCall, Within, Stands
  <1>7. QED
    BY <1>1, <1>3, <1>4, <1>6, OneCallMoves DEF Spending, Stands

\* A call within the month's budget leaves room for itself.
LEMMA MonthWithinRoom ==
  ASSUME BInv, NEW r \in Requests, Kinds[r] = "call", Stands(r, "counted"),
         req[r].since = now, MonthWithin(r), ThisMonth # {}, Limits.tokens # None
  PROVE  Tokens(Admitted(ProcessOf[r])) < Limits.tokens
  <1> DEFINE A == Admitted(ProcessOf[r])
             D == LimitsDue(ProcessOf[r], "call")
  <1>1. A \subseteq ThisMonth \cup D
    BY DEF Admitted, ThisMonth, Recorded, LimitsDue, Stands, BInv, LimitsIInv, LimitsTypeOK
  <1>2. A \in SUBSET Requests /\ ThisMonth \in SUBSET Requests /\ D \in SUBSET Requests
    BY AdmittedSet, CountedSets
  <1>3. req[r].calls \in Nat /\ Cardinality(D) <= req[r].calls
    BY DEF BInv, LimitsIInv, LimitsTypeOK, Request, Budget
  <1>4. Tokens(ThisMonth) + req[r].calls * CallTokens < Limits.tokens
    BY DEF MonthWithin, ThisMonth
  <1> HIDE DEF A, D
  <1>5. Tokens(A) <= Tokens(ThisMonth) + req[r].calls * CallTokens
    BY <1>1, <1>2, <1>3, TokensOfTwo
  <1>6. /\ Tokens(A) \in Nat /\ Tokens(ThisMonth) \in Nat
        /\ req[r].calls * CallTokens \in Nat /\ Limits.tokens \in Nat
    BY <1>2, <1>3, FewerTokens, TimesPlus, TokensLimit
  <1>7. Tokens(A) < Limits.tokens  BY <1>4, <1>5, <1>6
  <1>8. QED  BY <1>7 DEF A

\* Leaving the gate, not admitted.
LEMMA EndSpends ==
  ASSUME BInv, LimitsIInv', NEW r \in Requests, Leaves(r, "over"), UNCHANGED <<row, now>>
  PROVE  Budget'
  <1>1. /\ Left(r, "over").pc = "over"
        /\ Left(r, "over").since = now => Spending(r) \/ row[r] # now
        /\ Left(r, "over").since = now => Left(r, "over").blind = req[r].blind
    <2>1. now # 0  BY DEF BInv, LimitsIInv, LimitsTypeOK
    <2>2. QED  BY <2>1 DEF Left, NoRequest, Spending, Stands
  <1>2. req'[r] = Left(r, "over") /\ \A q \in Requests : q # r => req'[q] = req[q]
    BY DEF Leaves, BInv, LimitsIInv, LimitsTypeOK
  <1>3. ChecksCall(r)
    BY <1>1, <1>2 DEF ChecksCall, Within, Stands
  <1>4. QED
    BY <1>1, <1>2, <1>3, OneCallMoves DEF Spending, Stands

LEMMA CheckMonthSpends ==
  ASSUME BInv, LimitsIInv', NEW r \in Requests, CheckMonth(r)
  PROVE  Budget'
  <1>1. CASE Refuse(r)
    BY <1>1, EndSpends DEF Refuse, CheckMonth
  <1>2. CASE ~Refuse(r)
    <2> DEFINE pc == IF Kinds[r] = "run" THEN "month" ELSE "within"
               blind == Kinds[r] = "call" /\ Recorded("call", req[r].since) = {}
    <2>1. /\ req' = [req EXCEPT ![r] = [req[r] EXCEPT !.pc = pc, !.blind = blind]]
          /\ UNCHANGED <<row, gate, now, deaths>>
          /\ Stands(r, "counted") /\ MonthWithin(r)
      BY <1>2 DEF CheckMonth
    <2> HIDE DEF blind
    <2>2. req[r] \in Request /\ req \in [Requests -> Request]
      BY DEF BInv, LimitsIInv, LimitsTypeOK
    <2>3. /\ req'[r].pc = pc /\ req'[r].since = req[r].since /\ req'[r].blind = blind
          /\ \A q \in Requests : q # r => req'[q] = req[q]
      BY <2>1, <2>2 DEF Request
    <2>4. row[r] = 0 /\ now # 0
      BY <2>1 DEF BInv, LimitsIInv, InTime, LimitsTypeOK, Stands
    <2>5. ASSUME Within(r)'
          PROVE  \/ req'[r].blind /\ ThisMonth = {}
                 \/ /\ ~req'[r].blind /\ ThisMonth # {}
                    /\ Limits.tokens # None => Tokens(Admitted(ProcessOf[r])) < Limits.tokens
      <3>1. Kinds[r] = "call" /\ req[r].since = now
        BY <2>1, <2>3, <2>5 DEF Within
      <3>2. CASE ThisMonth = {}
        <4>1. blind  BY <3>1, <3>2, Zenon DEF blind, ThisMonth
        <4>2. req'[r].blind  BY <2>3, <4>1
        <4>3. QED  BY <3>2, <4>2
      <3>3. CASE ThisMonth # {}
        <4>1. ~blind  BY <3>1, <3>3, Zenon DEF blind, ThisMonth
        <4>2. ~req'[r].blind  BY <2>3, <4>1
        <4>3. Limits.tokens # None => Tokens(Admitted(ProcessOf[r])) < Limits.tokens
          BY <2>1, <3>1, <3>3, MonthWithinRoom
        <4>4. QED  BY <3>3, <4>2, <4>3
      <3>4. QED  BY <3>2, <3>3
    <2>6. ChecksCall(r)
      <3>1. ~Stands(r, "counted")'  BY <2>3 DEF Stands
      <3>2. QED  BY <2>5, <3>1 DEF ChecksCall
    <2>7. ~Spending(r)' /\ ~Stands(r, "admitted")'
      BY <2>1, <2>3, <2>4 DEF Spending, Stands
    <2>8. QED
      BY <2>1, <2>3, <2>6, <2>7, OneCallMoves
  <1>3. QED  BY <1>1, <1>2

LEMMA CheckDaySpends ==
  ASSUME BInv, LimitsIInv', NEW r \in Requests, CheckDay(r)
  PROVE  Budget'
  <1>1. CASE Refuse(r)
    BY <1>1, EndSpends DEF Refuse, CheckDay
  <1>2. CASE ~Refuse(r)
    <2>1. /\ Moves(r, "within") /\ UNCHANGED <<row, now>> /\ Kinds[r] # "call"
      BY <1>2 DEF CheckDay
    <2>2. \A q \in Requests : q # r => req'[q] = req[q]
      BY <2>1 DEF Moves, BInv, LimitsIInv, LimitsTypeOK
    <2>3. req'[r].pc = "within"
      BY <2>1 DEF Moves, BInv, LimitsIInv, LimitsTypeOK, Request
    <2>4. QED
      BY <2>1, <2>2, <2>3, OneCallMoves DEF Spending, ChecksCall, Within, Stands
  <1>3. QED  BY <1>1, <1>2

LEMMA RecordSpends ==
  ASSUME BInv, LimitsIInv', NEW r \in Requests, Record(r)
  PROVE  Budget'
  <1>1. /\ req' = [req EXCEPT ![r] = [req[r] EXCEPT !.pc = "recorded"]]
        /\ row' = [row EXCEPT ![r] = now] /\ now' = now /\ Stands(r, "admitted")
    BY DEF Record, Moves
  <1>2. /\ req[r] \in Request /\ req \in [Requests -> Request]
        /\ row \in [Requests -> 0..LastPeriod] /\ row[r] = 0
    BY <1>1 DEF BInv, LimitsIInv, LimitsTypeOK, InTime, Stands
  <1>3. /\ req'[r].pc = "recorded" /\ req'[r].since = req[r].since /\ req'[r].blind = req[r].blind
        /\ \A q \in Requests : q # r => req'[q] = req[q] /\ row'[q] = row[q]
    BY <1>1, <1>2 DEF Request
  <1>4. ChecksCall(r)
    BY <1>3 DEF ChecksCall, Within, Stands
  <1>5. QED
    BY <1>1, <1>2, <1>3, <1>4, OneCallMoves DEF Spending, Stands

LEMMA ReleaseSpends ==
  ASSUME BInv, LimitsIInv', NEW r \in Requests, Release(r)
  PROVE  Budget'
  <1>1. /\ req' = [req EXCEPT ![r] = [req[r] EXCEPT !.pc = "over"]]
        /\ row' = row /\ now' = now
    BY DEF Release, Moves
  <1>2. req[r] \in Request /\ req \in [Requests -> Request]
    BY DEF BInv, LimitsIInv, LimitsTypeOK
  <1>3. /\ req'[r].pc = "over" /\ req'[r].since = req[r].since /\ req'[r].blind = req[r].blind
        /\ \A q \in Requests : q # r => req'[q] = req[q]
    BY <1>1, <1>2 DEF Request
  <1>4. ChecksCall(r)
    BY <1>3 DEF ChecksCall, Within, Stands
  <1>5. QED
    BY <1>1, <1>3, <1>4, OneCallMoves DEF Spending, Stands

LEMMA CrashSpends ==
  ASSUME BInv, LimitsIInv', NEW p \in Processes, ProcessDies(p)
  PROVE  Budget'
  <1>1. row' = row /\ now' = now /\ now # 0
    BY DEF ProcessDies, BInv, LimitsIInv, LimitsTypeOK
  <1>2. ASSUME NEW q \in Requests
        PROVE  \/ req'[q] = req[q]
               \/ /\ req'[q].pc = "over"
                  /\ req'[q].since = now => Spending(q) \/ row[q] # now
                  /\ req'[q].since = now => req'[q].blind = req[q].blind
    <2>1. req'[q] = IF ProcessOf[q] = p /\ req[q].pc \notin {"new", "over"}
                    THEN Left(q, "over") ELSE req[q]
      BY DEF ProcessDies
    <2>2. /\ Left(q, "over").pc = "over"
          /\ Left(q, "over").since = now => Spending(q) \/ row[q] # now
          /\ Left(q, "over").since = now => Left(q, "over").blind = req[q].blind
      BY <1>1 DEF Left, NoRequest, Spending, Stands
    <2>3. QED  BY <2>1, <2>2
  <1>3. AdmitsNoCall
    BY <1>1, <1>2 DEF AdmitsNoCall, Spending, Stands
  <1>4. \A q \in Requests : ChecksCall(q)
    BY <1>1, <1>2 DEF ChecksCall, Within, Stands
  <1>5. QED  BY <1>3, <1>4, NoCallMore

LEMMA NextPeriodSpends ==
  ASSUME BInv, NextPeriod
  PROVE  Budget'
  <1>1. now' = now + 1 /\ now \in Nat /\ UNCHANGED <<req, row>>
    BY DEF NextPeriod, BInv, LimitsIInv, LimitsTypeOK
  <1>2. ASSUME NEW q \in Requests  PROVE req'[q].since # now'
    BY <1>1 DEF BInv, LimitsIInv, InTime, LimitsTypeOK, Request
  <1>3. /\ \A q \in Requests : ~Spending(q)' /\ ~Within(q)'
        /\ \A p : Admitted(p)' = {}
    BY <1>2 DEF Spending, Within, Admitted
  <1>4. \A q \in Requests : Kinds[q] = "call" /\ Stands(q, "counted")' =>
          Cardinality(LimitsDue(ProcessOf[q], "call"))' <= req'[q].calls
    <2>1. \A p : LimitsDue(p, "call")' = LimitsDue(p, "call")
      BY <1>1 DEF LimitsDue, Stands
    <2>2. QED  BY <1>1, <2>1 DEF BInv, Budget, Stands
  <1>5. QED  BY <1>3, <1>4 DEF Budget

\* A call is admitted: it is the one that its process made room for.
LEMMA CallAdmitted ==
  ASSUME BInv, LimitsIInv', NEW r \in Requests, Admit(r), Kinds[r] = "call"
  PROVE  Budget'
  <1> DEFINE P == ProcessOf[r]
  <1>1. /\ Stands(r, "within") /\ InGate(r) /\ row' = row /\ now' = now /\ now # 0 /\ row[r] = 0
        /\ req'[r] = Left(r, "admitted")
        /\ \A q \in Requests : q # r => req'[q] = req[q]
    BY DEF Admit, Leaves, Stands, InGate, BInv, LimitsIInv, LimitsTypeOK, InTime
  <1>2. /\ req'[r].pc = "admitted" /\ req'[r].since = req[r].since /\ req'[r].blind = req[r].blind
    BY <1>1 DEF Left, NoRequest
  <1>3. /\ \A q \in Requests : q # r => (Spending(q)' <=> Spending(q))
        /\ Spending(r)' <=> Within(r)
        /\ ~Spending(r)
        /\ ThisMonth' = ThisMonth
    BY <1>1, <1>2 DEF Spending, Within, Stands, ThisMonth, Recorded
  <1>4. ASSUME NEW p
        PROVE  /\ Admitted(p)' \subseteq Admitted(p) \cup {r}
               /\ p # P \/ ~Within(r) => Admitted(p)' = Admitted(p)
               /\ r \notin Admitted(p)
               /\ p # P => LimitsDue(p, "call")' = LimitsDue(p, "call")
    <2>1. /\ Admitted(p) = {q \in Requests : ProcessOf[q] = p /\ Spending(q)}
          /\ Admitted(p)' = {q \in Requests : ProcessOf[q] = p /\ Spending(q)'}
      BY DEF Admitted, Spending
    <2>2. p # P => LimitsDue(p, "call")' = LimitsDue(p, "call")
      BY <1>1 DEF LimitsDue, Stands
    <2>3. QED  BY <1>3, <2>1, <2>2
  \* Nobody else of this process is checked.
  <1>5. ASSUME NEW q \in Requests, InGate(q)'
        PROVE  q # r /\ ProcessOf[q] # P /\ req'[q] = req[q]
    <2>1. q # r  BY <1>2, <1>5 DEF InGate
    <2>2. InGate(q)  BY <1>1, <1>5, <2>1 DEF InGate
    <2>3. QED  BY <1>1, <2>1, <2>2 DEF GateKept, BInv, LimitsIInv
  <1>6. \A q \in Requests : Spending(q)' /\ ~req'[q].blind => ThisMonth' # {}
    BY <1>1, <1>2, <1>3 DEF BInv, Budget
  <1>7. ASSUME NEW q \in Requests, Kinds[q] = "call", Stands(q, "counted")'
        PROVE  Cardinality(LimitsDue(ProcessOf[q], "call"))' <= req'[q].calls
    <2>1. ProcessOf[q] # P /\ req'[q] = req[q]  BY <1>5, <1>7 DEF InGate, Stands
    <2>2. QED  BY <1>4, <1>7, <2>1 DEF BInv, Budget, Stands
  <1>8. ASSUME NEW q \in Requests, Within(q)'
        PROVE  /\ req'[q].blind => \A x \in Admitted(ProcessOf[q])' : req'[x].blind
               /\ ~req'[q].blind =>
                    ThisMonth' # {} /\ (Limits.tokens # None => Tokens(Admitted(ProcessOf[q]))' < Limits.tokens)
    <2>1. ProcessOf[q] # P /\ req'[q] = req[q] /\ Within(q)
      <3>1. ProcessOf[q] # P /\ req'[q] = req[q]  BY <1>5, <1>8 DEF InGate, Within, Stands
      <3>2. QED  BY <1>1, <1>8, <3>1 DEF Within, Stands
    <2>2. Admitted(ProcessOf[q])' = Admitted(ProcessOf[q])  BY <1>4, <2>1
    <2>3. \A x \in Admitted(ProcessOf[q]) : x \in Requests /\ x # r  BY <1>4, AdmittedSet
    <2>4. req[q].blind => \A x \in Admitted(ProcessOf[q])' : req'[x].blind
      BY <1>1, <2>1, <2>2, <2>3 DEF BInv, Budget
    <2>5. ~req[q].blind =>
            ThisMonth' # {} /\ (Limits.tokens # None => Tokens(Admitted(ProcessOf[q]))' < Limits.tokens)
      BY <1>3, <2>1, <2>2 DEF BInv, Budget, Tokens
    <2>6. QED  BY <2>1, <2>4, <2>5
  <1>9. ASSUME NEW p \in Processes, Limits.tokens # None, NEW q \in Admitted(p)', ~req'[q].blind
        PROVE  Tokens(Admitted(p))' < Limits.tokens + CallTokens
    <2>1. q \in Requests  BY DEF Admitted
    <2>2. CASE p # P \/ ~Within(r)
      <3>1. Admitted(p)' = Admitted(p) /\ q # r  BY <1>4, <2>2
      <3>2. ~req[q].blind  BY <1>1, <1>9, <2>1, <3>1
      <3>3. QED  BY <1>9, <3>1, <3>2 DEF BInv, Budget, Tokens
    <2>3. CASE p = P /\ Within(r) /\ req[r].blind
      <3>1. q # r  BY <1>2, <1>9, <2>3
      <3>2. q \in Admitted(P) /\ ~req[q].blind  BY <1>1, <1>4, <1>9, <2>1, <2>3, <3>1
      <3>3. QED  BY <2>3, <3>2 DEF BInv, Budget
    <2>4. CASE p = P /\ Within(r) /\ ~req[r].blind
      <3>1. Tokens(Admitted(P)) < Limits.tokens  BY <1>9, <2>4 DEF BInv, Budget
      <3> DEFINE A == Admitted(P)
      <3>2. A \in SUBSET Requests /\ A' \subseteq A \cup {r}  BY <1>4, AdmittedSet
      <3> HIDE DEF A
      <3>3. /\ A' \in SUBSET Requests /\ Tokens(A) \in Nat /\ Tokens(A') \in Nat
        <4>1. A' \in SUBSET Requests  BY <3>2
        <4>2. QED  BY <3>2, <4>1, FewerTokens
      <3>4. Tokens(A') <= Tokens(A) + 1 * CallTokens
        <4>1. Cardinality({r}) = 1  BY FS_Singleton
        <4>2. {r} \in SUBSET Requests /\ 1 \in Nat  OBVIOUS
        <4>3. Cardinality({r}) <= 1  BY <4>1
        <4>4. QED  BY <3>2, <3>3, <4>2, <4>3, TokensOfTwo
      <3>5. Tokens(A') < Limits.tokens + CallTokens
        BY <1>9, <3>1, <3>3, <3>4, TokensLimit DEF A
      <3>6. QED  BY <2>4, <3>5 DEF A, Tokens
    <2>5. QED  BY <2>2, <2>3, <2>4
  <1>10. QED  BY <1>6, <1>7, <1>8, <1>9 DEF Budget

LEMMA AdmitSpends ==
  ASSUME BInv, LimitsIInv', NEW r \in Requests, Admit(r)
  PROVE  Budget'
  <1>1. CASE Kinds[r] = "call"
    BY <1>1, CallAdmitted
  <1>2. CASE Kinds[r] # "call"
    <2>1. /\ row' = row /\ now' = now
          /\ \A q \in Requests : q # r => req'[q] = req[q]
      BY DEF Admit, Leaves, BInv, LimitsIInv, LimitsTypeOK
    <2>2. QED
      BY <1>2, <2>1, OneCallMoves DEF Spending, ChecksCall, Within
  <1>3. QED  BY <1>1, <1>2

LEMMA NextSpends ==
  ASSUME BInv, [LimitsNext]_limitVars
  PROVE  BInv'
  <1>1. LimitsIInv'  BY NextOK DEF BInv
  <1>2. ASSUME NEW r \in Requests, LimitsStep(r) \/ GivesUp(r)  PROVE Budget'
    <2>1. CASE TakeGate(r)  BY <1>1, <2>1, TakeGateSpends
    <2>2. CASE CheckMonth(r)  BY <1>1, <2>2, CheckMonthSpends
    <2>3. CASE CheckDay(r)  BY <1>1, <2>3, CheckDaySpends
    <2>4. CASE Admit(r)  BY <1>1, <2>4, AdmitSpends
    <2>5. CASE Record(r)  BY <1>1, <2>5, RecordSpends
    <2>6. CASE Release(r)  BY <1>1, <2>6, ReleaseSpends
    <2>7. CASE GivesUp(r)  BY <1>1, <2>7, EndSpends DEF GivesUp
    <2>8. QED  BY <1>2, <2>1, <2>2, <2>3, <2>4, <2>5, <2>6, <2>7 DEF LimitsStep
  <1>3. ASSUME NEW p \in Processes, ProcessDies(p)  PROVE Budget'
    BY <1>1, <1>3, CrashSpends
  <1>4. ASSUME NextPeriod  PROVE Budget'
    BY <1>4, NextPeriodSpends
  <1>5. ASSUME UNCHANGED limitVars  PROVE Budget'
    <2>1. AdmitsNoCall /\ \A q \in Requests : ChecksCall(q)
      BY <1>5 DEF limitVars, AdmitsNoCall, ChecksCall, Spending, Within, Stands
    <2>2. QED  BY <1>1, <2>1, NoCallMore
  <1>6. Budget'
    BY <1>2, <1>3, <1>4, <1>5 DEF LimitsNext
  <1>7. QED  BY <1>1, <1>6 DEF BInv

LEMMA InitSpends ==
  ASSUME LimitsInit
  PROVE  BInv
  <1>1. \A q \in Requests : req[q].pc = "new" /\ row[q] = 0 /\ now = 1
    BY DEF LimitsInit, NoRequest
  <1>2. Budget
    BY <1>1 DEF Budget, Spending, Within, Stands, Admitted
  <1>3. QED  BY <1>2, InitOK DEF BInv

\* The room that a checked call was promised is kept.
LEMMA KeptByRoom ==
  ASSUME BInv
  PROVE  BudgetKept
  <1> SUFFICES ASSUME NEW p \in Processes, Limits.tokens # None,
                      Cardinality({r \in Admitted(p) : req[r].blind}) <= 1
               PROVE  \/ Cardinality(Admitted(p)) <= 1
                      \/ Tokens(Admitted(p)) < Limits.tokens + CallTokens
    BY DEF BudgetKept
  <1>1. CASE \E q \in Admitted(p) : ~req[q].blind
    BY <1>1 DEF BInv, Budget
  <1>2. CASE \A q \in Admitted(p) : req[q].blind
    <2>1. {r \in Admitted(p) : req[r].blind} = Admitted(p)  BY <1>2
    <2>2. QED  BY <2>1
  <1>3. QED  BY <1>1, <1>2

\* "Calls under way count against the budget": once a call is recorded, and
\* when not more than one was admitted before, the calls that a process has
\* admitted in a month pass the tenant's monthly budget by less than one call,
\* for every number of requests and processes and every price of a call.
THEOREM BudgetIsKept == LimitsSpec => []BudgetKept
  <1>1. LimitsInit => BInv  BY InitSpends
  <1>2. BInv /\ [LimitsNext]_limitVars => BInv'  BY NextSpends
  <1>3. BInv => BudgetKept  BY KeptByRoom
  <1>4. QED  BY <1>1, <1>2, <1>3, PTL DEF LimitsSpec

HIDE TenantLimitsAssumption

-----------------------------------------------------------------------------
(***************************************************************************)
(* The five together.  A behaviour in which one of them runs at a time is  *)
(* a behaviour of each: what was proved of one holds beside the others.    *)
(***************************************************************************)

\* Whatever part runs, each of the five takes its own steps or rests.
LEMMA EachTakesItsSteps ==
  ASSUME [MCNext]_<<part, ledgerVars, subVars, signupVars, accountVars, limitVars>>
  PROVE  /\ [LedgerNext]_ledgerVars /\ [SubNext]_subVars /\ [SignupsNext]_signupVars
         /\ [AccountsNext]_accountVars /\ [LimitsNext]_limitVars
<1>1. CASE LedgerNext /\ UNCHANGED <<part, subVars, signupVars, accountVars, limitVars>>
  BY <1>1
<1>2. CASE SubNext /\ UNCHANGED <<part, ledgerVars, signupVars, accountVars, limitVars>>
  BY <1>2
<1>3. CASE SignupsNext /\ UNCHANGED <<part, ledgerVars, subVars, accountVars, limitVars>>
  BY <1>3
<1>4. CASE AccountsNext /\ UNCHANGED <<part, ledgerVars, subVars, signupVars, limitVars>>
  BY <1>4
<1>5. CASE LimitsNext /\ UNCHANGED <<part, ledgerVars, subVars, signupVars, accountVars>>
  BY <1>5
<1>6. CASE UNCHANGED <<part, ledgerVars, subVars, signupVars, accountVars, limitVars>>
  BY <1>6
<1>. QED
  BY <1>1, <1>2, <1>3, <1>4, <1>5, <1>6 DEF MCNext

\* The service as a whole is each of its parts: the ledger of credits, the
\* subscriptions, the signups, the accounts and the Core's limits behave in
\* it as their own specifications say.
THEOREM EachPartIsItself ==
  MCSpec => LedgerSpec /\ SubSpec /\ SignupsSpec /\ AccountsSpec /\ LimitsSpec
<1>1. MCInit => LedgerInit /\ SubInit /\ SignupsInit /\ AccountsInit /\ LimitsInit
  BY DEF MCInit
<1>2. [MCNext]_<<part, ledgerVars, subVars, signupVars, accountVars, limitVars>>
        => /\ [LedgerNext]_ledgerVars /\ [SubNext]_subVars /\ [SignupsNext]_signupVars
           /\ [AccountsNext]_accountVars /\ [LimitsNext]_limitVars
  BY EachTakesItsSteps
<1>. QED
  BY <1>1, <1>2, PTL DEF MCSpec, LedgerSpec, SubSpec, SignupsSpec, AccountsSpec, LimitsSpec

\* Whatever sells, limits and manages the service, every table of every part
\* holds only what the code may write in it, as long as the notices of a
\* payment are handled one at a time.
THEOREM BusinessTyped == ~NoticesOverlap => (MCSpec => []BusinessTypeOK)
<1>1. LedgerTypeOK /\ SubTypeOK /\ SignupsTypeOK /\ AccountsTypeOK /\ LimitsTypeOK => BusinessTypeOK
  BY DEF BusinessTypeOK
<1>. QED
  BY <1>1, EachPartIsItself, LedgerTypeCorrect, SubTypeCorrect, SignupsTypeCorrect,
     AccountsTypeCorrect, LimitsTypeCorrect, PTL
=============================================================================
