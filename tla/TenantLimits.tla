---------------------------- MODULE TenantLimits ----------------------------
(***************************************************************************)
(* The limits of one tenant of the Core (src/service.rs: reserve_slot,     *)
(* check_tenant_limits, TenantBudget, and the operations that use them).   *)
(*                                                                         *)
(* A request for a run, a fetch or a model call is admitted against what   *)
(* the store has recorded today or this month and what its process has     *)
(* admitted and not yet recorded.  Counting, reading the store, admitting, *)
(* recording and giving the reservation back are steps of their own; a     *)
(* gate keeps the requests of one process, not those of several, from      *)
(* checking at the same time.                                              *)
(*                                                                         *)
(* A period is a day that is also a month.  All model calls cost the same, *)
(* and the limits do not change (a request keeps those it read).           *)
(***************************************************************************)
EXTENDS Integers, FiniteSets

CONSTANTS
  Requests,        \* what the tenant asks for (model calls of runs included)
  Kinds,           \* [Requests -> "run" | "fetch" | "call"]: Consume
  Processes,       \* Core processes on one database
  ProcessOf,       \* [Requests -> Processes]
  None,            \* no limit; nobody in the gate
  Limits,          \* the tenant's limits: runs and fetches a day, tokens a month
  CallTokens,      \* tokens of a model call
  LastPeriod,      \* bound: periods
  MaxDeaths        \* bound: requests given up, crashes

Limit == Nat \cup {None}

ASSUME TenantLimitsAssumption ==
  /\ IsFiniteSet(Requests)
  /\ Kinds \in [Requests -> {"run", "fetch", "call"}]
  /\ ProcessOf \in [Requests -> Processes]
  /\ None \notin Nat /\ None \notin Requests
  /\ Limits \in [run : Limit, fetch : Limit, tokens : Limit]
  /\ CallTokens \in Nat /\ LastPeriod \in Nat \ {0} /\ MaxDeaths \in Nat

VARIABLES
  req,      \* [Requests -> where the request is, and what it has read]
  row,      \* [Requests -> the period it was recorded in, 0 is not recorded]
  gate,     \* [Processes -> the request that holds limit_gate]
  now,      \* the period
  deaths

limitVars == <<req, row, gate, now, deaths>>

-----------------------------------------------------------------------------
Request ==
  [pc : {"new", "counted", "month", "within", "admitted", "recorded", "over"},
   pending : Nat,      \* admitted work of this kind, counted in the gate
   calls : Nat,        \* model calls under way, and runs about to make one
   since : 0..LastPeriod,
   blind : BOOLEAN]    \* a call, and none was recorded when it was checked

NoRequest == [pc |-> "new", pending |-> 0, calls |-> 0, since |-> 0, blind |-> FALSE]

Stands(r, pc) == req[r].pc = pc
Moves(r, pc) == req' = [req EXCEPT ![r] = [req[r] EXCEPT !.pc = pc]]
InGate(r) == req[r].pc \in {"counted", "month", "within"}

LimitFault == deaths < MaxDeaths /\ deaths' = deaths + 1

\* The map in_flight: the reservations that are held.
Reserved(p, kind) ==
  {r \in Requests : /\ ProcessOf[r] = p /\ Kinds[r] = kind
                    /\ req[r].pc \in {"admitted", "recorded"}}

Pending(r) == Cardinality(Reserved(ProcessOf[r], Kinds[r]))

\* Store::usage: the rows of a kind since the start of a period.
Recorded(kind, since) ==
  {r \in Requests : Kinds[r] = kind /\ row[r] # 0 /\ row[r] >= since}

Tokens(calls) == CallTokens * Cardinality(calls)

-----------------------------------------------------------------------------
(* reserve, reserve_slot *)

\* A slip: no gate.
AnyTime(p) == TRUE

GateFree(p) == gate[p] = None

\* The gate is taken; what this process has under way is counted before the
\* store is read.
TakeGate(r) ==
  LET p == ProcessOf[r] IN
  /\ Stands(r, "new")
  /\ GateFree(p)
  /\ gate' = [gate EXCEPT ![p] = r]
  /\ req' = [req EXCEPT ![r] = [req[r] EXCEPT
               !.pc = "counted", !.since = now,
               !.pending = Pending(r),
               !.calls = Cardinality(Reserved(p, "call")) + Cardinality(Reserved(p, "run"))]]
  /\ UNCHANGED <<row, now, deaths>>

\* A slip: the calls under way are not counted.
SpentWithin(r) ==
  LET calls == Recorded("call", req[r].since)
  IN Limits.tokens # None => Tokens(calls) < Limits.tokens

\* The month's tokens and, at the month's average, those of the calls under
\* way.
MonthWithin(r) ==
  LET calls == Recorded("call", req[r].since)
      underWay == IF calls = {} THEN 0 ELSE req[r].calls * CallTokens
  IN Limits.tokens # None => Tokens(calls) + underWay < Limits.tokens

\* What a request still knows when it has left the gate.
Left(r, pc) ==
  IF Kinds[r] = "call" /\ (pc = "admitted" \/ Stands(r, "recorded"))
  THEN [NoRequest EXCEPT !.pc = pc, !.since = req[r].since, !.blind = req[r].blind]
  ELSE [NoRequest EXCEPT !.pc = pc]

Leaves(r, pc) ==
  /\ req' = [req EXCEPT ![r] = Left(r, pc)]
  /\ gate' = [p \in Processes |-> IF gate[p] = r THEN None ELSE gate[p]]

Refuse(r) == Leaves(r, "over")

CheckMonth(r) ==
  /\ Stands(r, "counted") /\ Kinds[r] \in {"run", "call"}
  /\ IF MonthWithin(r)
     THEN /\ req' = [req EXCEPT ![r] = [req[r] EXCEPT
                       !.pc = IF Kinds[r] = "run" THEN "month" ELSE "within",
                       !.blind = Kinds[r] = "call" /\ Recorded("call", req[r].since) = {}]]
          /\ UNCHANGED gate
     ELSE Refuse(r)
  /\ UNCHANGED <<row, now, deaths>>

DayWithin(r) ==
  LET limit == Limits[Kinds[r]]
  IN limit # None => Cardinality(Recorded(Kinds[r], req[r].since)) + req[r].pending < limit

CheckDay(r) ==
  /\ Kinds[r] \in {"run", "fetch"}
  /\ Stands(r, IF Kinds[r] = "run" THEN "month" ELSE "counted")
  /\ IF DayWithin(r) THEN Moves(r, "within") /\ UNCHANGED gate ELSE Refuse(r)
  /\ UNCHANGED <<row, now, deaths>>

\* The reservation is made before the gate is free.
Admit(r) ==
  /\ Stands(r, "within")
  /\ Leaves(r, "admitted")
  /\ UNCHANGED <<row, now, deaths>>

-----------------------------------------------------------------------------
(* The work, and its end *)

\* create_run; record_fetch and record_llm_call after the fetch or the call.
Record(r) ==
  /\ Stands(r, "admitted")
  /\ Moves(r, "recorded")
  /\ row' = [row EXCEPT ![r] = now]
  /\ UNCHANGED <<gate, now, deaths>>

\* The reservation is dropped.
Release(r) ==
  /\ Stands(r, "recorded")
  /\ Moves(r, "over")
  /\ UNCHANGED <<row, gate, now, deaths>>

\* A call to the store fails, or whoever asked is gone: what the request
\* holds is dropped with it.
GivesUp(r) ==
  /\ req[r].pc \notin {"recorded", "over"} /\ LimitFault
  /\ Leaves(r, "over")
  /\ UNCHANGED <<row, now>>

\* A process dies with its requests, its gate and its counts.
ProcessDies(p) ==
  /\ LimitFault
  /\ req' = [r \in Requests |-> IF ProcessOf[r] = p /\ req[r].pc \notin {"new", "over"}
                                THEN Left(r, "over") ELSE req[r]]
  /\ gate' = [gate EXCEPT ![p] = None]
  /\ UNCHANGED <<row, now>>

NextPeriod ==
  /\ now < LastPeriod
  /\ now' = now + 1
  /\ UNCHANGED <<req, row, gate, deaths>>

-----------------------------------------------------------------------------
LimitsInit ==
  /\ req = [r \in Requests |-> NoRequest]
  /\ row = [r \in Requests |-> 0]
  /\ gate = [p \in Processes |-> None]
  /\ now = 1
  /\ deaths = 0

\* What a request does by itself.
LimitsStep(r) ==
  \/ TakeGate(r) \/ CheckMonth(r) \/ CheckDay(r) \/ Admit(r)
  \/ Record(r) \/ Release(r)

LimitsNext ==
  \/ \E r \in Requests : LimitsStep(r) \/ GivesUp(r)
  \/ \E p \in Processes : ProcessDies(p)
  \/ NextPeriod

LimitsSpec == LimitsInit /\ [][LimitsNext]_limitVars
-----------------------------------------------------------------------------
(* Properties *)

\* Every variable has its type.
LimitsTypeOK ==
  /\ req \in [Requests -> Request]
  /\ row \in [Requests -> 0..LastPeriod]
  /\ gate \in [Processes -> Requests \cup {None}]
  /\ now \in 1..LastPeriod
  /\ deaths \in 0..MaxDeaths

\* What a process has admitted of a kind that counts in a period: recorded
\* in it, or admitted and still to be recorded in the present one.
Counted(p, kind, period) ==
  {r \in Requests : /\ ProcessOf[r] = p /\ Kinds[r] = kind
                    /\ row[r] = period \/ (period = now /\ Stands(r, "admitted"))}

\* "Requests arriving together are counted one after the other, not all
\* against the same total": a process admits at most the daily limit,
\* whatever it and other processes record, drop or lose meanwhile, and over
\* midnight.
DayLimit ==
  \A p \in Processes, kind \in {"run", "fetch"}, period \in 1..LastPeriod :
    Limits[kind] # None => Cardinality(Counted(p, kind, period)) <= Limits[kind]

\* The calls a process admitted in the present period.
Admitted(p) ==
  {r \in Requests : /\ ProcessOf[r] = p /\ Kinds[r] = "call" /\ req[r].since = now
                    /\ row[r] = now \/ Stands(r, "admitted")}

\* "Calls under way count against the budget": once a call is recorded, and
\* when not more than one was admitted before, the calls of a process pass the
\* monthly budget by less than one call, however many are under way.
BudgetKept ==
  \A p \in Processes :
    /\ Limits.tokens # None
    /\ Cardinality({r \in Admitted(p) : req[r].blind}) <= 1
    => \/ Cardinality(Admitted(p)) <= 1
       \/ Tokens(Admitted(p)) < Limits.tokens + CallTokens
=============================================================================
