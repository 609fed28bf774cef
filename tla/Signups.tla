------------------------------- MODULE Signups -------------------------------
(***************************************************************************)
(* How a customer of the public site or of a reseller gets a newsroom      *)
(* (billing.signup): several transactions, any of which may be the last    *)
(* before the process dies, and a call that the site sends again.  The     *)
(* trial is given once (trials.py); a plan bought on the site starts with  *)
(* its payment.  The owner's invitation is in Accounts.                    *)
(***************************************************************************)
EXTENDS Naturals, FiniteSets

CONSTANTS Ref,      \* external references: one signup each, sent as often as needed
          Who,      \* people, as trials.keys recognises them
          Id,       \* newsroom ids, free again once the newsroom is deleted
          Caller,   \* calls of the signup under way at once
          MaxUpsets \* bound of the exploration: deaths and the operator's deletions and ties

Nothing == "none"
Customers == Ref \cup Who   \* rows the site writes, by reference, and those by hand

ASSUME SignupsAssumption == Nothing \notin Id

VARIABLES buyer,      \* what each reference asks for; it never changes
          customer,   \* customers
          made,       \* tenants: the newsroom of each reference
          bill,       \* subscriptions
          marks,      \* trial_marks: who had a trial in which newsroom
          onSale,     \* the plan the site sells is in the catalogue
          call,       \* what each call is doing
          answered,   \* references whose signup was answered
          given,      \* trials that run when their signup is answered
          helped,     \* references the operator or a payment has dealt with
          unchecked,  \* references whose call died before its trial was checked
          upsets

signupVars == <<buyer, customer, made, bill, marks, onSale, call, answered, given, helped, unchecked, upsets>>

NoRoom == [id |-> Nothing, held |-> FALSE, of |-> Nothing]
NoBill == [status |-> "none", plan |-> "trial"]
NoCall == [step |-> "idle", ref |-> Nothing, new |-> FALSE, match |-> FALSE]

Buys(r) == buyer[r].plan = "paid"   \* from the site, not from a reseller: `desired`
IsFree(i) == \A r \in Ref : made[r].id # i
Identity(c) == IF c \in Ref THEN buyer[c].who ELSE c
OnlyCall(r) == \A c \in Caller : call[c].ref # r
NoCalls == call = [c \in Caller |-> NoCall]
Upset == upsets < MaxUpsets /\ upsets' = upsets + 1

SignupsInit ==
  /\ buyer \in [Ref -> [who : Who, plan : {"trial", "paid", "resold"}]]
  /\ customer = {} /\ made = [r \in Ref |-> NoRoom] /\ bill = [r \in Ref |-> NoBill]
  /\ marks = {} /\ onSale = TRUE
  /\ call = [c \in Caller |-> NoCall]
  /\ answered = {} /\ given = {} /\ helped = {} /\ unchecked = {} /\ upsets = 0

history == <<helped, unchecked, upsets>>

Goes(c, step) == call' = [call EXCEPT ![c].step = step]
HangsUp(c) == call' = [call EXCEPT ![c] = NoCall]   \* the call is answered with an error

-----------------------------------------------------------------------------
(* billing.signup: the plans are looked up and the customer written.       *)
Signup(c, r) ==
  /\ call[c] = NoCall /\ OnlyCall(r)
  /\ buyer[r].plan # "trial" => onSale
  /\ customer' = customer \cup {r}
  /\ call' = [call EXCEPT ![c] = [NoCall EXCEPT !.step = "room", !.ref = r]]
  /\ UNCHANGED <<buyer, made, bill, marks, onSale, answered, given, history>>

(* newsrooms.create: the newsroom of this reference, or a new one under    *)
(* an id nobody has.                                                       *)
MakeRoom(c) ==
  LET r == call[c].ref
      new == made[r].id = Nothing
  IN /\ call[c].step = "room"
     /\ IF new THEN \E i \in Id : IsFree(i) /\ made' = [made EXCEPT ![r] = [NoRoom EXCEPT !.id = i]]
               ELSE UNCHANGED made
     /\ call' = [call EXCEPT ![c].new = new,
                             ![c].step = IF new \/ bill[r] = NoBill THEN "start" ELSE "desired"]
     /\ UNCHANGED <<buyer, customer, bill, marks, onSale, answered, given, history>>

(* billing.start: the trial, or a reseller's plan at once.                 *)
Begin(c) ==
  LET r == call[c].ref
      plan == IF buyer[r].plan = "resold" THEN "paid" ELSE "trial"
  IN /\ call[c].step = "start"
     /\ IF (plan = "paid" /\ ~onSale) \/ made[r] = NoRoom \/ r \notin customer
        THEN HangsUp(c) /\ UNCHANGED <<bill, made>>
        ELSE /\ bill' = [bill EXCEPT ![r] = [status |-> IF plan = "trial" THEN "trialing" ELSE "active",
                                             plan |-> plan]]
             /\ made' = [made EXCEPT ![r].held = FALSE, ![r].of = r]
             /\ Goes(c, IF call[c].new /\ plan = "trial" /\ ~Buys(r) THEN "look" ELSE "desired")
     /\ UNCHANGED <<buyer, customer, marks, onSale, answered, given, history>>

(* _trial_once: another customer with the same data, or their mark on      *)
(* another newsroom, ends the trial; the data are marked in any case.      *)
\* A slip: customers alone are compared, not the marks of deleted ones.
EarlierCustomer(r) == \E c \in customer \ {r} : Identity(c) = buyer[r].who
Earlier(r) ==
  \/ \E i \in Id \ {made[r].id} : <<buyer[r].who, i>> \in marks
  \/ \E c \in customer \ {r} : Identity(c) = buyer[r].who

LookForEarlier(c) ==
  /\ call[c].step = "look"
  /\ call' = [call EXCEPT ![c].step = "mark", ![c].match = Earlier(call[c].ref)]
  /\ UNCHANGED <<buyer, customer, made, bill, marks, onSale, answered, given, history>>

TrialOrNot(c) ==
  LET r == call[c].ref
  IN /\ call[c].step = "mark"
     /\ marks' = marks \cup {<<buyer[r].who, made[r].id>>}
     /\ IF call[c].match THEN /\ bill' = [bill EXCEPT ![r].status = "expired"]
                              /\ made' = [made EXCEPT ![r].held = TRUE]
                         ELSE UNCHANGED <<bill, made>>
     /\ Goes(c, "desired")
     /\ UNCHANGED <<buyer, customer, onSale, answered, given, history>>

(* A plan bought on the site waits for its payment, the newsroom stopped.  *)
\* A slip: the plan is set to wait and the newsroom goes on with its trial.
DesiredRunning(c) ==
  LET r == call[c].ref
      waits == Buys(r) /\ bill[r].status \in {"trialing", "expired"}
  IN /\ call[c].step = "desired" /\ HangsUp(c)
     /\ bill' = IF waits THEN [bill EXCEPT ![r] = [status |-> "expired", plan |-> "paid"]] ELSE bill
     /\ answered' = answered \cup {r}
     /\ UNCHANGED <<buyer, customer, made, marks, onSale, given, history>>

Desired(c) ==
  LET r == call[c].ref
      waits == Buys(r) /\ bill[r].status \in {"trialing", "expired"}
      now == IF waits THEN "expired" ELSE bill[r].status
  IN /\ call[c].step = "desired" /\ HangsUp(c)
     /\ IF waits /\ ~onSale THEN UNCHANGED <<bill, made, answered, given>>
        ELSE /\ bill' = IF waits THEN [bill EXCEPT ![r] = [status |-> "expired", plan |-> "paid"]] ELSE bill
             /\ made' = IF waits THEN [made EXCEPT ![r].held = TRUE] ELSE made
             /\ answered' = answered \cup {r}
             /\ given' = IF now = "trialing" /\ r \notin helped \cup unchecked
                         THEN given \cup {<<r, made[r].id>>} ELSE given
     /\ UNCHANGED <<buyer, customer, marks, onSale, history>>

(* The process dies; the site gets no answer and may call again.           *)
DieMidway(c) ==
  /\ call[c] # NoCall /\ Upset /\ HangsUp(c)
  /\ unchecked' = IF call[c].step \in {"start", "look", "mark"} THEN unchecked \cup {call[c].ref} ELSE unchecked
  /\ UNCHANGED <<buyer, customer, made, bill, marks, onSale, answered, given, helped>>

-----------------------------------------------------------------------------
(* What happens to a newsroom afterwards, between two calls.               *)

(* A payment, or the operator starts a plan or gives the trial again.      *)
Started(r, plan) ==
  /\ NoCalls /\ made[r].id # Nothing /\ (plan = "paid" => onSale)
  /\ bill' = [bill EXCEPT ![r] = [status |-> IF plan = "trial" THEN "trialing" ELSE "active", plan |-> plan]]
  /\ made' = [made EXCEPT ![r].held = FALSE]
  /\ helped' = helped \cup {r}
  /\ UNCHANGED <<buyer, customer, marks, onSale, call, answered, given, unchecked, upsets>>

(* lifecycle: the trial or the paid period is over.                        *)
Expires(r) ==
  /\ NoCalls /\ bill[r].status \in {"trialing", "active"}
  /\ bill' = [bill EXCEPT ![r].status = "expired"]
  /\ UNCHANGED <<buyer, customer, made, marks, onSale, call, answered, given, history>>

(* delete_tenant: its subscription goes with it; marks and customer stay.  *)
DeleteNewsroom(r) ==
  /\ NoCalls /\ made[r].id # Nothing /\ Upset
  /\ made' = [made EXCEPT ![r] = NoRoom] /\ bill' = [bill EXCEPT ![r] = NoBill]
  /\ answered' = answered \ {r} /\ helped' = helped \ {r}
  /\ UNCHANGED <<buyer, customer, marks, onSale, call, given, unchecked>>

(* create_customer refuses someone who is a customer already; so does      *)
(* delete_customer one who has newsrooms.                                  *)
CreateCustomer(w) ==
  /\ NoCalls /\ Upset /\ \A c \in customer : Identity(c) # w
  /\ customer' = customer \cup {w}
  /\ UNCHANGED <<buyer, made, bill, marks, onSale, call, answered, given, helped, unchecked>>

\* A slip: the customer's newsrooms are not looked for.
DeleteCustomerAnyway(c) ==
  /\ NoCalls /\ Upset /\ c \in customer
  /\ customer' = customer \ {c}
  /\ UNCHANGED <<buyer, made, bill, marks, onSale, call, answered, given, helped, unchecked>>

DeleteCustomer(c) ==
  /\ NoCalls /\ Upset /\ c \in customer /\ \A r \in Ref : made[r].of # c
  /\ customer' = customer \ {c}
  /\ UNCHANGED <<buyer, made, bill, marks, onSale, call, answered, given, helped, unchecked>>

(* link_customer, and set_tenant_customer by an owner without one.         *)
LinkCustomer(r, c) ==
  /\ NoCalls /\ Upset /\ made[r].id # Nothing /\ made[r].of # c
  /\ \/ c \in customer \cup {Nothing} /\ UNCHANGED customer
     \/ made[r].of = Nothing /\ c = buyer[r].who /\ customer' = customer \cup {c}
  /\ made' = [made EXCEPT ![r].of = c]
  /\ UNCHANGED <<buyer, bill, marks, onSale, call, answered, given, helped, unchecked>>

(* delete_plan refuses a plan some newsroom is on.                         *)
Catalogue ==
  /\ onSale => \A r \in Ref : bill[r].plan # "paid"
  /\ Upset /\ onSale' = ~onSale
  /\ UNCHANGED <<buyer, customer, made, bill, marks, call, answered, given, helped, unchecked>>

SignupCalls ==
  \E c \in Caller :
    \/ \E r \in Ref : Signup(c, r)
    \/ MakeRoom(c) \/ Begin(c) \/ LookForEarlier(c) \/ TrialOrNot(c) \/ Desired(c) \/ DieMidway(c)

CustomerPages ==
  \/ \E r \in Ref, c \in Customers \cup {Nothing} : LinkCustomer(r, c)
  \/ \E w \in Who : CreateCustomer(w)
  \/ \E c \in Customers : DeleteCustomer(c)

SignupsNext ==
  \/ SignupCalls \/ CustomerPages \/ Catalogue
  \/ \E r \in Ref : Expires(r) \/ DeleteNewsroom(r) \/ \E plan \in {"trial", "paid"} : Started(r, plan)

SignupsSpec == SignupsInit /\ [][SignupsNext]_signupVars

-----------------------------------------------------------------------------
(* The rows and the calls hold what the code may write in them. *)
SignupsTypeOK ==
  /\ customer \subseteq Customers /\ marks \subseteq Who \X Id
  /\ made \in [Ref -> [id : Id \cup {Nothing}, held : BOOLEAN, of : Customers \cup {Nothing}]]
  /\ bill \in [Ref -> [status : {"none", "trialing", "active", "expired"}, plan : {"trial", "paid"}]]
  /\ \A r \in Ref : made[r].of # Nothing => made[r].of \in customer

SamePerson(g, h) == buyer[g[1]].who = buyer[h[1]].who

(* trials.py: the free trial, once.  Whatever the calls, crashes and       *)
(* deletions, one person's signups end with a running trial in one         *)
(* newsroom, save where a call died before its check or the operator gave  *)
(* a trial by hand.                                                        *)
TrialOnce == \A g, h \in given : SamePerson(g, h) => g[2] = h[2]

(* signup: from the public site a paid plan starts only with its payment.  *)
(* Once the signup was answered the newsroom stays stopped, sent again or  *)
(* not, until somebody paid or the operator started a plan.                *)
PaysFirst == \A r \in answered : Buys(r) => made[r].held \/ r \in helped
=============================================================================
