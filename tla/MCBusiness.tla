----------------------------- MODULE MCBusiness -----------------------------
(***************************************************************************)
(* Small instances of what sells and limits the service and of who manages *)
(* it, and of the limits the Core keeps of a tenant's work.  The components share no state, so each behaviour runs one of them  *)
(* and the others rest: the state space is the sum of theirs.              *)
(***************************************************************************)
EXTENDS Ledger, Subscriptions, Signups, Accounts, TenantLimits, TLC

CONSTANTS a1, a2, b1, b2, c1, c2,   \* the values each component calls by its own names
          other,                    \* one that is like no other
          core                      \* a process of the Core
VARIABLE part

\* A plan of one article and two credits, one of proposals without credits.
MCPlans == {[limit |-> 1, month |-> 2, only |-> FALSE], [limit |-> 1, month |-> Off, only |-> TRUE]}
\* Prices, and higher ones that no newsroom can pay with a month's credits.
MCPrices == {"article" :> 2 @@ "translation" :> 1 @@ "image" :> 1,
             "article" :> 3 @@ "translation" :> 3 @@ "image" :> 3}

\* Everybody is given the role that may manage people, and may lose it.
MCRoles == {"owner"}

\* Two runs and three model calls of one process.
MCKinds == [r \in Requests |-> IF r \in {a1, a2} THEN "run" ELSE "call"]
MCProcessOf == [r \in Requests |-> core]
MCLimits == [run |-> 1, fetch |-> None, tokens |-> 4]

\* The same few values stand for workers, payments, references...: one
\* component runs at a time, and the group stays of eight permutations.
MCSymmetry == Permutations({a1, a2}) \cup Permutations({b1, b2}) \cup Permutations({c1, c2})

Rest(name) == part # name
MCInit ==
  /\ part \in {"ledger", "subscriptions", "signups", "accounts", "limits"}
  /\ LedgerInit /\ (Rest("ledger") => plan.only /\ prices["image"] = 1)
  /\ SubInit
  /\ SignupsInit /\ (Rest("signups") => \A r \in Ref : buyer[r].plan = "trial")
  /\ AccountsInit
  /\ LimitsInit

MCNext ==
  \/ part = "ledger" /\ LedgerNext /\ UNCHANGED <<part, subVars, signupVars, accountVars, limitVars>>
  \/ part = "subscriptions" /\ SubNext /\ UNCHANGED <<part, ledgerVars, signupVars, accountVars, limitVars>>
  \/ part = "signups" /\ SignupsNext /\ UNCHANGED <<part, ledgerVars, subVars, accountVars, limitVars>>
  \/ part = "accounts" /\ AccountsNext /\ UNCHANGED <<part, ledgerVars, subVars, signupVars, limitVars>>
  \/ part = "limits" /\ LimitsNext /\ UNCHANGED <<part, ledgerVars, subVars, signupVars, accountVars>>

MCSpec == MCInit /\ [][MCNext]_<<part, ledgerVars, subVars, signupVars, accountVars, limitVars>>

\* Every table of every component holds what the code may write in it.
BusinessTypeOK == LedgerTypeOK /\ SubTypeOK /\ SignupsTypeOK /\ AccountsTypeOK /\ LimitsTypeOK
=============================================================================
