------------------------------ MODULE Accounts ------------------------------
(***************************************************************************)
(* People (accounts.py, auth.py) and the pages that manage them (ui.py,    *)
(* console.py, cli.py): accounts, memberships of newsrooms, sessions,      *)
(* links (invites, password resets, the first-start link), operators and   *)
(* the access tokens of a newsroom.  A link is read in one transaction and *)
(* used in another; a check that counts rows and the write it allows are   *)
(* one transaction, which PostgreSQL may interleave with others (CountsOverlap). *)
(***************************************************************************)
EXTENDS Integers, FiniteSets

CONSTANTS User, Room, Link,
          Page,      \* requests that may be half-way at once
          CountsOverlap,      \* whether the transactions that count rows interleave
          Roles,        \* the roles given: viewer, editor, owner
          MaxByHand     \* bound of the exploration: accounts added from the command line, suspensions

ASSUME AccountsAssumption == "owner" \in Roles /\ Roles \subseteq {"viewer", "editor", "owner"}

Nowhere == "nowhere"    \* a session outside any newsroom, a link to none
NoRole == "none"
NoLinkYet == [kind |-> "none", user |-> Nowhere, room |-> Nowhere, role |-> NoRole, operator |-> FALSE]
AtRest == [step |-> "rest", link |-> Nowhere, user |-> Nowhere, room |-> Nowhere, role |-> NoRole]

VARIABLES person,    \* users: who has an account, a password, the console
          role,      \* memberships
          open,      \* tenants: the newsrooms and whether they are active
          session,   \* sessions: person and newsroom
          link,      \* invites by token; "gone" when used, revoked or replaced
          request,   \* what each request under way has read
          opened, revoked,  \* times a link took effect; links taken back
          launched,         \* an operator was made
          byHand

accountVars == <<person, role, open, session, link, request, opened, revoked, launched, byHand>>

Stranger == [known |-> FALSE, password |-> FALSE, operator |-> FALSE]

AccountsInit ==
  /\ person = [u \in User |-> Stranger]
  /\ role = [u \in User |-> [r \in Room |-> NoRole]]
  /\ open = [r \in Room |-> "none"]
  /\ session = {} /\ link = [k \in Link |-> NoLinkYet]
  /\ request = [q \in Page |-> AtRest]
  /\ opened = [k \in Link |-> 0] /\ revoked = {} /\ launched = FALSE /\ byHand = 0

Counting == {"demote", "oust"}
Alone == CountsOverlap \/ \A q \in Page : request[q].step \notin Counting

Operators == {u \in User : person[u].operator}
NeedsSetup == \A u \in Operators : ~person[u].password
Owners(r) == {u \in User : role[u][r] = "owner"}
\* A slip: the person itself counts as another owner.
OthersOwnMaybe(u, r) == Owners(r) # {}
OthersOwn(u, r) == Owners(r) \ {u} # {}        \* _keep_an_owner
Exists(r) == open[r] \in {"on", "off"}

(* resolve_session: the role a person has now, in the newsroom entered. *)
RoleIn(u, r) ==
  IF person[u].operator /\ Exists(r) THEN "owner"
  ELSE IF open[r] = "on" THEN role[u][r] ELSE NoRole

(* need_console and need("owner"): who may manage people. *)
OnConsole(u) == person[u].operator /\ \E x \in Room \cup {Nowhere} : <<u, x>> \in session
Directs(u, r) == <<u, r>> \in session /\ RoleIn(u, r) = "owner"
SomeoneOnConsole == \E u \in User : OnConsole(u)
Managed(r) == SomeoneOnConsole \/ \E u \in User : Directs(u, r)   \* somebody may ask for it

Ensured(u) == [person[u] EXCEPT !.known = TRUE]                       \* ensure_user
Welcomed(u) == [Ensured(u) EXCEPT !.password = TRUE]
Unused(k) == link[k].kind = "none"
Usable(k) == link[k].kind \in {"invite", "reset", "setup"}
Sends(k, to) == /\ Unused(k) /\ link' = [link EXCEPT ![k] = to]       \* create_invite
Invitation(u, r, as) == [NoLinkYet EXCEPT !.kind = "invite", !.user = u, !.room = r, !.role = as]

people == <<person, role, open, launched, byHand>>
links == <<link, opened, revoked>>
ByHand == byHand < MaxByHand /\ byHand' = byHand + 1

-----------------------------------------------------------------------------
(* First start: the link printed while there is no operator, the account   *)
(* made at install time, an account added from the command line.           *)
SetupLink(k) ==
  /\ Alone /\ NeedsSetup /\ Unused(k)
  /\ link' = [j \in Link |-> IF j = k THEN [NoLinkYet EXCEPT !.kind = "setup", !.operator = TRUE]
                             ELSE IF link[j].kind = "setup" THEN [link[j] EXCEPT !.kind = "gone"] ELSE link[j]]
  /\ revoked' = revoked \cup {j \in Link : link[j].kind = "setup"}
  /\ UNCHANGED <<people, session, request, opened>>

FirstAdmin(u) ==
  /\ Alone /\ NeedsSetup
  /\ person' = [person EXCEPT ![u] = [Welcomed(u) EXCEPT !.operator = TRUE]]
  /\ link' = [j \in Link |-> IF link[j].kind = "setup" THEN [link[j] EXCEPT !.kind = "gone"] ELSE link[j]]
  /\ revoked' = revoked \cup {j \in Link : link[j].kind = "setup"}
  /\ launched' = TRUE
  /\ UNCHANGED <<role, open, session, request, opened, byHand>>

AddUser(u, r, as) ==
  /\ Alone /\ ByHand /\ (r # Nowhere => Exists(r))
  /\ r # Nowhere /\ role[u][r] = "owner" /\ as # "owner" => OthersOwn(u, r)
  /\ person' = [person EXCEPT ![u] = Welcomed(u)]
  /\ role' = IF r = Nowhere THEN role ELSE [role EXCEPT ![u][r] = as]
  /\ UNCHANGED <<open, session, links, request, launched>>

-----------------------------------------------------------------------------
(* Newsrooms: created with an owner, who gets a link unless a password is  *)
(* there already; suspended or resumed; deleted with all that is theirs.   *)
CreateRoom(u, r, k) ==
  /\ Alone /\ SomeoneOnConsole /\ open[r] = "none"
  /\ open' = [open EXCEPT ![r] = "on"]
  /\ person' = [person EXCEPT ![u] = Ensured(u)]
  /\ role' = [role EXCEPT ![u][r] = "owner"]
  /\ IF person[u].password THEN UNCHANGED link ELSE Sends(k, Invitation(u, r, "owner"))
  /\ UNCHANGED <<session, request, opened, revoked, launched, byHand>>

SuspendRoom(r) ==
  /\ Alone /\ SomeoneOnConsole /\ Exists(r) /\ ByHand
  /\ open' = [open EXCEPT ![r] = IF @ = "on" THEN "off" ELSE "on"]
  /\ UNCHANGED <<person, role, session, links, request, launched>>

(* delete_tenant: an operator inside the newsroom goes back to the console.*)
DeleteRoom(r) ==
  /\ Alone /\ SomeoneOnConsole /\ Exists(r)
  /\ open' = [open EXCEPT ![r] = "deleted"]
  /\ role' = [u \in User |-> [role[u] EXCEPT ![r] = NoRole]]
  /\ session' = {s \in session : s[2] # r}
                  \cup {<<u, Nowhere>> : u \in {v \in Operators : <<v, r>> \in session}}
  /\ link' = [k \in Link |-> IF link[k].room = r /\ Usable(k) THEN [link[k] EXCEPT !.kind = "gone"] ELSE link[k]]
  /\ UNCHANGED <<person, request, opened, revoked, launched, byHand>>

-----------------------------------------------------------------------------
(* Links.                                                                  *)
Invite(u, r, as, k) ==
  /\ Alone /\ Exists(r) /\ Managed(r)
  /\ Sends(k, Invitation(u, r, as))
  /\ UNCHANGED <<people, session, request, opened, revoked>>

InviteOperator(u, k) ==
  /\ Alone /\ SomeoneOnConsole
  /\ Sends(k, [NoLinkYet EXCEPT !.kind = "invite", !.user = u, !.operator = TRUE])
  /\ UNCHANGED <<people, session, request, opened, revoked>>

(* forgot, ui_reset *)
SendReset(u, k) ==
  /\ Alone /\ person[u].known
  /\ Sends(k, [NoLinkYet EXCEPT !.kind = "reset", !.user = u])
  /\ UNCHANGED <<people, session, request, opened, revoked>>

RevokeAll(ks) ==
  /\ link' = [j \in Link |-> IF j \in ks THEN [link[j] EXCEPT !.kind = "gone"] ELSE link[j]]
  /\ revoked' = revoked \cup ks

Revoke(k) ==
  /\ Alone /\ link[k].kind = "invite"
  /\ IF link[k].room = Nowhere THEN SomeoneOnConsole ELSE Managed(link[k].room)
  /\ RevokeAll({k})
  /\ UNCHANGED <<people, session, request, opened>>

(* invite_again, resend: a new link, and the ones sent before stop working.*)
Resend(u, r, k) ==
  LET old == {j \in Link : link[j].kind = "invite" /\ link[j].user = u /\ link[j].room = r}
      as == IF role[u][r] # NoRole THEN role[u][r] ELSE link[CHOOSE j \in old : TRUE].role
  IN /\ Alone /\ Exists(r) /\ Managed(r) /\ Unused(k)
     /\ old # {} \/ (role[u][r] # NoRole /\ ~person[u].password)
     /\ link' = [j \in Link |-> IF j = k THEN Invitation(u, r, as)
                                ELSE IF j \in old THEN [link[j] EXCEPT !.kind = "gone"] ELSE link[j]]
     /\ revoked' = revoked \cup old
     /\ UNCHANGED <<people, session, request, opened>>

(* accept, complete_setup: the link is looked up, *)
LooksUp(q, k, u) ==
  /\ request[q] = AtRest /\ Usable(k)
  /\ IF link[k].kind = "setup" THEN NeedsSetup ELSE u = link[k].user
  /\ request' = [request EXCEPT ![q] = [AtRest EXCEPT !.step = "accept", !.link = k, !.user = u]]
  /\ UNCHANGED <<people, session, links>>

(* and used, with all it brings, in one transaction that only stands if    *)
(* the link is still unused; the person is then signed in.                 *)
\* A slip: the link looked up is trusted, not read again.
StillUnusedThen(k) == TRUE
StillUnused(k) == Usable(k)

Accept(q) ==
  LET x == request[q]
      k == x.link
      u == x.user
      joins == link[k].room # Nowhere /\ link[k].role # NoRole
      known == link[k].kind = "invite" /\ person[u].password  \* confirms the password it has
      me == IF known THEN person[u] ELSE Welcomed(u)
      kept == IF link[k].kind = "reset" THEN {s \in session : s[1] # u} ELSE session
  IN /\ x.step = "accept" /\ Alone
     /\ request' = [request EXCEPT ![q] = AtRest]
     /\ IF ~StillUnused(k) \/ (joins /\ role[u][link[k].room] = "owner" /\ link[k].role # "owner"
                               /\ ~OthersOwn(u, link[k].room))
        THEN UNCHANGED <<people, session, links>>
        ELSE /\ person' = [person EXCEPT ![u] = [me EXCEPT !.operator = @ \/ link[k].operator]]
             /\ role' = IF joins THEN [role EXCEPT ![u][link[k].room] = link[k].role] ELSE role
             /\ link' = [link EXCEPT ![k].kind = "gone"]
             /\ opened' = [opened EXCEPT ![k] = @ + 1]
             /\ launched' = (launched \/ link[k].operator)
             /\ session' = kept \cup {<<u, link[k].room>>}
             /\ UNCHANGED <<open, revoked, byHand>>

-----------------------------------------------------------------------------
(* Signing in and out; of authenticate only the right password counts.     *)
SignIn(u, x) ==
  /\ Alone /\ person[u].password
  /\ x # Nowhere => RoleIn(u, x) # NoRole
  /\ session' = session \cup {<<u, x>>}
  /\ UNCHANGED <<people, links, request>>

SignOut(s) ==
  /\ Alone /\ s \in session /\ session' = session \ {s}
  /\ UNCHANGED <<people, links, request>>

(* enter, switch_newsroom: a new session, and the one before ends. *)
Enter(u, from, r) ==
  /\ Alone /\ <<u, from>> \in session /\ from # r
  /\ IF person[u].operator THEN Exists(r) ELSE open[r] = "on" /\ role[u][r] # NoRole
  /\ session' = (session \ {<<u, from>>}) \cup {<<u, r>>}
  /\ UNCHANGED <<people, links, request>>

-----------------------------------------------------------------------------
(* change_role, remove_member (the role "none"), remove_operator: the      *)
(* others are counted, and then the row is written.                        *)
Demote(q, u, r, as) ==
  /\ Alone /\ request[q] = AtRest /\ Exists(r) /\ Managed(r) /\ role[u][r] \notin {NoRole, as}
  /\ role[u][r] = "owner" => OthersOwn(u, r)
  /\ request' = [request EXCEPT ![q] = [AtRest EXCEPT !.step = "demote", !.user = u, !.room = r, !.role = as]]
  /\ UNCHANGED <<people, session, links>>

Demoted(q) ==
  LET x == request[q]
  IN /\ x.step = "demote"
     /\ role' = IF role[x.user][x.room] = NoRole THEN role ELSE [role EXCEPT ![x.user][x.room] = x.role]
     /\ session' = IF x.role = NoRole THEN session \ {<<x.user, x.room>>} ELSE session
     /\ request' = [request EXCEPT ![q] = AtRest]
     /\ UNCHANGED <<person, open, links, launched, byHand>>

Oust(q, u) ==
  /\ Alone /\ request[q] = AtRest /\ (\E by \in User \ {u} : OnConsole(by)) /\ person[u].operator
  /\ Cardinality(Operators) > 1
  /\ request' = [request EXCEPT ![q] = [AtRest EXCEPT !.step = "oust", !.user = u]]
  /\ UNCHANGED <<people, session, links>>

Ousted(q) ==
  /\ request[q].step = "oust"
  /\ person' = [person EXCEPT ![request[q].user].operator = FALSE]
  /\ session' = session \ {<<request[q].user, Nowhere>>}
  /\ request' = [request EXCEPT ![q] = AtRest]
  /\ UNCHANGED <<role, open, links, launched, byHand>>

(* Who offers what: the command line and the first start, the pages open  *)
(* to everybody, a newsroom's page of its people, the console.             *)
CommandLine ==
  \/ \E k \in Link : SetupLink(k)
  \/ \E u \in User : FirstAdmin(u) \/ \E r \in Room \cup {Nowhere}, as \in Roles : AddUser(u, r, as)

PublicPages ==
  \/ \E u \in User, k \in Link : SendReset(u, k) \/ \E q \in Page : LooksUp(q, k, u)
  \/ \E q \in Page : Accept(q)
  \/ \E u \in User, x \in Room \cup {Nowhere} : SignIn(u, x) \/ \E r \in Room : Enter(u, x, r)
  \/ \E s \in session : SignOut(s)

PeoplePages ==
  \/ \E k \in Link :
       Revoke(k) \/ \E u \in User, r \in Room : Resend(u, r, k) \/ \E as \in Roles : Invite(u, r, as, k)
  \/ \E q \in Page :
       Demoted(q) \/ \E u \in User, r \in Room, as \in Roles \cup {NoRole} : Demote(q, u, r, as)

ConsolePeople ==
  \/ \E r \in Room : SuspendRoom(r) \/ DeleteRoom(r) \/ \E u \in User, k \in Link : CreateRoom(u, r, k)
  \/ \E u \in User : (\E k \in Link : InviteOperator(u, k)) \/ \E q \in Page : Oust(q, u)
  \/ \E q \in Page : Ousted(q)

AccountsNext == CommandLine \/ PublicPages \/ PeoplePages \/ ConsolePeople

AccountsSpec == AccountsInit /\ [][AccountsNext]_accountVars

-----------------------------------------------------------------------------
(* Every row holds what the code may write in it. *)
AccountsTypeOK ==
  /\ \A u \in User : person[u].operator \/ person[u].password => person[u].known
  /\ role \in [User -> [Room -> Roles \cup {NoRole}]]
  /\ session \subseteq User \X (Room \cup {Nowhere})
  /\ \A k \in Link : link[k].kind \in {"none", "invite", "reset", "setup", "gone"}

(* Whoever is removed, demoted or joins with a lower role, a newsroom that *)
(* exists keeps an owner, and once there was an operator there is one      *)
(* (_keep_an_owner, remove_operator).                                      *)
SomeoneInCharge ==
  /\ \A r \in Room : Exists(r) => Owners(r) # {}
  /\ launched => Operators # {}

(* A link takes effect at most once, and never after it was taken back or  *)
(* replaced by a new one, also when two pages of it are open (accept).     *)
LinksOpenOnce == \A k \in Link : opened[k] + (IF k \in revoked THEN 1 ELSE 0) <= 1
=============================================================================
