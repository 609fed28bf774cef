----------------------------- MODULE Publishing -----------------------------
(***************************************************************************)
(* Publications of the Editor Mode (editor-mode/src/editor/publishing.py,  *)
(* with the endpoints of ui.py and api.py that ask for them and the jobs   *)
(* of work.py that run them).                                              *)
(*                                                                         *)
(* An editor asks to publish an approved draft at a destination, a         *)
(* director decides, a job of the queue sends it.  The director updates    *)
(* or withdraws what is published.  The site is another system: a request  *)
(* reaches it or not, and its answer comes back or is lost.  Every action  *)
(* is one transaction of the code, or one step of a request to the site.   *)
(*                                                                         *)
(* The jobs are what JobQueue promises: one per asked work, run by one     *)
(* worker unless it was interrupted, in which case it is queued again      *)
(* while its first run may still go on.                                    *)
(***************************************************************************)
EXTENDS Naturals, FiniteSets

CONSTANTS
  Articles,        \* a draft at a destination, in a mode: what may be there once
  OriginalOf,      \* [Articles -> Articles]: drafts.translation_of, or itself
  Repositories,    \* articles whose destination is a GitHub repository
  Pubs,            \* ids of the table publications, in the order given
  Directors,       \* requests of directors being served
  Workers,
  LastVersion,     \* bound: [Articles -> Nat], texts of a draft
  MaxWaiting,      \* bound: changes of published articles that wait at once
  MaxTries,        \* 1 + the pauses of GITHUB_AGAIN
  DecisionsRace,   \* transactions of decide overlap (PostgreSQL)
  ChangesOverlap,  \* two changes of a newsroom run together (PostgreSQL)
  DashboardDies,   \* the dashboard may stop between two transactions
  MaxFaults        \* bound: crashes, interruptions and lost answers

ASSUME PublishingAssumption ==
  /\ Articles # {} /\ Pubs \subseteq Nat \ {0}
  /\ OriginalOf \in [Articles -> Articles]
  /\ Repositories \subseteq Articles
  /\ LastVersion \in [Articles -> Nat \ {0}]
  /\ MaxWaiting \in Nat /\ MaxTries \in Nat \ {0} /\ MaxFaults \in Nat
  /\ {DecisionsRace, ChangesOverlap, DashboardDies} \subseteq BOOLEAN

VARIABLES
  draft,    \* [Articles -> [approved, version]]
  pubs,     \* table publications
  looking,  \* [Directors -> the publication read as pending, 0 is none]
  asking,   \* decisions committed whose job is not queued yet
  queue,    \* waiting jobs: <<kind, publication>>
  task,     \* [Workers -> the job being run]
  site,     \* [Pubs -> what the destination has of it]
  sanctioned, \* history: <<article, version>> approved by a person
  yes,      \* history: publications a person said yes to
  faults

vars == <<draft, pubs, looking, asking, queue, task, site, sanctioned, yes, faults>>
people == <<draft, looking, sanctioned, yes>>

-----------------------------------------------------------------------------
Versions == UNION {1..LastVersion[a] : a \in Articles}
Live == {"pending_approval", "approved", "sending", "published"}
Kinds == {"publish", "update", "withdraw"}

Publication == [status : {"none", "rejected", "failed"} \cup Live, article : Articles,
                version : Versions, withdrawn : BOOLEAN, error : BOOLEAN]

\* copies: how many posts the destination made of it (two are too many).
Post == [copies : 0..2, version : Versions, online : BOOLEAN]

\* at: the publication being changed; rest: translations still to withdraw.
Task == [kind : Kinds \cup {"none"}, pub : Pubs \cup {0}, loose : BOOLEAN,
         pc : {"idle", "taken", "send", "arrived"},
         at : Pubs \cup {0}, version : Versions, tries : 1..MaxTries, rest : SUBSET Pubs]

NoTask == [kind |-> "none", pub |-> 0, loose |-> FALSE, pc |-> "idle", at |-> 0,
           version |-> 1, tries |-> 1, rest |-> {}]

Status(p) == pubs[p].status
Article(p) == pubs[p].article
Busy(w) == task[w].kind # "none"
At(w, pc) == task[w].pc = pc
Sends(w) == task[w].kind = "publish"
Changes(w) == task[w].kind \in {"update", "withdraw"}
Go(w, pc) == task' = [task EXCEPT ![w] = [task[w] EXCEPT !.pc = pc]]
Ends(w) == task' = [task EXCEPT ![w] = NoTask]

InRepository(p) == Article(p) \in Repositories

\* Where a publication is at its destination: a post of its own, but in a
\* repository the article's file, whichever publication put it there.
Place(p) ==
  LET files == {q \in Pubs : site[q].copies > 0 /\ Article(q) = Article(p)}
  IN IF InRepository(p) /\ files # {} THEN CHOOSE q \in files : TRUE ELSE p

\* The unique index publications_once.
LiveOf(a) == {p \in Pubs : Article(p) = a /\ Status(p) \in Live}

Fault == faults < MaxFaults /\ faults' = faults + 1

-----------------------------------------------------------------------------
(* The draft *)

\* edit, edit_text: an approved draft goes back to be approved.
EditDraft(a) ==
  /\ draft[a].version < LastVersion[a]
  /\ draft' = [draft EXCEPT ![a] = [approved |-> FALSE, version |-> draft[a].version + 1]]
  /\ UNCHANGED <<pubs, looking, asking, queue, task, site, sanctioned, yes, faults>>

\* drafts.decide, a yes (a rejected draft stays what it is for publications:
\* not approved, until it is edited).
ApproveDraft(a) ==
  /\ ~draft[a].approved
  /\ draft' = [draft EXCEPT ![a] = [draft[a] EXCEPT !.approved = TRUE]]
  /\ sanctioned' = sanctioned \cup {<<a, draft[a].version>>}
  /\ UNCHANGED <<pubs, looking, asking, queue, task, site, yes, faults>>

-----------------------------------------------------------------------------
(* Asking and deciding *)

\* request: the text is taken now; the index refuses a second live row.
Request(a) ==
  /\ draft[a].approved
  /\ LiveOf(a) = {}
  /\ \E p \in Pubs :
       /\ Status(p) = "none"
       /\ \A q \in Pubs : q < p => Status(q) # "none"
       /\ pubs' = [pubs EXCEPT ![p] =
            [status |-> "pending_approval", article |-> a, version |-> draft[a].version,
             withdrawn |-> FALSE, error |-> FALSE]]
  /\ UNCHANGED <<draft, looking, asking, queue, task, site, sanctioned, yes, faults>>

\* decide, the SELECT: only what is pending.
Look(d, p) ==
  /\ looking[d] = 0
  /\ DecisionsRace \/ \A e \in Directors : looking[e] = 0
  /\ Status(p) = "pending_approval"
  /\ looking' = [looking EXCEPT ![d] = p]
  /\ UNCHANGED <<draft, pubs, asking, queue, task, site, sanctioned, yes, faults>>

\* decide, the UPDATE: of the row's id and nothing else.
Decide(d, answer) ==
  /\ looking[d] # 0
  /\ LET p == looking[d] IN
       /\ pubs' = [pubs EXCEPT ![p] = [pubs[p] EXCEPT !.status = answer]]
       /\ asking' = IF answer = "approved" THEN asking \cup {p} ELSE asking
       /\ yes' = IF answer = "approved" THEN yes \cup {p} ELSE yes
  /\ looking' = [looking EXCEPT ![d] = 0]
  /\ UNCHANGED <<draft, queue, task, site, sanctioned, faults>>

\* run_publication, publish_job: the job of an approved publication.
Enqueue(p) ==
  /\ p \in asking
  /\ asking' = asking \ {p}
  /\ queue' = queue \cup {<<"publish", p>>}
  /\ UNCHANGED <<draft, pubs, looking, task, site, sanctioned, yes, faults>>

\* The process that serves the director stops between the two transactions.
DashboardStops ==
  /\ DashboardDies /\ Fault
  /\ asking # {} \/ \E d \in Directors : looking[d] # 0
  /\ asking' = {}
  /\ looking' = [d \in Directors |-> 0]
  /\ UNCHANGED <<draft, pubs, queue, task, site, sanctioned, yes>>

\* mark_uncertain_failed, by a person who looked at the site and found nothing.
MarkUncertain(p) ==
  /\ Status(p) = "sending"
  /\ ~site[Place(p)].online
  /\ pubs' = [pubs EXCEPT ![p] = [pubs[p] EXCEPT !.status = "failed", !.error = TRUE]]
  /\ UNCHANGED <<draft, looking, asking, queue, task, site, sanctioned, yes, faults>>

\* ui_pub_update, ui_pub_withdraw: the director's change of a published article.
AskChange(kind, p) ==
  /\ Status(p) = "published"
  /\ kind = "update" => draft[Article(p)].approved
  /\ Cardinality({job \in queue : job[1] # "publish"}) < MaxWaiting
  /\ queue' = queue \cup {<<kind, p>>}
  /\ UNCHANGED <<draft, pubs, looking, asking, task, site, sanctioned, yes, faults>>

-----------------------------------------------------------------------------
(* A worker takes a job *)

SameJob(w, job) == <<task[w].kind, task[w].pub>> = job

Take(w) ==
  /\ ~Busy(w)
  /\ \E job \in queue :
       /\ \A v \in Workers : SameJob(v, job) => task[v].loose
       /\ job[1] # "publish" /\ ~ChangesOverlap => \A v \in Workers : ~Changes(v)
       /\ queue' = queue \ {job}
       /\ task' = [task EXCEPT ![w] = [NoTask EXCEPT !.kind = job[1], !.pub = job[2],
                                                     !.pc = "taken"]]
  /\ UNCHANGED <<people, pubs, asking, site, faults>>

\* The run is cut short (its process is gone, or its row was taken from it
\* and it goes on): the row is queued again.  It has attempts left as long as
\* MaxFaults is below the attempts of a row (3).
Interrupted(w) ==
  /\ Busy(w) /\ ~task[w].loose /\ Fault
  /\ queue' = queue \cup {<<task[w].kind, task[w].pub>>}
  /\ \/ Ends(w)
     \/ /\ Sends(w) \/ ChangesOverlap
        /\ task' = [task EXCEPT ![w] = [task[w] EXCEPT !.loose = TRUE]]
  /\ UNCHANGED <<people, pubs, asking, site>>

\* The process of a run that went on is gone.
LooseEnds(w) ==
  /\ task[w].loose
  /\ Ends(w)
  /\ UNCHANGED <<people, pubs, asking, queue, site, faults>>

-----------------------------------------------------------------------------
(* Publisher.run *)

\* A slip: whatever is on its way out may be sent.
MayResend(p) == Status(p) \in {"approved", "sending"}

MaySend(p) == Status(p) = "approved"

\* "approved" becomes "sending" before the request leaves; a job that finds
\* it sent, being sent, or not approved sends nothing.
ClaimSend(w) ==
  /\ Sends(w) /\ At(w, "taken")
  /\ LET p == task[w].pub IN
       IF MaySend(p)
       THEN /\ pubs' = [pubs EXCEPT ![p] = [pubs[p] EXCEPT !.status = "sending"]]
            /\ task' = [task EXCEPT ![w] =
                 [task[w] EXCEPT !.pc = "send", !.at = p, !.version = pubs[p].version]]
       ELSE Ends(w) /\ UNCHANGED pubs
  /\ UNCHANGED <<people, asking, queue, site, faults>>

\* A post more; the file of a repository is one.
Posted(p, version) ==
  [copies |-> IF InRepository(p) \/ site[p].copies = 0 THEN 1 ELSE 2,
   version |-> version, online |-> TRUE]

\* The destination makes the post, or takes the commit; the file that is
\* there already with this text counts as sent, with another it is an error.
Arrive(w) ==
  /\ Sends(w) /\ At(w, "send")
  /\ LET p == task[w].at
         place == Place(p)
     IN IF InRepository(p) /\ site[place].online
        THEN site[place].version = task[w].version /\ UNCHANGED site
        ELSE site' = [site EXCEPT ![place] = Posted(p, task[w].version)]
  /\ Go(w, "arrived")
  /\ UNCHANGED <<people, pubs, asking, queue, faults>>

\* The request is refused or does not get there, or the answer to what was
\* done does not come back.
Fails(w) ==
  \/ At(w, "send") /\ UNCHANGED faults
  \/ At(w, "arrived") /\ Fault

\* A slip: one pause too many.
RetriesOnceMore(w) ==
  Sends(w) /\ InRepository(task[w].at) /\ task[w].tries <= MaxTries

MayRetry(w) == Sends(w) /\ InRepository(task[w].at) /\ task[w].tries < MaxTries

\* A hiccup of GitHub: the whole publication once more.
Again(w) ==
  /\ Fails(w) /\ MayRetry(w)
  /\ task' = [task EXCEPT ![w] = [task[w] EXCEPT !.pc = "send", !.tries = task[w].tries + 1]]
  /\ UNCHANGED <<people, pubs, asking, queue, site>>

\* The last transaction of run.  The row is found by its id; the index
\* refuses "published" where the article was asked for again (IntegrityError).
Sent(w) ==
  /\ Sends(w) /\ At(w, "arrived")
  /\ LET p == task[w].pub IN
       pubs' = IF LiveOf(Article(p)) \subseteq {p}
               THEN [pubs EXCEPT ![p] = [pubs[p] EXCEPT !.status = "published", !.error = FALSE]]
               ELSE pubs
  /\ Ends(w)
  /\ UNCHANGED <<people, asking, queue, site, faults>>

NotSent(w) ==
  /\ Sends(w) /\ Fails(w)
  /\ pubs' = [pubs EXCEPT ![task[w].pub] =
                [pubs[task[w].pub] EXCEPT !.status = "failed", !.error = TRUE]]
  /\ Ends(w)
  /\ UNCHANGED <<people, asking, queue, site>>

-----------------------------------------------------------------------------
(* update and withdraw *)

Change(w, p, version, rest) ==
  task' = [task EXCEPT ![w] = [task[w] EXCEPT !.pc = "send", !.at = p,
                                              !.version = version, !.rest = rest]]

\* A slip: the text of the draft, whoever has seen it.
MayChange(p) == Status(p) = "published"

MayUpdate(p) == Status(p) = "published" /\ draft[Article(p)].approved

\* update: the text online is the draft's, if it is approved now.
ReadUpdate(w) ==
  /\ task[w].kind = "update" /\ At(w, "taken")
  /\ LET p == task[w].pub IN
       IF MayUpdate(p) THEN Change(w, p, draft[Article(p)].version, {}) ELSE Ends(w)
  /\ UNCHANGED <<people, pubs, asking, queue, site, faults>>

\* The publication and those of its translations that are online.
Family(p) ==
  {p} \cup {q \in Pubs : /\ Article(q) # Article(p) /\ OriginalOf[Article(q)] = Article(p)
                         /\ Status(q) = "published"}

\* withdraw: one after the other, but for what is withdrawn already.
ReadWithdraw(w) ==
  /\ task[w].kind = "withdraw" /\ At(w, "taken")
  /\ LET p == task[w].pub
         family == {q \in Family(p) : ~pubs[q].withdrawn}
     IN IF Status(p) # "published" \/ family = {} THEN Ends(w)
        ELSE \E q \in family : /\ p \in family => q = p
                               /\ Change(w, q, 1, family \ {q})
  /\ UNCHANGED <<people, pubs, asking, queue, site, faults>>

\* The destination replaces the article, or takes it off (gone counts too).
ChangeArrives(w) ==
  /\ Changes(w) /\ At(w, "send")
  /\ LET p == Place(task[w].at) IN
       site' = [site EXCEPT ![p] =
         IF task[w].kind = "update"
         THEN [site[p] EXCEPT !.version = task[w].version, !.online = TRUE]
         ELSE [site[p] EXCEPT !.online = FALSE]]
  /\ Go(w, "arrived")
  /\ UNCHANGED <<people, pubs, asking, queue, faults>>

\* The next translation to withdraw, or the end of the job.
Goes(w) ==
  IF task[w].rest = {} THEN Ends(w)
  ELSE \E q \in task[w].rest : Change(w, q, 1, task[w].rest \ {q})

Written(row, kind, version) ==
  IF kind = "update"
  THEN [row EXCEPT !.version = version, !.withdrawn = FALSE, !.error = FALSE]
  ELSE [row EXCEPT !.withdrawn = TRUE, !.error = FALSE]

Changed(w) ==
  /\ Changes(w) /\ At(w, "arrived")
  /\ LET p == task[w].at IN
       pubs' = [pubs EXCEPT ![p] = Written(pubs[p], task[w].kind, task[w].version)]
  /\ Goes(w)
  /\ UNCHANGED <<people, asking, queue, site, faults>>

\* A slip: the error is only logged.
FailedQuietly(row) == row

FailedChange(row) == [row EXCEPT !.error = TRUE]

\* _change: the error is written, the row stays published.
NotChanged(w) ==
  /\ Changes(w) /\ Fails(w)
  /\ pubs' = [pubs EXCEPT ![task[w].at] = FailedChange(pubs[task[w].at])]
  /\ Goes(w)
  /\ UNCHANGED <<people, asking, queue, site>>

-----------------------------------------------------------------------------
Init ==
  /\ draft = [a \in Articles |-> [approved |-> FALSE, version |-> 1]]
  /\ pubs = [p \in Pubs |-> [status |-> "none", article |-> CHOOSE a \in Articles : TRUE,
                             version |-> 1, withdrawn |-> FALSE, error |-> FALSE]]
  /\ looking = [d \in Directors |-> 0]
  /\ asking = {}
  /\ queue = {}
  /\ task = [w \in Workers |-> NoTask]
  /\ site = [p \in Pubs |-> [copies |-> 0, version |-> 1, online |-> FALSE]]
  /\ sanctioned = {}
  /\ yes = {}
  /\ faults = 0

\* What a worker does by itself.
Work(w) ==
  \/ ClaimSend(w) \/ Arrive(w) \/ Again(w) \/ Sent(w) \/ NotSent(w)
  \/ ReadUpdate(w) \/ ReadWithdraw(w) \/ ChangeArrives(w)
  \/ Changed(w) \/ NotChanged(w)

Next ==
  \/ \E a \in Articles : EditDraft(a) \/ ApproveDraft(a) \/ Request(a)
  \/ \E d \in Directors, p \in Pubs : Look(d, p)
  \/ \E d \in Directors, answer \in {"approved", "rejected"} : Decide(d, answer)
  \/ \E p \in Pubs : Enqueue(p) \/ MarkUncertain(p)
  \/ \E kind \in {"update", "withdraw"}, p \in Pubs : AskChange(kind, p)
  \/ DashboardStops
  \/ \E w \in Workers : Take(w) \/ Work(w) \/ Interrupted(w) \/ LooseEnds(w)

Spec == Init /\ [][Next]_vars

\* The dashboard finishes what it began, a free worker takes a job in the end
\* (JobQueue's EveryJobEnds), and what it runs goes on.
Fairness ==
  /\ \A p \in Pubs : WF_vars(Enqueue(p))
  /\ \A w \in Workers : /\ SF_vars(Take(w))
                        /\ WF_vars(Work(w)) /\ WF_vars(LooseEnds(w))

FairSpec == Spec /\ Fairness
-----------------------------------------------------------------------------
(* Properties *)

\* Every variable has its type.
TypeOK ==
  /\ draft \in [Articles -> [approved : BOOLEAN, version : Versions]]
  /\ pubs \in [Pubs -> Publication]
  /\ looking \in [Directors -> Pubs \cup {0}]
  /\ asking \subseteq Pubs
  /\ queue \subseteq Kinds \X Pubs
  /\ task \in [Workers -> Task]
  /\ site \in [Pubs -> Post]
  /\ sanctioned \subseteq Articles \X Versions
  /\ yes \subseteq Pubs
  /\ faults \in 0..MaxFaults

\* "Never one that is silently sent twice": whatever is interrupted, retried,
\* lost or queued again, a destination makes one post of a publication.
NotRepeated == \A p \in Pubs : site[p].copies <= 1

\* "What goes online is what a person approved": of whatever a destination
\* shows, a person approved the text, and a person approved the publication,
\* though drafts are edited while requests wait, are sent or are repeated.
OnlineIsApproved ==
  \A p \in Pubs : site[p].copies > 0 =>
    p \in yes /\ <<Article(p), site[p].version>> \in sanctioned

\* A change of the publication is asked for or under way.
Changing(p) ==
  \/ <<"update", p>> \in queue \/ \E o \in Pubs : <<"withdraw", o>> \in queue
  \/ \E w \in Workers : Changes(w)

\* A published article that is not withdrawn, and whose last change reports no
\* error, is on the site: no change cut short half-way leaves it off unseen.
PublishedIsOnline ==
  \A p \in Pubs :
    /\ Status(p) = "published" /\ ~pubs[p].withdrawn /\ ~pubs[p].error
    /\ ~Changing(p)
    => site[Place(p)].online

\* publications.withdrawn_at, "taken off the site": an article withdrawn with
\* no error and no change under way is not online.
WithdrawnIsOffline ==
  \A p \in Pubs : pubs[p].withdrawn /\ ~pubs[p].error /\ ~Changing(p) => ~site[Place(p)].online

\* "A restart of the dashboard or of the worker loses nothing": a publication
\* a director approved does not stay approved for ever.
ApprovedIsSent == \A p \in Pubs : Status(p) = "approved" ~> Status(p) # "approved"
=============================================================================
