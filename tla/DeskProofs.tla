-------------------------- MODULE DeskProofs --------------------------
(***************************************************************************)
(* What the Editor Mode guarantees about what goes online, for every set   *)
(* of articles, publications, directors and workers, every number of       *)
(* texts, tries, crashes, interruptions and lost answers.                  *)
(***************************************************************************)
EXTENDS MCDesk, TLAPS, FiniteSetTheorems

(***************************************************************************)
(* Invariant: what is known of drafts, publications, requests and tasks.   *)
(***************************************************************************)

Statuses == {"none", "rejected", "failed"} \cup Live
Steps == {"idle", "taken", "send", "arrived"}
Decided == {"approved", "sending", "published", "failed"}

Recorded(p) == p \in Pubs /\ Status(p) # "none"
Sanctioned(p, version) == <<Article(p), version>> \in sanctioned
Working(w) == task[w].pc \in {"send", "arrived"}

\* The text of an approved draft is one a person approved.
DraftsOK ==
  \A a \in Articles : draft[a].approved => <<a, draft[a].version>> \in sanctioned

\* A publication is of a text a person approved, and sent after a yes; so is
\* what the site has of it.
RowOK(p) ==
  /\ Recorded(p) => Sanctioned(p, pubs[p].version)
  /\ Status(p) \in Decided => p \in yes
  /\ Status(p) = "none" => site[p].copies = 0
  /\ site[p].copies > 0 => p \in yes /\ Sanctioned(p, site[p].version)

\* What is read, asked for or queued is of publications that exist.
AskedOK ==
  /\ \A d \in Directors : looking[d] # 0 => Recorded(looking[d])
  /\ \A p \in asking : Recorded(p)
  /\ \A job \in queue : Recorded(job[2])

\* A task sends the publication of its job, and a text that was approved.
TaskOK(w) ==
  /\ Busy(w) <=> ~At(w, "idle")
  /\ Busy(w) => Recorded(task[w].pub)
  /\ Working(w) => Recorded(task[w].at)
  /\ Working(w) /\ Sends(w) => task[w].at = task[w].pub /\ task[w].at \in yes
  /\ Working(w) /\ task[w].kind # "withdraw" => Sanctioned(task[w].at, task[w].version)
  /\ task[w].kind # "withdraw" => task[w].rest = {}
  /\ \A q \in task[w].rest : Recorded(q)

RowsOK == \A p \in Pubs : RowOK(p)
TasksOK == \A w \in Workers : TaskOK(w)

IInv == TypeOK /\ DraftsOK /\ RowsOK /\ AskedOK /\ TasksOK

-----------------------------------------------------------------------------
USE PublishingAssumption DEF Live, Kinds, Statuses, Steps

\* What the operators on tasks, rows and versions return.
LEMMA Values ==
  /\ 0 \notin Pubs /\ Pubs \subseteq Nat /\ 1 \in Versions
  /\ \A a \in Articles : \A n \in 1..LastVersion[a] : n \in Versions
  /\ NoTask \in Task /\ NoTask.kind = "none" /\ NoTask.pc = "idle" /\ NoTask.at = 0
  /\ NoTask.rest = {} /\ ~NoTask.loose
  <1>1. \A a \in Articles : \A n \in 1..LastVersion[a] : n \in Versions
    BY DEF Versions
  <1>2. PICK a \in Articles : TRUE
    OBVIOUS
  <1>3. 1 \in Versions
    BY <1>1, <1>2
  <1>4. 1 \in 1..MaxTries
    OBVIOUS
  <1>5. NoTask \in Task
    BY <1>3, <1>4 DEF NoTask, Task
  <1>6. QED  BY <1>1, <1>3, <1>5 DEF NoTask

\* One task is another, the rest stay.
LEMMA TaskIs ==
  ASSUME TypeOK, NEW w \in Workers, NEW a \in Task, task' = [task EXCEPT ![w] = a]
  PROVE  /\ task' \in [Workers -> Task] /\ task'[w] = a
         /\ \A v \in Workers \ {w} : task'[v] = task[v]
  BY DEF TypeOK

LEMMA GoValue ==
  ASSUME TypeOK, NEW w \in Workers, NEW pc \in Steps, Go(w, pc)
  PROVE  /\ task' \in [Workers -> Task] /\ task'[w].pc = pc
         /\ task'[w].kind = task[w].kind /\ task'[w].pub = task[w].pub
         /\ task'[w].loose = task[w].loose /\ task'[w].at = task[w].at
         /\ task'[w].version = task[w].version /\ task'[w].rest = task[w].rest
         /\ \A v \in Workers \ {w} : task'[v] = task[v]
  <1>1. task[w] \in Task
    BY DEF TypeOK
  <1> DEFINE a == [task[w] EXCEPT !.pc = pc]
  <1>2. /\ a \in Task /\ a.pc = pc /\ a.kind = task[w].kind /\ a.pub = task[w].pub
        /\ a.loose = task[w].loose /\ a.at = task[w].at
        /\ a.version = task[w].version /\ a.rest = task[w].rest
    BY <1>1 DEF Task
  <1>3. task' = [task EXCEPT ![w] = a]
    BY DEF Go
  <1> HIDE DEF a
  <1>4. QED  BY <1>2, <1>3, TaskIs

LEMMA EndsValue ==
  ASSUME TypeOK, NEW w \in Workers, Ends(w)
  PROVE  /\ task' \in [Workers -> Task] /\ task'[w] = NoTask
         /\ \A v \in Workers \ {w} : task'[v] = task[v]
  BY Values, TaskIs DEF Ends

LEMMA ChangeValue ==
  ASSUME TypeOK, NEW w \in Workers, NEW p \in Pubs, NEW version \in Versions,
         NEW rest \in SUBSET Pubs, Change(w, p, version, rest)
  PROVE  /\ task' \in [Workers -> Task] /\ task'[w].pc = "send"
         /\ task'[w].kind = task[w].kind /\ task'[w].pub = task[w].pub
         /\ task'[w].loose = task[w].loose /\ task'[w].at = p
         /\ task'[w].version = version /\ task'[w].rest = rest
         /\ \A v \in Workers \ {w} : task'[v] = task[v]
  <1>1. task[w] \in Task
    BY DEF TypeOK
  <1> DEFINE a == [task[w] EXCEPT !.pc = "send", !.at = p, !.version = version,
                                  !.rest = rest]
  <1>2. /\ a \in Task /\ a.pc = "send" /\ a.kind = task[w].kind /\ a.pub = task[w].pub
        /\ a.loose = task[w].loose /\ a.at = p
        /\ a.version = version /\ a.rest = rest
    BY <1>1 DEF Task
  <1>3. task' = [task EXCEPT ![w] = a]
    BY DEF Change
  <1> HIDE DEF a
  <1>4. QED  BY <1>2, <1>3, TaskIs

\* A job is taken.
LEMMA TakeValue ==
  ASSUME TypeOK, NEW w \in Workers, Take(w)
  PROVE  \E job \in queue :
           /\ queue' = queue \ {job}
           /\ job[1] # "publish" /\ ~ChangesOverlap => \A v \in Workers : ~Changes(v)
           /\ job[1] \in Kinds /\ job[2] \in Pubs
           /\ task' \in [Workers -> Task] /\ task'[w].pc = "taken"
           /\ task'[w].kind = job[1] /\ task'[w].pub = job[2]
           /\ task'[w].at = 0 /\ task'[w].rest = {} /\ ~task'[w].loose
           /\ \A v \in Workers \ {w} : task'[v] = task[v]
  <1> DEFINE A(job) == [NoTask EXCEPT !.kind = job[1], !.pub = job[2], !.pc = "taken"]
  <1>1. PICK job \in queue :
          /\ queue' = queue \ {job}
          /\ job[1] # "publish" /\ ~ChangesOverlap => \A v \in Workers : ~Changes(v)
          /\ task' = [task EXCEPT ![w] = A(job)]
    BY DEF Take
  <1>2. job[1] \in Kinds /\ job[2] \in Pubs
    BY DEF TypeOK
  <1>3. /\ A(job) \in Task /\ A(job).kind = job[1] /\ A(job).pub = job[2]
        /\ A(job).pc = "taken" /\ A(job).at = 0 /\ A(job).rest = {}
        /\ ~A(job).loose
    BY <1>2, Values DEF Task, NoTask
  <1> HIDE DEF A
  <1>4. QED  BY <1>1, <1>2, <1>3, TaskIs

\* A publication is claimed: it is now being sent, as it was asked for.
LEMMA ClaimValue ==
  ASSUME TypeOK, NEW w \in Workers, NEW p \in Pubs,
         task' = [task EXCEPT ![w] = [task[w] EXCEPT !.pc = "send", !.at = p,
                                                     !.version = pubs[p].version]]
  PROVE  /\ task' \in [Workers -> Task] /\ task'[w].pc = "send"
         /\ task'[w].kind = task[w].kind /\ task'[w].pub = task[w].pub
         /\ task'[w].loose = task[w].loose /\ task'[w].at = p
         /\ task'[w].version = pubs[p].version /\ task'[w].rest = task[w].rest
         /\ \A v \in Workers \ {w} : task'[v] = task[v]
  <1>1. task[w] \in Task /\ pubs[p].version \in Versions
    BY DEF TypeOK, Publication
  <1> DEFINE a == [task[w] EXCEPT !.pc = "send", !.at = p, !.version = pubs[p].version]
  <1>2. /\ a \in Task /\ a.pc = "send" /\ a.kind = task[w].kind /\ a.pub = task[w].pub
        /\ a.loose = task[w].loose /\ a.at = p
        /\ a.version = pubs[p].version /\ a.rest = task[w].rest
    BY <1>1 DEF Task
  <1>3. task' = [task EXCEPT ![w] = a]
    OBVIOUS
  <1> HIDE DEF a
  <1>4. QED  BY <1>2, <1>3, TaskIs

\* A try more of the same sending.
LEMMA AgainValue ==
  ASSUME TypeOK, NEW w \in Workers, Again(w)
  PROVE  /\ task' \in [Workers -> Task] /\ task'[w].pc = "send"
         /\ task'[w].kind = task[w].kind /\ task'[w].pub = task[w].pub
         /\ task'[w].loose = task[w].loose /\ task'[w].at = task[w].at
         /\ task'[w].version = task[w].version /\ task'[w].rest = task[w].rest
         /\ \A v \in Workers \ {w} : task'[v] = task[v]
  <1>1. task[w] \in Task
    BY DEF TypeOK
  <1>2. task[w].tries \in 1..MaxTries /\ task[w].tries < MaxTries
    BY <1>1 DEF Again, MayRetry, Task
  <1>3. task[w].tries + 1 \in 1..MaxTries
    BY <1>2
  <1> DEFINE a == [task[w] EXCEPT !.pc = "send", !.tries = task[w].tries + 1]
  <1>4. /\ a \in Task /\ a.pc = "send" /\ a.kind = task[w].kind /\ a.pub = task[w].pub
        /\ a.loose = task[w].loose /\ a.at = task[w].at
        /\ a.version = task[w].version /\ a.rest = task[w].rest
    BY <1>1, <1>3 DEF Task
  <1>5. task' = [task EXCEPT ![w] = a]
    BY DEF Again
  <1> HIDE DEF a
  <1>6. QED  BY <1>4, <1>5, TaskIs

\* A run that is cut short ends, or goes on with its row taken from it.
LEMMA InterruptedValue ==
  ASSUME TypeOK, NEW w \in Workers, Interrupted(w)
  PROVE  /\ task' \in [Workers -> Task]
         /\ \A v \in Workers \ {w} : task'[v] = task[v]
         /\ \/ task'[w] = NoTask
            \/ /\ Sends(w) \/ ChangesOverlap
               /\ task'[w].pc = task[w].pc
               /\ task'[w].kind = task[w].kind /\ task'[w].pub = task[w].pub
               /\ task'[w].at = task[w].at
               /\ task'[w].version = task[w].version /\ task'[w].rest = task[w].rest
  <1>1. task[w] \in Task
    BY DEF TypeOK
  <1> DEFINE a == [task[w] EXCEPT !.loose = TRUE]
  <1>2. /\ a \in Task /\ a.pc = task[w].pc /\ a.kind = task[w].kind
        /\ a.pub = task[w].pub /\ a.at = task[w].at
        /\ a.version = task[w].version /\ a.rest = task[w].rest
    BY <1>1 DEF Task
  <1>3. Ends(w) \/ ((Sends(w) \/ ChangesOverlap) /\ task' = [task EXCEPT ![w] = a])
    BY DEF Interrupted
  <1> HIDE DEF a
  <1>4. CASE Ends(w)
    BY <1>4, EndsValue
  <1>5. CASE (Sends(w) \/ ChangesOverlap) /\ task' = [task EXCEPT ![w] = a]
    BY <1>2, <1>5, TaskIs
  <1>6. QED  BY <1>3, <1>4, <1>5

\* One row is another, the rest stay.
LEMMA RowIs ==
  ASSUME TypeOK, NEW p \in Pubs, NEW row \in Publication,
         pubs' = [pubs EXCEPT ![p] = row]
  PROVE  /\ pubs' \in [Pubs -> Publication] /\ pubs'[p] = row
         /\ \A q \in Pubs \ {p} : pubs'[q] = pubs[q]
  BY DEF TypeOK

\* A row with another status.
LEMMA StatusValue ==
  ASSUME TypeOK, NEW p \in Pubs, NEW st \in Statuses,
         pubs' = [pubs EXCEPT ![p] = [pubs[p] EXCEPT !.status = st]]
  PROVE  /\ pubs' \in [Pubs -> Publication] /\ pubs'[p].status = st
         /\ pubs'[p].article = pubs[p].article /\ pubs'[p].version = pubs[p].version
         /\ pubs'[p].withdrawn = pubs[p].withdrawn /\ pubs'[p].error = pubs[p].error
         /\ \A q \in Pubs \ {p} : pubs'[q] = pubs[q]
  <1>1. pubs[p] \in Publication
    BY DEF TypeOK
  <1> DEFINE row == [pubs[p] EXCEPT !.status = st]
  <1>2. /\ row \in Publication /\ row.status = st
        /\ row.article = pubs[p].article /\ row.version = pubs[p].version
        /\ row.withdrawn = pubs[p].withdrawn /\ row.error = pubs[p].error
    BY <1>1 DEF Publication
  <1>3. pubs' = [pubs EXCEPT ![p] = row]
    OBVIOUS
  <1> HIDE DEF row
  <1>4. QED  BY <1>2, <1>3, RowIs

\* A row with another status, and an error or none.
LEMMA OutcomeValue ==
  ASSUME TypeOK, NEW p \in Pubs, NEW st \in Statuses, NEW e \in BOOLEAN,
         pubs' = [pubs EXCEPT ![p] = [pubs[p] EXCEPT !.status = st, !.error = e]]
  PROVE  /\ pubs' \in [Pubs -> Publication] /\ pubs'[p].status = st
         /\ pubs'[p].article = pubs[p].article /\ pubs'[p].version = pubs[p].version
         /\ pubs'[p].withdrawn = pubs[p].withdrawn /\ pubs'[p].error = e
         /\ \A q \in Pubs \ {p} : pubs'[q] = pubs[q]
  <1>1. pubs[p] \in Publication
    BY DEF TypeOK
  <1> DEFINE row == [pubs[p] EXCEPT !.status = st, !.error = e]
  <1>2. /\ row \in Publication /\ row.status = st
        /\ row.article = pubs[p].article /\ row.version = pubs[p].version
        /\ row.withdrawn = pubs[p].withdrawn /\ row.error = e
    BY <1>1 DEF Publication
  <1>3. pubs' = [pubs EXCEPT ![p] = row]
    OBVIOUS
  <1> HIDE DEF row
  <1>4. QED  BY <1>2, <1>3, RowIs

\* The row of a change that was made, and of one that was not.
LEMMA ChangedValue ==
  ASSUME TypeOK, NEW p \in Pubs, NEW kind \in {"update", "withdraw"},
         NEW version \in Versions,
         pubs' = [pubs EXCEPT ![p] = Written(pubs[p], kind, version)]
  PROVE  /\ pubs' \in [Pubs -> Publication] /\ pubs'[p].status = pubs[p].status
         /\ pubs'[p].article = pubs[p].article
         /\ pubs'[p].version = IF kind = "update" THEN version ELSE pubs[p].version
         /\ pubs'[p].withdrawn = (kind = "withdraw")
         /\ \A q \in Pubs \ {p} : pubs'[q] = pubs[q]
  <1>1. pubs[p] \in Publication
    BY DEF TypeOK
  <1> DEFINE row == Written(pubs[p], kind, version)
  <1>2. CASE kind = "update"
    <2>1. row = [pubs[p] EXCEPT !.version = version, !.withdrawn = FALSE, !.error = FALSE]
      BY <1>2 DEF Written
    <2>2. /\ row \in Publication /\ row.status = pubs[p].status
          /\ row.article = pubs[p].article /\ row.version = version
          /\ row.withdrawn = FALSE
      BY <1>1, <2>1 DEF Publication
    <2>3. pubs' = [pubs EXCEPT ![p] = row]
      OBVIOUS
    <2> HIDE DEF row
    <2>4. QED  BY <1>2, <2>2, <2>3, RowIs
  <1>3. CASE kind = "withdraw"
    <2>1. row = [pubs[p] EXCEPT !.withdrawn = TRUE, !.error = FALSE]
      BY <1>3 DEF Written
    <2>2. /\ row \in Publication /\ row.status = pubs[p].status
          /\ row.article = pubs[p].article /\ row.version = pubs[p].version
          /\ row.withdrawn = TRUE
      BY <1>1, <2>1 DEF Publication
    <2>3. pubs' = [pubs EXCEPT ![p] = row]
      OBVIOUS
    <2> HIDE DEF row
    <2>4. QED  BY <1>3, <2>2, <2>3, RowIs
  <1>4. QED  BY <1>2, <1>3

LEMMA FailedChangeValue ==
  ASSUME TypeOK, NEW p \in Pubs, pubs' = [pubs EXCEPT ![p] = FailedChange(pubs[p])]
  PROVE  /\ pubs' \in [Pubs -> Publication] /\ pubs'[p].status = pubs[p].status
         /\ pubs'[p].article = pubs[p].article /\ pubs'[p].version = pubs[p].version
         /\ pubs'[p].withdrawn = pubs[p].withdrawn /\ pubs'[p].error
         /\ \A q \in Pubs \ {p} : pubs'[q] = pubs[q]
  <1>1. pubs[p] \in Publication
    BY DEF TypeOK
  <1> DEFINE row == [pubs[p] EXCEPT !.error = TRUE]
  <1>2. /\ row \in Publication /\ row.status = pubs[p].status
        /\ row.article = pubs[p].article /\ row.version = pubs[p].version
        /\ row.withdrawn = pubs[p].withdrawn /\ row.error
    BY <1>1 DEF Publication
  <1>3. pubs' = [pubs EXCEPT ![p] = row]
    BY DEF FailedChange
  <1> HIDE DEF row
  <1>4. QED  BY <1>2, <1>3, RowIs

\* A publication is at its own post, or in the article's file.
LEMMA PlaceValue ==
  ASSUME TypeOK, NEW p \in Pubs
  PROVE  /\ Place(p) \in Pubs /\ Article(Place(p)) = Article(p)
         /\ Place(p) # p => InRepository(p) /\ site[Place(p)].copies > 0
         /\ \A q \in Pubs :
              InRepository(p) /\ site[q].copies > 0 /\ Article(q) = Article(p) =>
                site[Place(p)].copies > 0
  <1> DEFINE files == {q \in Pubs : site[q].copies > 0 /\ Article(q) = Article(p)}
  <1>1. CASE InRepository(p) /\ files # {}
    <2>1. Place(p) = CHOOSE q \in files : TRUE
      BY <1>1 DEF Place
    <2>2. Place(p) \in files
      BY <1>1, <2>1
    <2>3. QED  BY <1>1, <2>2
  <1>2. CASE ~(InRepository(p) /\ files # {})
    <2>1. Place(p) = p
      BY <1>2 DEF Place
    <2>2. QED  BY <1>2, <2>1
  <1>3. QED  BY <1>1, <1>2

-----------------------------------------------------------------------------
\* What a step of a worker is about.
LEMMA WorkFacts ==
  ASSUME IInv, NEW w \in Workers, Busy(w)
  PROVE  /\ task[w] \in Task /\ task[w].kind \in Kinds /\ task[w].version \in Versions
         /\ task[w].pub \in Pubs /\ Recorded(task[w].pub)
         /\ task[w].rest \subseteq Pubs
         /\ \A q \in task[w].rest : Recorded(q)
         /\ Working(w) => task[w].at \in Pubs /\ Recorded(task[w].at)
         /\ Working(w) /\ Sends(w) => task[w].at = task[w].pub /\ task[w].at \in yes
         /\ Working(w) /\ task[w].kind # "withdraw" =>
              Sanctioned(task[w].at, task[w].version)
  <1>1. TaskOK(w) /\ task[w] \in Task
    BY DEF IInv, TasksOK, TypeOK
  <1>2. task[w].kind \in Kinds /\ task[w].version \in Versions /\ task[w].rest \subseteq Pubs
    BY <1>1 DEF Task, Busy
  <1>3. QED  BY <1>1, <1>2 DEF TaskOK, Recorded

\* Publications keep the article they are of, and what was approved stays so.
Grows ==
  /\ \A p \in Pubs : Recorded(p) => Article(p)' = Article(p) /\ Recorded(p)'
  /\ sanctioned \subseteq sanctioned' /\ yes \subseteq yes'

LEMMA RowsGrow ==
  ASSUME IInv, Next
  PROVE  pubs' \in [Pubs -> Publication] /\ Grows
  <1>0. TypeOK /\ pubs \in [Pubs -> Publication]
    BY DEF IInv, TypeOK
  <1> USE <1>0 DEF people
  <1>1. ASSUME NEW a \in Articles, Request(a)
        PROVE  pubs' \in [Pubs -> Publication] /\ Grows
    <2> DEFINE row == [status |-> "pending_approval", article |-> a,
                       version |-> draft[a].version, withdrawn |-> FALSE, error |-> FALSE]
    <2>1. PICK p \in Pubs : Status(p) = "none" /\ pubs' = [pubs EXCEPT ![p] = row]
      BY <1>1 DEF Request
    <2>2. row \in Publication
      BY DEF TypeOK, Publication
    <2> HIDE DEF row
    <2>3. /\ pubs' \in [Pubs -> Publication]
          /\ \A q \in Pubs \ {p} : pubs'[q] = pubs[q]
      BY <2>1, <2>2, RowIs
    <2>4. QED  BY <1>1, <2>1, <2>3 DEF Request, Grows, Recorded, Status, Article
  <1>2. ASSUME NEW d \in Directors, NEW answer \in {"approved", "rejected"},
               Decide(d, answer)
        PROVE  pubs' \in [Pubs -> Publication] /\ Grows
    <2>1. PICK p \in Pubs : p = looking[d]
      BY <1>2 DEF Decide, TypeOK
    <2>2. pubs' = [pubs EXCEPT ![p] = [pubs[p] EXCEPT !.status = answer]]
      BY <1>2, <2>1 DEF Decide
    <2>3. /\ pubs' \in [Pubs -> Publication] /\ pubs'[p].status = answer
          /\ pubs'[p].article = pubs[p].article
          /\ \A q \in Pubs \ {p} : pubs'[q] = pubs[q]
      BY <2>2, StatusValue
    <2>4. sanctioned \subseteq sanctioned' /\ yes \subseteq yes'
      BY <1>2 DEF Decide
    <2>5. QED  BY <2>3, <2>4 DEF Grows, Recorded, Status, Article
  <1>3. ASSUME NEW p \in Pubs, MarkUncertain(p)
        PROVE  pubs' \in [Pubs -> Publication] /\ Grows
    <2>1. /\ pubs' \in [Pubs -> Publication] /\ pubs'[p].status = "failed"
          /\ pubs'[p].article = pubs[p].article
          /\ \A q \in Pubs \ {p} : pubs'[q] = pubs[q]
      BY <1>3, OutcomeValue DEF MarkUncertain
    <2>2. QED  BY <1>3, <2>1 DEF MarkUncertain, Grows, Recorded, Status, Article
  <1>4. ASSUME NEW w \in Workers, ClaimSend(w)
        PROVE  pubs' \in [Pubs -> Publication] /\ Grows
    <2>1. PICK p \in Pubs : p = task[w].pub
      BY <1>4, WorkFacts DEF ClaimSend, Sends, Busy
    <2>2. CASE MaySend(p)
      <3>1. pubs' = [pubs EXCEPT ![p] = [pubs[p] EXCEPT !.status = "sending"]]
        BY <1>4, <2>1, <2>2 DEF ClaimSend
      <3>2. /\ pubs' \in [Pubs -> Publication] /\ pubs'[p].status = "sending"
            /\ pubs'[p].article = pubs[p].article
            /\ \A q \in Pubs \ {p} : pubs'[q] = pubs[q]
        BY <3>1, StatusValue
      <3>3. QED  BY <1>4, <3>2 DEF ClaimSend, Grows, Recorded, Status, Article
    <2>3. CASE ~MaySend(p)
      BY <1>4, <2>1, <2>3 DEF ClaimSend, Grows, Recorded, Status, Article
    <2>4. QED  BY <2>2, <2>3
  <1>5. ASSUME NEW w \in Workers, Sent(w)
        PROVE  pubs' \in [Pubs -> Publication] /\ Grows
    <2>1. PICK p \in Pubs : p = task[w].pub
      BY <1>5, WorkFacts DEF Sent, Sends, Busy
    <2>2. CASE pubs' = [pubs EXCEPT ![p] = [pubs[p] EXCEPT !.status = "published",
                                                          !.error = FALSE]]
      <3>1. /\ pubs' \in [Pubs -> Publication] /\ pubs'[p].status = "published"
            /\ pubs'[p].article = pubs[p].article
            /\ \A q \in Pubs \ {p} : pubs'[q] = pubs[q]
        BY <2>2, OutcomeValue
      <3>2. QED  BY <1>5, <3>1 DEF Sent, Grows, Recorded, Status, Article
    <2>3. CASE pubs' = pubs
      BY <1>5, <2>3 DEF Sent, Grows, Recorded, Status, Article
    <2>4. QED  BY <1>5, <2>1, <2>2, <2>3 DEF Sent
  <1>6. ASSUME NEW w \in Workers, NotSent(w)
        PROVE  pubs' \in [Pubs -> Publication] /\ Grows
    <2>1. PICK p \in Pubs : p = task[w].pub
      BY <1>6, WorkFacts DEF NotSent, Sends, Busy
    <2>2. pubs' = [pubs EXCEPT ![p] = [pubs[p] EXCEPT !.status = "failed", !.error = TRUE]]
      BY <1>6, <2>1 DEF NotSent
    <2>3. /\ pubs' \in [Pubs -> Publication] /\ pubs'[p].status = "failed"
          /\ pubs'[p].article = pubs[p].article
          /\ \A q \in Pubs \ {p} : pubs'[q] = pubs[q]
      BY <2>2, OutcomeValue
    <2>4. QED  BY <1>6, <2>3 DEF NotSent, Grows, Recorded, Status, Article
  <1>7. ASSUME NEW w \in Workers, Changed(w) \/ NotChanged(w)
        PROVE  pubs' \in [Pubs -> Publication] /\ Grows
    <2>1. Busy(w) /\ Working(w)
      BY <1>7 DEF Changed, NotChanged, Changes, Busy, Working, Fails, At
    <2>2. PICK p \in Pubs : p = task[w].at
      BY <2>1, WorkFacts
    <2>3. task[w].kind \in {"update", "withdraw"} /\ task[w].version \in Versions
      BY <1>7, <2>1, WorkFacts DEF Changed, NotChanged, Changes
    <2>4. /\ pubs' \in [Pubs -> Publication] /\ pubs'[p].status = pubs[p].status
          /\ pubs'[p].article = pubs[p].article
          /\ \A q \in Pubs \ {p} : pubs'[q] = pubs[q]
      <3>1. CASE pubs' = [pubs EXCEPT ![p] = Written(pubs[p], task[w].kind, task[w].version)]
        BY <2>3, <3>1, ChangedValue
      <3>2. CASE pubs' = [pubs EXCEPT ![p] = FailedChange(pubs[p])]
        BY <3>2, FailedChangeValue
      <3>3. QED  BY <1>7, <2>2, <3>1, <3>2 DEF Changed, NotChanged
    <2>5. UNCHANGED <<sanctioned, yes>>
      BY <1>7 DEF Changed, NotChanged
    <2>6. QED  BY <2>4, <2>5 DEF Grows, Recorded, Status, Article
  <1>8. ASSUME UNCHANGED <<pubs, yes>>, sanctioned \subseteq sanctioned'
        PROVE  pubs' \in [Pubs -> Publication] /\ Grows
    BY <1>8 DEF Grows, Recorded, Status, Article
  <1>9. ASSUME NEW w \in Workers, Work(w)
        PROVE  pubs' \in [Pubs -> Publication] /\ Grows
    BY <1>4, <1>5, <1>6, <1>7, <1>8, <1>9
       DEF Work, Arrive, Again, ReadUpdate, ReadWithdraw, ChangeArrives
  <1>10. ASSUME NEW w \in Workers, Take(w) \/ Interrupted(w) \/ LooseEnds(w)
         PROVE  pubs' \in [Pubs -> Publication] /\ Grows
    BY <1>8, <1>10 DEF Take, Interrupted, LooseEnds
  <1>11. ASSUME NEW p \in Pubs, NEW kind, NEW d,
                Look(d, p) \/ Enqueue(p) \/ AskChange(kind, p)
         PROVE  pubs' \in [Pubs -> Publication] /\ Grows
    BY <1>8, <1>11 DEF Look, Enqueue, AskChange
  <1>12. ASSUME DashboardStops PROVE pubs' \in [Pubs -> Publication] /\ Grows
    BY <1>8, <1>12 DEF DashboardStops
  <1>13. ASSUME NEW a \in Articles, EditDraft(a) \/ ApproveDraft(a)
         PROVE  pubs' \in [Pubs -> Publication] /\ Grows
    BY <1>8, <1>13 DEF EditDraft, ApproveDraft
  <1>14. QED
    BY <1>1, <1>2, <1>3, <1>9, <1>10, <1>11, <1>12, <1>13 DEF Next

\* A task that stays, or ends, is as it should be.
LEMMA TaskFrame ==
  ASSUME TypeOK, NEW w \in Workers, TaskOK(w), Grows,
         task'[w].kind = task[w].kind, task'[w].pub = task[w].pub,
         task'[w].pc = task[w].pc, task'[w].at = task[w].at,
         task'[w].version = task[w].version, task'[w].rest = task[w].rest
  PROVE  TaskOK(w)'
  <1>1. \A p : Recorded(p) => Recorded(p)' /\ Article(p)' = Article(p)
    BY DEF Grows, Recorded
  <1>2. \A p, n : Recorded(p) /\ Sanctioned(p, n) => Sanctioned(p, n)'
    BY <1>1 DEF Grows, Sanctioned
  <1>3. yes \subseteq yes'
    BY DEF Grows
  <1>4. Busy(w)' = Busy(w) /\ Working(w)' = Working(w) /\ Sends(w)' = Sends(w)
        /\ At(w, "idle")' = At(w, "idle")
    BY DEF Busy, Working, Sends, At
  <1>5. QED  BY <1>1, <1>2, <1>3, <1>4 DEF TaskOK

LEMMA TaskEnds ==
  ASSUME NEW w \in Workers, task'[w] = NoTask
  PROVE  TaskOK(w)'
  BY Values DEF TaskOK, Busy, At, Working, Sends

\* A step of one worker leaves the tasks of the others.
LEMMA OneTask ==
  ASSUME TypeOK, TasksOK, Grows, NEW w \in Workers, TaskOK(w)',
         \A v \in Workers \ {w} : task'[v] = task[v]
  PROVE  TasksOK'
  <1>1. ASSUME NEW v \in Workers \ {w} PROVE TaskOK(v)'
    BY TaskFrame DEF TasksOK
  <1>2. QED  BY <1>1 DEF TasksOK

LEMMA SameTasks ==
  ASSUME TypeOK, TasksOK, Grows, task' = task
  PROVE  TasksOK'
  BY TaskFrame DEF TasksOK

\* The next translation is withdrawn, or the job ends.
LEMMA GoesValue ==
  ASSUME IInv, NEW w \in Workers, Busy(w), Goes(w)
  PROVE  /\ task' \in [Workers -> Task]
         /\ \A v \in Workers \ {w} : task'[v] = task[v]
         /\ \/ task[w].rest = {} /\ task'[w] = NoTask
            \/ \E q \in task[w].rest :
                 /\ q \in Pubs /\ Recorded(q)
                 /\ task'[w].pc = "send" /\ task'[w].at = q /\ task'[w].version = 1
                 /\ task'[w].kind = task[w].kind /\ task'[w].pub = task[w].pub
                 /\ task'[w].rest = task[w].rest \ {q}
                 /\ task'[w].loose = task[w].loose
  <1>0. /\ TypeOK /\ task[w].rest \subseteq Pubs
        /\ \A q \in task[w].rest : Recorded(q)
    BY WorkFacts DEF IInv
  <1>1. CASE task[w].rest = {}
    BY <1>0, <1>1, EndsValue DEF Goes
  <1>2. CASE task[w].rest # {}
    <2>1. PICK q \in task[w].rest : Change(w, q, 1, task[w].rest \ {q})
      BY <1>2 DEF Goes
    <2>2. PICK rest \in SUBSET Pubs : rest = task[w].rest \ {q}
      BY <1>0
    <2>3. q \in Pubs /\ Recorded(q) /\ 1 \in Versions /\ Change(w, q, 1, rest)
      BY <1>0, <2>1, <2>2, Values
    <2>4. /\ task' \in [Workers -> Task] /\ task'[w].pc = "send"
          /\ task'[w].kind = task[w].kind /\ task'[w].pub = task[w].pub
          /\ task'[w].at = q /\ task'[w].version = 1
          /\ task'[w].rest = rest /\ task'[w].loose = task[w].loose
          /\ \A v \in Workers \ {w} : task'[v] = task[v]
      BY <1>0, <2>3, ChangeValue
    <2>5. QED  BY <1>2, <2>2, <2>3, <2>4
  <1>3. QED  BY <1>1, <1>2

\* Every step keeps the tasks as they should be.
LEMMA TasksStep ==
  ASSUME IInv, Next
  PROVE  task' \in [Workers -> Task] /\ TasksOK'
  <1>0. /\ TypeOK /\ TasksOK /\ AskedOK /\ Grows
        /\ DraftsOK /\ RowsOK /\ task \in [Workers -> Task]
        /\ \A p : Recorded(p) => Recorded(p)' /\ Article(p)' = Article(p)
        /\ \A p, n : Recorded(p) /\ Sanctioned(p, n) => Sanctioned(p, n)'
    <2>1. Grows
      BY RowsGrow
    <2>2. QED  BY <2>1 DEF IInv, TypeOK, Grows, Recorded, Sanctioned
  <1> DEFINE Goal == task' \in [Workers -> Task] /\ TasksOK'
  <1>1. ASSUME NEW w \in Workers, Take(w) PROVE Goal
    <2>1. PICK job \in queue :
            /\ job[1] \in Kinds /\ job[2] \in Pubs
            /\ task' \in [Workers -> Task] /\ task'[w].pc = "taken"
            /\ task'[w].kind = job[1] /\ task'[w].pub = job[2]
            /\ task'[w].at = 0 /\ task'[w].rest = {}
            /\ \A v \in Workers \ {w} : task'[v] = task[v]
      BY <1>0, <1>1, TakeValue
    <2>2. Recorded(job[2])'
      BY <1>0 DEF AskedOK
    <2>3. TaskOK(w)'
      <3>1. Busy(w)' /\ ~At(w, "idle")' /\ ~Working(w)' /\ Recorded(task[w].pub)'
        BY <2>1, <2>2 DEF Busy, At, Working, Recorded, Status
      <3>2. QED  BY <2>1, <3>1 DEF TaskOK
    <2>4. QED  BY <1>0, <2>1, <2>3, OneTask
  <1>2. ASSUME NEW w \in Workers, Interrupted(w) PROVE Goal
    <2>1. /\ task' \in [Workers -> Task]
          /\ \A v \in Workers \ {w} : task'[v] = task[v]
      BY <1>0, <1>2, InterruptedValue
    <2>2. TaskOK(w)'
      <3>1. CASE task'[w] = NoTask
        BY <3>1, TaskEnds
      <3>2. CASE task'[w] # NoTask
        BY <1>0, <1>2, <3>2, InterruptedValue, TaskFrame DEF TasksOK
      <3>3. QED  BY <3>1, <3>2
    <2>3. QED  BY <1>0, <2>1, <2>2, OneTask
  <1>3. ASSUME NEW w \in Workers, Ends(w) PROVE Goal
    <2>1. /\ task' \in [Workers -> Task] /\ task'[w] = NoTask
          /\ \A v \in Workers \ {w} : task'[v] = task[v]
      BY <1>0, <1>3, EndsValue
    <2>2. TaskOK(w)'
      BY <2>1, TaskEnds
    <2>3. QED  BY <1>0, <2>1, <2>2, OneTask
  <1>4. ASSUME NEW w \in Workers, ClaimSend(w) PROVE Goal
    <2>1. PICK p \in Pubs : p = task[w].pub /\ Recorded(p)
      BY <1>4, WorkFacts DEF ClaimSend, Sends, Busy
    <2>2. CASE MaySend(p)
      <3>1. task' = [task EXCEPT ![w] = [task[w] EXCEPT !.pc = "send", !.at = p,
                                                        !.version = pubs[p].version]]
        BY <1>4, <2>1, <2>2 DEF ClaimSend
      <3>2. /\ task' \in [Workers -> Task] /\ task'[w].pc = "send"
            /\ task'[w].kind = "publish" /\ task'[w].pub = p /\ task'[w].at = p
            /\ task'[w].version = pubs[p].version /\ task'[w].rest = task[w].rest
            /\ \A v \in Workers \ {w} : task'[v] = task[v]
        <4>1. task[w].kind = "publish"
          BY <1>4 DEF ClaimSend, Sends
        <4>2. /\ task' \in [Workers -> Task] /\ task'[w].pc = "send"
              /\ task'[w].kind = task[w].kind /\ task'[w].pub = task[w].pub
              /\ task'[w].at = p
              /\ task'[w].version = pubs[p].version /\ task'[w].rest = task[w].rest
              /\ \A v \in Workers \ {w} : task'[v] = task[v]
          BY <1>0, <3>1, ClaimValue, Zenon
        <4>3. QED  BY <2>1, <4>1, <4>2
      <3>3. task[w].rest = {}
        BY <1>0, <1>4 DEF ClaimSend, Sends, TasksOK, TaskOK
      <3>4. p \in yes /\ Sanctioned(p, pubs[p].version)
        BY <1>0, <2>1, <2>2 DEF RowsOK, RowOK, MaySend, Decided
      <3>5. p \in yes' /\ Recorded(p)' /\ <<Article(p)', pubs[p].version>> \in sanctioned'
        BY <1>0, <2>1, <3>4 DEF Grows, Sanctioned
      <3>6. TaskOK(w)'
        BY <3>2, <3>3, <3>5
           DEF TaskOK, Busy, At, Working, Sends, Recorded, Sanctioned, Status, Article
      <3>7. QED  BY <1>0, <3>2, <3>6, OneTask
    <2>3. CASE ~MaySend(p)
      BY <1>3, <1>4, <2>1, <2>3 DEF ClaimSend
    <2>4. QED  BY <2>2, <2>3
  <1>5. ASSUME NEW w \in Workers, Arrive(w) \/ ChangeArrives(w) \/ Again(w) PROVE Goal
    <2>1. Busy(w) /\ Working(w)
      BY <1>5 DEF Arrive, ChangeArrives, Again, MayRetry, Fails, Sends, Changes, Busy,
                  Working, At
    <2>2. /\ task' \in [Workers -> Task] /\ task'[w].pc \in {"send", "arrived"}
          /\ task'[w].kind = task[w].kind /\ task'[w].pub = task[w].pub
          /\ task'[w].at = task[w].at
          /\ task'[w].version = task[w].version /\ task'[w].rest = task[w].rest
          /\ \A v \in Workers \ {w} : task'[v] = task[v]
      <3>1. CASE Again(w)
        BY <1>0, <3>1, AgainValue
      <3>2. CASE Go(w, "arrived")
        BY <1>0, <3>2, GoValue
      <3>3. QED  BY <1>5, <3>1, <3>2 DEF Arrive, ChangeArrives
    <2>3. TaskOK(w)
      BY <1>0 DEF TasksOK
    <2>4. Busy(w)' /\ Working(w)' /\ Sends(w)' = Sends(w) /\ ~At(w, "idle")'
      BY <2>1, <2>2 DEF Busy, Working, Sends, At
    <2>5. TaskOK(w)'
      BY <1>0, <2>1, <2>2, <2>3, <2>4 DEF TaskOK, Grows
    <2>6. QED  BY <1>0, <2>2, <2>5, OneTask
  <1>6. ASSUME NEW w \in Workers, Sent(w) \/ NotSent(w) \/ LooseEnds(w) PROVE Goal
    BY <1>3, <1>6 DEF Sent, NotSent, LooseEnds
  <1>7. ASSUME NEW w \in Workers, ReadUpdate(w) PROVE Goal
    <2>1. PICK p \in Pubs : p = task[w].pub /\ Recorded(p)
      BY <1>7, WorkFacts DEF ReadUpdate, Busy
    <2>2. CASE MayUpdate(p)
      <3>1. PICK a \in Articles : a = Article(p)
        BY <1>0, <2>1 DEF Article, TypeOK, Publication
      <3>2. PICK n \in Versions : n = draft[a].version
        BY <1>0 DEF TypeOK
      <3>3. Change(w, p, n, {})
        BY <1>7, <2>1, <2>2, <3>1, <3>2 DEF ReadUpdate
      <3>4. /\ task' \in [Workers -> Task] /\ task'[w].pc = "send"
            /\ task'[w].kind = "update" /\ task'[w].pub = p /\ task'[w].at = p
            /\ task'[w].version = n /\ task'[w].rest = {}
            /\ \A v \in Workers \ {w} : task'[v] = task[v]
        BY <1>0, <1>7, <2>1, <3>3, ChangeValue DEF ReadUpdate
      <3>5. Sanctioned(p, n)
        BY <1>0, <2>2, <3>1, <3>2 DEF DraftsOK, MayUpdate, Sanctioned
      <3>6. Recorded(p)' /\ Sanctioned(p, n)'
        BY <1>0, <2>1, <3>5
      <3>7. /\ Busy(w)' /\ Working(w)' /\ ~Sends(w)' /\ ~At(w, "idle")'
            /\ Sanctioned(task[w].at, task[w].version)' /\ Recorded(task[w].at)'
            /\ Recorded(task[w].pub)'
        BY <3>4, <3>6
           DEF Busy, At, Working, Sends, Recorded, Sanctioned, Status, Article
      <3>8. TaskOK(w)'
        BY <3>4, <3>7 DEF TaskOK
      <3>9. QED  BY <1>0, <3>4, <3>8, OneTask
    <2>3. CASE ~MayUpdate(p)
      BY <1>3, <1>7, <2>1, <2>3 DEF ReadUpdate
    <2>4. QED  BY <2>2, <2>3
  <1>8. ASSUME NEW w \in Workers, ReadWithdraw(w) PROVE Goal
    <2>1. PICK p \in Pubs : p = task[w].pub /\ Recorded(p)
      BY <1>8, WorkFacts DEF ReadWithdraw, Busy
    <2>2. \A q \in Family(p) : q \in Pubs /\ Recorded(q)
      BY <2>1 DEF Family, Recorded
    <2>3. ASSUME NEW q \in Family(p), NEW rest \in SUBSET Family(p),
                 Change(w, q, 1, rest)
          PROVE  Goal
      <3>1. q \in Pubs /\ rest \in SUBSET Pubs
        BY <2>2
      <3>2. /\ task' \in [Workers -> Task] /\ task'[w].pc = "send"
            /\ task'[w].kind = "withdraw" /\ task'[w].pub = p /\ task'[w].at = q
            /\ task'[w].rest = rest
            /\ \A v \in Workers \ {w} : task'[v] = task[v]
        <4>1. task[w].kind = "withdraw" /\ 1 \in Versions
          BY <1>8, Values DEF ReadWithdraw
        <4>2. QED  BY <1>0, <2>1, <2>3, <3>1, <4>1, ChangeValue
      <3>3. Recorded(q)' /\ Recorded(p)' /\ \A x \in rest : Recorded(x)'
        BY <1>0, <2>1, <2>2
      <3>4. /\ Busy(w)' /\ Working(w)' /\ ~Sends(w)' /\ ~At(w, "idle")'
            /\ Recorded(task[w].at)' /\ Recorded(task[w].pub)'
            /\ \A x \in task'[w].rest : Recorded(x)'
        BY <3>2, <3>3 DEF Busy, At, Working, Sends, Recorded, Status
      <3>5. TaskOK(w)'
        BY <3>2, <3>4 DEF TaskOK
      <3>6. QED  BY <1>0, <3>2, <3>5, OneTask
    <2>4. \/ Ends(w)
          \/ \E q \in Family(p), rest \in SUBSET Family(p) : Change(w, q, 1, rest)
      <3>1. PICK family \in SUBSET Family(p) :
              \/ Ends(w)
              \/ \E q \in family : Change(w, q, 1, family \ {q})
        BY <1>8, <2>1 DEF ReadWithdraw
      <3>2. QED  BY <3>1
    <2>5. QED  BY <1>3, <2>3, <2>4
  <1>9. ASSUME NEW w \in Workers, Changed(w) \/ NotChanged(w) PROVE Goal
    <2>1. Busy(w) /\ Goes(w) /\ task[w].kind \in {"update", "withdraw"}
      BY <1>9 DEF Changed, NotChanged, Changes, Busy
    <2>2. TaskOK(w)
      BY <1>0 DEF TasksOK
    <2>3. TaskOK(w)'
      <3>1. CASE task'[w] = NoTask
        BY <3>1, TaskEnds
      <3>2. CASE task'[w] # NoTask
        <4>1. PICK q \in task[w].rest :
                 /\ q \in Pubs /\ Recorded(q)
                 /\ task'[w].pc = "send" /\ task'[w].at = q
                 /\ task'[w].kind = task[w].kind /\ task'[w].pub = task[w].pub
                 /\ task'[w].rest = task[w].rest \ {q}
          BY <2>1, <3>2, GoesValue
        <4>2. task[w].kind = "withdraw"
          BY <2>1, <2>2, <4>1 DEF TaskOK
        <4>3. Recorded(q)' /\ Recorded(task[w].pub) /\ \A x \in task[w].rest : Recorded(x)'
          BY <1>0, <2>1, <2>2, <4>1 DEF TaskOK
        <4>4. /\ Busy(w)' /\ Working(w)' /\ ~Sends(w)' /\ ~At(w, "idle")'
              /\ Recorded(task[w].at)' /\ Recorded(task[w].pub)'
              /\ \A x \in task'[w].rest : Recorded(x)'
          BY <1>0, <4>1, <4>2, <4>3 DEF Busy, At, Working, Sends, Recorded, Status
        <4>5. QED  BY <4>1, <4>2, <4>4 DEF TaskOK
      <3>3. QED  BY <3>1, <3>2
    <2>4. QED  BY <1>0, <2>1, <2>3, GoesValue, OneTask
  <1>10. ASSUME UNCHANGED task PROVE Goal
    BY <1>0, <1>10, SameTasks
  <1>11. QED
    <2>1. \/ UNCHANGED task
          \/ \E w \in Workers :
               \/ Take(w) \/ Interrupted(w) \/ ClaimSend(w)
               \/ Arrive(w) \/ ChangeArrives(w) \/ Again(w)
               \/ Sent(w) \/ NotSent(w) \/ LooseEnds(w)
               \/ ReadUpdate(w) \/ ReadWithdraw(w) \/ Changed(w) \/ NotChanged(w)
      BY DEF Next, Work, EditDraft, ApproveDraft, Request, Look, Decide, Enqueue,
             MarkUncertain, AskChange, DashboardStops
    <2>2. QED
      BY <1>1, <1>2, <1>4, <1>5, <1>6, <1>7, <1>8, <1>9, <1>10, <2>1

-----------------------------------------------------------------------------
\* What a request to publish does at the destination.
LEMMA ArriveValue ==
  ASSUME IInv, NEW w \in Workers, Arrive(w)
  PROVE  \E p, place \in Pubs :
           /\ p = task[w].at /\ p = task[w].pub /\ place = Place(p)
           /\ Recorded(p) /\ p \in yes /\ Sanctioned(p, task[w].version)
           /\ Article(place) = Article(p)
           /\ place # p => InRepository(p) /\ site[place].copies > 0
           /\ \/ /\ InRepository(p) /\ site[place].online /\ UNCHANGED site
                 /\ site[place].version = task[w].version
              \/ /\ site' \in [Pubs -> Post]
                 /\ site'[place].version = task[w].version /\ site'[place].online
                 /\ site'[place].copies =
                      IF InRepository(p) \/ site[p].copies = 0 THEN 1 ELSE 2
                 /\ \A q \in Pubs \ {place} : site'[q] = site[q]
  <1>0. TypeOK /\ Busy(w) /\ Working(w) /\ Sends(w)
    BY DEF IInv, Arrive, Sends, Busy, Working, At
  <1>1. PICK p \in Pubs : p = task[w].at
    BY <1>0, WorkFacts
  <1>2. /\ p = task[w].pub /\ Recorded(p) /\ p \in yes /\ Sanctioned(p, task[w].version)
        /\ task[w].version \in Versions
    BY <1>0, <1>1, WorkFacts DEF Sends
  <1>3. PICK place \in Pubs :
          /\ place = Place(p) /\ Article(place) = Article(p)
          /\ place # p => InRepository(p) /\ site[place].copies > 0
    BY <1>0, PlaceValue
  <1> DEFINE post == Posted(p, task[w].version)
  <1>4. /\ post \in Post /\ post.version = task[w].version /\ post.online
        /\ post.copies = IF InRepository(p) \/ site[p].copies = 0 THEN 1 ELSE 2
    BY <1>2 DEF Posted, Post
  <1>5. \/ /\ InRepository(p) /\ site[place].online /\ UNCHANGED site
           /\ site[place].version = task[w].version
        \/ site' = [site EXCEPT ![place] = post]
    BY <1>1, <1>3 DEF Arrive
  <1> HIDE DEF post
  <1>6. ASSUME site' = [site EXCEPT ![place] = post]
        PROVE  /\ site' \in [Pubs -> Post] /\ site'[place] = post
               /\ \A q \in Pubs \ {place} : site'[q] = site[q]
    BY <1>0, <1>4, <1>6 DEF TypeOK
  <1>7. QED  BY <1>1, <1>2, <1>3, <1>4, <1>5, <1>6

\* What a change does there: it makes no post.
LEMMA ChangeArrivesValue ==
  ASSUME IInv, NEW w \in Workers, ChangeArrives(w)
  PROVE  \E p, place \in Pubs :
           /\ p = task[w].at /\ place = Place(p)
           /\ Recorded(p) /\ Article(place) = Article(p)
           /\ task[w].kind \in {"update", "withdraw"}
           /\ task[w].kind = "update" => Sanctioned(p, task[w].version)
           /\ site' \in [Pubs -> Post]
           /\ site'[place].copies = site[place].copies
           /\ site'[place].version = IF task[w].kind = "update" THEN task[w].version
                                     ELSE site[place].version
           /\ site'[place].online <=> task[w].kind = "update"
           /\ \A q \in Pubs \ {place} : site'[q] = site[q]
  <1>0. TypeOK /\ Busy(w) /\ Working(w) /\ task[w].kind \in {"update", "withdraw"}
    BY DEF IInv, ChangeArrives, Changes, Busy, Working, At
  <1>1. PICK p \in Pubs : p = task[w].at
    BY <1>0, WorkFacts
  <1>2. /\ Recorded(p) /\ task[w].version \in Versions
        /\ task[w].kind = "update" => Sanctioned(p, task[w].version)
    BY <1>0, <1>1, WorkFacts
  <1>3. PICK place \in Pubs : place = Place(p) /\ Article(place) = Article(p)
    BY <1>0, PlaceValue
  <1>4. site[place] \in Post
    BY <1>0 DEF TypeOK
  <1>5. PICK post \in Post :
          /\ site' = [site EXCEPT ![place] = post]
          /\ post.copies = site[place].copies
          /\ post.version = IF task[w].kind = "update" THEN task[w].version
                            ELSE site[place].version
          /\ post.online <=> task[w].kind = "update"
    <2>1. CASE task[w].kind = "update"
      <3> DEFINE post == [site[place] EXCEPT !.version = task[w].version, !.online = TRUE]
      <3>1. /\ post \in Post /\ post.copies = site[place].copies
            /\ post.version = task[w].version /\ post.online
        BY <1>2, <1>4 DEF Post
      <3>2. site' = [site EXCEPT ![place] = post]
        BY <1>1, <1>3, <2>1 DEF ChangeArrives
      <3> HIDE DEF post
      <3>3. QED  BY <2>1, <3>1, <3>2
    <2>2. CASE task[w].kind = "withdraw"
      <3> DEFINE post == [site[place] EXCEPT !.online = FALSE]
      <3>1. /\ post \in Post /\ post.copies = site[place].copies
            /\ post.version = site[place].version /\ ~post.online
        BY <1>4 DEF Post
      <3>2. site' = [site EXCEPT ![place] = post]
        BY <1>1, <1>3, <2>2 DEF ChangeArrives
      <3> HIDE DEF post
      <3>3. QED  BY <2>2, <3>1, <3>2
    <2>3. QED  BY <1>0, <2>1, <2>2
  <1>6. /\ site' \in [Pubs -> Post] /\ site'[place] = post
        /\ \A q \in Pubs \ {place} : site'[q] = site[q]
    BY <1>0, <1>5 DEF TypeOK
  <1>7. QED  BY <1>0, <1>1, <1>2, <1>3, <1>5, <1>6

\* Nothing else touches the site.
LEMMA SiteStep ==
  ASSUME IInv, Next
  PROVE  /\ site' \in [Pubs -> Post]
         /\ \/ UNCHANGED site
            \/ \E w \in Workers : Arrive(w) \/ ChangeArrives(w)
  <1>1. \/ UNCHANGED site
        \/ \E w \in Workers : Arrive(w) \/ ChangeArrives(w)
    BY DEF Next, Work, EditDraft, ApproveDraft, Request, Look, Decide, Enqueue,
           MarkUncertain, AskChange, DashboardStops, Take, Interrupted, LooseEnds,
           ClaimSend, Again, Sent, NotSent, ReadUpdate, ReadWithdraw, Changed, NotChanged
  <1>2. ASSUME NEW w \in Workers, Arrive(w) PROVE site' \in [Pubs -> Post]
    <2>1. site \in [Pubs -> Post]
      BY DEF IInv, TypeOK
    <2>2. QED  BY <1>2, <2>1, ArriveValue
  <1>3. ASSUME NEW w \in Workers, ChangeArrives(w) PROVE site' \in [Pubs -> Post]
    BY <1>3, ChangeArrivesValue
  <1>4. UNCHANGED site => site' \in [Pubs -> Post]
    BY DEF IInv, TypeOK
  <1>5. QED  BY <1>1, <1>2, <1>3, <1>4

\* A row that keeps its article and its text.
LEMMA RowFrame ==
  ASSUME NEW p \in Pubs, RowOK(p), Grows, Recorded(p), site'[p] = site[p],
         pubs'[p].version = pubs[p].version \/ Sanctioned(p, pubs'[p].version),
         Status(p)' \in Decided => Status(p) \in Decided \/ p \in yes'
  PROVE  RowOK(p)'
  <1>1. /\ Recorded(p)' /\ Article(p)' = Article(p) /\ Status(p)' # "none"
        /\ sanctioned \subseteq sanctioned' /\ yes \subseteq yes'
    BY DEF Grows, Recorded
  <1>2. QED  BY <1>1 DEF RowOK, Sanctioned

\* A row that nothing happens to.
LEMMA RowStays ==
  ASSUME NEW p \in Pubs, RowOK(p), Grows, site'[p] = site[p], pubs'[p] = pubs[p]
  PROVE  RowOK(p)'
  <1>1. Status(p)' = Status(p) /\ Article(p)' = Article(p)
        /\ sanctioned \subseteq sanctioned' /\ yes \subseteq yes'
    BY DEF Grows, Status, Article
  <1>2. QED  BY <1>1 DEF RowOK, Sanctioned, Recorded

\* Every step keeps what is known of the rows and of the site.
LEMMA RowsStep ==
  ASSUME IInv, Next
  PROVE  RowsOK'
  <1>0. /\ TypeOK /\ RowsOK /\ DraftsOK /\ Grows
        /\ \A p : Recorded(p) => Recorded(p)' /\ Article(p)' = Article(p)
        /\ \A p, n : Recorded(p) /\ Sanctioned(p, n) => Sanctioned(p, n)'
    <2>1. Grows
      BY RowsGrow
    <2>2. QED  BY <2>1 DEF IInv, Grows, Recorded, Sanctioned
  <1>a. ASSUME NEW p \in Pubs, UNCHANGED site, RowOK(p)',
               \A q \in Pubs \ {p} : pubs'[q] = pubs[q]
        PROVE  RowsOK'
    <2>1. ASSUME NEW q \in Pubs \ {p} PROVE RowOK(q)'
      BY <1>0, <1>a, RowStays DEF RowsOK
    <2>2. QED  BY <1>a, <2>1 DEF RowsOK
  <1>b. ASSUME UNCHANGED <<pubs, site>> PROVE RowsOK'
    BY <1>0, <1>b, RowStays DEF RowsOK
  <1> USE DEF people
  <1>1. ASSUME NEW a \in Articles, Request(a) PROVE RowsOK'
    <2> DEFINE row == [status |-> "pending_approval", article |-> a,
                       version |-> draft[a].version, withdrawn |-> FALSE, error |-> FALSE]
    <2>1. PICK p \in Pubs : Status(p) = "none" /\ pubs' = [pubs EXCEPT ![p] = row]
      BY <1>1 DEF Request
    <2>2. row \in Publication
      BY <1>0 DEF TypeOK, Publication
    <2>3. row.status = "pending_approval" /\ row.article = a /\ row.version = draft[a].version
      OBVIOUS
    <2> HIDE DEF row
    <2>4. /\ pubs'[p] = row
          /\ \A q \in Pubs \ {p} : pubs'[q] = pubs[q]
      BY <1>0, <2>1, <2>2, RowIs
    <2>5. UNCHANGED <<site, sanctioned, yes>> /\ site[p].copies = 0
      BY <1>0, <1>1, <2>1 DEF Request, RowsOK, RowOK
    <2>6. <<a, draft[a].version>> \in sanctioned
      BY <1>0, <1>1 DEF Request, DraftsOK
    <2>7. RowOK(p)'
      BY <2>3, <2>4, <2>5, <2>6
         DEF RowOK, Recorded, Sanctioned, Status, Article, Decided
    <2>8. QED  BY <1>a, <2>4, <2>5, <2>7
  <1>2. ASSUME NEW d \in Directors, NEW answer \in {"approved", "rejected"},
               Decide(d, answer)
        PROVE  RowsOK'
    <2>1. PICK p \in Pubs : p = looking[d] /\ Recorded(p)
      BY <1>2 DEF Decide, IInv, AskedOK, Recorded
    <2>2. pubs' = [pubs EXCEPT ![p] = [pubs[p] EXCEPT !.status = answer]]
      BY <1>2, <2>1 DEF Decide
    <2>3. /\ pubs'[p].status = answer /\ pubs'[p].version = pubs[p].version
          /\ \A q \in Pubs \ {p} : pubs'[q] = pubs[q]
      BY <1>0, <2>2, StatusValue
    <2>4. answer = "approved" => p \in yes'
      BY <1>2, <2>1 DEF Decide
    <2>5. UNCHANGED site /\ RowOK(p)
      BY <1>0, <1>2 DEF Decide, RowsOK
    <2>6. RowOK(p)'
      <3>1. Status(p)' \in Decided => p \in yes'
        BY <2>3, <2>4 DEF Status, Decided
      <3>2. QED  BY <1>0, <2>1, <2>3, <2>5, <3>1, RowFrame
    <2>7. QED  BY <1>a, <2>3, <2>5, <2>6
  <1>3. ASSUME NEW p \in Pubs, MarkUncertain(p) PROVE RowsOK'
    <2>1. /\ pubs'[p].status = "failed" /\ pubs'[p].version = pubs[p].version
          /\ \A q \in Pubs \ {p} : pubs'[q] = pubs[q]
      BY <1>0, <1>3, OutcomeValue DEF MarkUncertain
    <2>2. UNCHANGED site /\ RowOK(p) /\ Recorded(p) /\ Status(p) \in Decided
      BY <1>0, <1>3 DEF MarkUncertain, RowsOK, Recorded, Decided
    <2>3. RowOK(p)'
      BY <1>0, <2>1, <2>2, RowFrame
    <2>4. QED  BY <1>a, <2>1, <2>2, <2>3
  <1>4. ASSUME NEW w \in Workers, ClaimSend(w) PROVE RowsOK'
    <2>1. PICK p \in Pubs : p = task[w].pub /\ Recorded(p)
      BY <1>4, WorkFacts DEF ClaimSend, Sends, Busy
    <2>2. UNCHANGED site /\ RowOK(p)
      BY <1>0, <1>4 DEF ClaimSend, RowsOK
    <2>3. CASE MaySend(p)
      <3>1. pubs' = [pubs EXCEPT ![p] = [pubs[p] EXCEPT !.status = "sending"]]
        BY <1>4, <2>1, <2>3 DEF ClaimSend
      <3>2. /\ pubs'[p].status = "sending" /\ pubs'[p].version = pubs[p].version
            /\ \A q \in Pubs \ {p} : pubs'[q] = pubs[q]
        BY <1>0, <3>1, StatusValue
      <3>3. Status(p) \in Decided
        BY <2>3 DEF MaySend, Decided
      <3>4. RowOK(p)'
        BY <1>0, <2>1, <2>2, <3>2, <3>3, RowFrame
      <3>5. QED  BY <1>a, <2>2, <3>2, <3>4
    <2>4. CASE ~MaySend(p)
      BY <1>b, <1>4, <2>1, <2>4 DEF ClaimSend
    <2>5. QED  BY <2>3, <2>4
  <1>5. ASSUME NEW w \in Workers, Sent(w) \/ NotSent(w) PROVE RowsOK'
    <2>1. Busy(w) /\ Working(w) /\ Sends(w)
      BY <1>5 DEF Sent, NotSent, Sends, Busy, Working, Fails, At
    <2>2. PICK p \in Pubs : p = task[w].pub /\ Recorded(p) /\ p \in yes
      BY <2>1, WorkFacts
    <2>3. UNCHANGED site /\ RowOK(p)
      BY <1>0, <1>5 DEF Sent, NotSent, RowsOK
    <2>4. ASSUME NEW st \in {"published", "failed"}, NEW e \in BOOLEAN,
                 pubs' = [pubs EXCEPT ![p] = [pubs[p] EXCEPT !.status = st, !.error = e]]
          PROVE  RowsOK'
      <3>1. /\ pubs'[p].version = pubs[p].version
            /\ \A q \in Pubs \ {p} : pubs'[q] = pubs[q]
        BY <1>0, <2>4, OutcomeValue
      <3>2. p \in yes'
        BY <1>0, <2>2 DEF Grows
      <3>3. RowOK(p)'
        BY <1>0, <2>2, <2>3, <3>1, <3>2, RowFrame
      <3>4. QED  BY <1>a, <2>3, <3>1, <3>3
    <2>5. \/ UNCHANGED pubs
          \/ pubs' = [pubs EXCEPT ![p] = [pubs[p] EXCEPT !.status = "published",
                                                         !.error = FALSE]]
          \/ pubs' = [pubs EXCEPT ![p] = [pubs[p] EXCEPT !.status = "failed",
                                                         !.error = TRUE]]
      BY <1>5, <2>2 DEF Sent, NotSent
    <2>6. QED  BY <1>b, <2>3, <2>4, <2>5
  <1>6. ASSUME NEW w \in Workers, Changed(w) \/ NotChanged(w) PROVE RowsOK'
    <2>1. Busy(w) /\ Working(w) /\ UNCHANGED site
      BY <1>6 DEF Changed, NotChanged, Changes, Busy, Working, Fails, At
    <2>2. PICK p \in Pubs : p = task[w].at /\ Recorded(p)
      BY <2>1, WorkFacts
    <2>3. /\ task[w].kind \in {"update", "withdraw"} /\ task[w].version \in Versions
          /\ task[w].kind = "update" => Sanctioned(p, task[w].version)
      BY <1>6, <2>1, <2>2, WorkFacts DEF Changed, NotChanged, Changes
    <2>4. /\ pubs'[p].status = pubs[p].status
          /\ pubs'[p].version = pubs[p].version \/ Sanctioned(p, pubs'[p].version)
          /\ \A q \in Pubs \ {p} : pubs'[q] = pubs[q]
      <3>1. CASE pubs' = [pubs EXCEPT ![p] = Written(pubs[p], task[w].kind, task[w].version)]
        <4>1. PICK kind \in {"update", "withdraw"}, n \in Versions :
                kind = task[w].kind /\ n = task[w].version
          BY <2>3
        <4>2. pubs' = [pubs EXCEPT ![p] = Written(pubs[p], kind, n)]
          BY <3>1, <4>1
        <4>3. /\ pubs'[p].status = pubs[p].status
              /\ pubs'[p].version = IF kind = "update" THEN n ELSE pubs[p].version
              /\ \A q \in Pubs \ {p} : pubs'[q] = pubs[q]
          BY <1>0, <4>2, ChangedValue
        <4>4. QED  BY <2>3, <4>1, <4>3
      <3>2. CASE pubs' = [pubs EXCEPT ![p] = FailedChange(pubs[p])]
        BY <1>0, <3>2, FailedChangeValue
      <3>3. QED  BY <1>6, <2>2, <3>1, <3>2 DEF Changed, NotChanged
    <2>5. RowOK(p) /\ Status(p)' = Status(p)
      BY <1>0, <2>4 DEF RowsOK, Status
    <2>6. RowOK(p)'
      BY <1>0, <2>1, <2>2, <2>4, <2>5, RowFrame
    <2>7. QED  BY <1>a, <2>1, <2>4, <2>6
  <1>7. ASSUME NEW place \in Pubs, NEW n, UNCHANGED pubs,
               site[place].copies > 0 \/ (Recorded(place) /\ place \in yes),
               Sanctioned(place, n), Recorded(place) \/ site[place].copies > 0,
               site'[place].version = n,
               site'[place].copies > 0 \/ site'[place].copies = site[place].copies,
               \A q \in Pubs \ {place} : site'[q] = site[q]
        PROVE  RowsOK'
    <2>1. ASSUME NEW q \in Pubs \ {place} PROVE RowOK(q)'
      BY <1>0, <1>7, <2>1, RowStays DEF RowsOK
    <2>2. RowOK(place) /\ place \in Pubs
      BY <1>0 DEF RowsOK
    <2>3. Recorded(place) /\ place \in yes
      BY <1>7, <2>2 DEF RowOK, Recorded, TypeOK
    <2>4. /\ Recorded(place)' /\ place \in yes' /\ Sanctioned(place, n)'
          /\ Sanctioned(place, pubs[place].version)'
      BY <1>0, <1>7, <2>2, <2>3 DEF RowOK, Grows
    <2>5. RowOK(place)'
      BY <1>7, <2>3, <2>4 DEF RowOK, Recorded, Sanctioned, Status, Article
    <2>6. QED  BY <2>1, <2>5 DEF RowsOK
  <1>8. ASSUME NEW w \in Workers, Arrive(w) PROVE RowsOK'
    <2>1. PICK p, place \in Pubs :
            /\ Recorded(p) /\ p \in yes /\ Sanctioned(p, task[w].version)
            /\ Article(place) = Article(p)
            /\ place # p => InRepository(p) /\ site[place].copies > 0
            /\ \/ UNCHANGED site
               \/ /\ site'[place].version = task[w].version
                  /\ site'[place].copies =
                       IF InRepository(p) \/ site[p].copies = 0 THEN 1 ELSE 2
                  /\ \A q \in Pubs \ {place} : site'[q] = site[q]
      BY <1>8, ArriveValue
    <2>2. Sanctioned(place, task[w].version) /\ UNCHANGED pubs
      BY <1>8, <2>1 DEF Arrive, Sanctioned
    <2>3. CASE UNCHANGED site
      BY <1>b, <2>2, <2>3
    <2>4. CASE ~UNCHANGED site
      <3>1. site'[place].copies > 0
        BY <2>1, <2>4
      <3>2. QED  BY <1>7, <2>1, <2>2, <2>4, <3>1
    <2>5. QED  BY <2>3, <2>4
  <1>9. ASSUME NEW w \in Workers, ChangeArrives(w) PROVE RowsOK'
    <2>1. PICK p, place \in Pubs :
            /\ Recorded(p) /\ Article(place) = Article(p)
            /\ task[w].kind \in {"update", "withdraw"}
            /\ task[w].kind = "update" => Sanctioned(p, task[w].version)
            /\ site'[place].copies = site[place].copies
            /\ site'[place].version = IF task[w].kind = "update" THEN task[w].version
                                      ELSE site[place].version
            /\ \A q \in Pubs \ {place} : site'[q] = site[q]
      BY <1>9, ChangeArrivesValue
    <2>2. UNCHANGED pubs
      BY <1>9 DEF ChangeArrives
    <2>3. ASSUME NEW q \in Pubs \ {place} PROVE RowOK(q)'
      BY <1>0, <2>1, <2>2, RowStays DEF RowsOK
    <2>4. RowOK(place) /\ RowOK(place)'
      <3>1. RowOK(place) /\ Status(place)' = Status(place) /\ Article(place)' = Article(place)
            /\ sanctioned \subseteq sanctioned' /\ yes \subseteq yes'
        BY <1>0, <2>2 DEF RowsOK, Grows, Status, Article
      <3>2. site[place].copies > 0 => Sanctioned(place, site'[place].version)
        BY <2>1, <3>1 DEF RowOK, Sanctioned
      <3>3. QED  BY <2>1, <2>2, <3>1, <3>2 DEF RowOK, Sanctioned, Recorded
    <2>5. QED  BY <2>3, <2>4 DEF RowsOK
  <1>10. QED
    <2>1. \/ UNCHANGED <<pubs, site>>
          \/ \E a \in Articles : Request(a)
          \/ \E d \in Directors, answer \in {"approved", "rejected"} : Decide(d, answer)
          \/ \E p \in Pubs : MarkUncertain(p)
          \/ \E w \in Workers :
               \/ ClaimSend(w) \/ Sent(w) \/ NotSent(w) \/ Changed(w) \/ NotChanged(w)
               \/ Arrive(w) \/ ChangeArrives(w)
      BY DEF Next, Work, EditDraft, ApproveDraft, Look, Enqueue, AskChange,
             DashboardStops, Take, Interrupted, LooseEnds, Again, ReadUpdate, ReadWithdraw
    <2>2. QED
      BY <1>b, <1>1, <1>2, <1>3, <1>4, <1>5, <1>6, <1>8, <1>9, <2>1

\* What is approved of a draft is on record, before and after an edit.
LEMMA DraftsStep ==
  ASSUME IInv, Next
  PROVE  /\ draft' \in [Articles -> [approved : BOOLEAN, version : Versions]]
         /\ sanctioned' \subseteq Articles \X Versions
         /\ DraftsOK'
  <1>0. TypeOK /\ DraftsOK
    BY DEF IInv
  <1> DEFINE Goal == /\ draft' \in [Articles -> [approved : BOOLEAN, version : Versions]]
                     /\ sanctioned' \subseteq Articles \X Versions
                     /\ DraftsOK'
  <1>1. ASSUME NEW a \in Articles, EditDraft(a) PROVE Goal
    <2>1. draft[a].version + 1 \in Versions
      <3>1. draft[a].version \in Nat \ {0}
        BY <1>0 DEF TypeOK, Versions
      <3>2. draft[a].version + 1 \in 1..LastVersion[a]
        BY <1>1, <3>1 DEF EditDraft
      <3>3. QED  BY <3>2, Values
    <2>2. UNCHANGED sanctioned
      BY <1>1 DEF EditDraft
    <2>3. draft' = [draft EXCEPT ![a] = [approved |-> FALSE, version |-> draft[a].version + 1]]
      BY <1>1 DEF EditDraft
    <2>4. QED  BY <1>0, <2>1, <2>2, <2>3 DEF TypeOK, DraftsOK
  <1>2. ASSUME NEW a \in Articles, ApproveDraft(a) PROVE Goal
    <2> DEFINE row == [draft[a] EXCEPT !.approved = TRUE]
    <2>1. draft[a] \in [approved : BOOLEAN, version : Versions]
      BY <1>0 DEF TypeOK
    <2>2. /\ row \in [approved : BOOLEAN, version : Versions]
          /\ row.version = draft[a].version
      BY <2>1
    <2>3. draft' = [draft EXCEPT ![a] = row]
      BY <1>2 DEF ApproveDraft
    <2>4. sanctioned' = sanctioned \cup {<<a, draft[a].version>>}
      BY <1>2 DEF ApproveDraft
    <2> HIDE DEF row
    <2>5. draft' \in [Articles -> [approved : BOOLEAN, version : Versions]]
      BY <1>0, <2>2, <2>3 DEF TypeOK
    <2>6. sanctioned' \subseteq Articles \X Versions
      BY <1>0, <2>1, <2>4 DEF TypeOK
    <2>7. DraftsOK'
      BY <1>0, <2>2, <2>3, <2>4 DEF TypeOK, DraftsOK
    <2>8. QED  BY <2>5, <2>6, <2>7
  <1>3. CASE UNCHANGED <<draft, sanctioned>>
    BY <1>0, <1>3 DEF TypeOK, DraftsOK
  <1>4. \/ \E a \in Articles : EditDraft(a) \/ ApproveDraft(a)
        \/ UNCHANGED <<draft, sanctioned>>
    BY DEF Next, Work, Request, Look, Decide, Enqueue, MarkUncertain, AskChange,
           DashboardStops, Take, Interrupted, LooseEnds, ClaimSend, Arrive, Again,
           Sent, NotSent, ReadUpdate, ReadWithdraw, ChangeArrives, Changed, NotChanged,
           people
  <1>5. QED  BY <1>1, <1>2, <1>3, <1>4

\* What is read, asked for and queued stays of publications that exist.
LEMMA AskedStep ==
  ASSUME IInv, Next
  PROVE  /\ looking' \in [Directors -> Pubs \cup {0}] /\ asking' \subseteq Pubs
         /\ queue' \subseteq Kinds \X Pubs /\ yes' \subseteq Pubs
         /\ AskedOK'
  <1>0. /\ TypeOK /\ AskedOK
        /\ \A p : Recorded(p) => Recorded(p)'
    <2>1. Grows
      BY RowsGrow
    <2>2. QED  BY <2>1 DEF IInv, Grows, Recorded
  <1>1. /\ looking' \in [Directors -> Pubs \cup {0}]
        /\ \A d \in Directors : looking'[d] = 0 \/ Recorded(looking'[d])
    <2>1. ASSUME NEW d \in Directors, NEW p \in Pubs, Look(d, p)
          PROVE  /\ looking' \in [Directors -> Pubs \cup {0}]
                 /\ \A e \in Directors : looking'[e] = 0 \/ Recorded(looking'[e])
      BY <1>0, <2>1 DEF Look, TypeOK, AskedOK, Recorded
    <2>2. ASSUME NEW d \in Directors, NEW answer, Decide(d, answer)
          PROVE  /\ looking' \in [Directors -> Pubs \cup {0}]
                 /\ \A e \in Directors : looking'[e] = 0 \/ Recorded(looking'[e])
      BY <1>0, <2>2 DEF Decide, TypeOK, AskedOK
    <2>3. ASSUME DashboardStops
          PROVE  /\ looking' \in [Directors -> Pubs \cup {0}]
                 /\ \A e \in Directors : looking'[e] = 0 \/ Recorded(looking'[e])
      BY <2>3 DEF DashboardStops
    <2>4. CASE UNCHANGED looking
      BY <1>0, <2>4 DEF TypeOK, AskedOK
    <2>5. \/ \E d \in Directors, p \in Pubs : Look(d, p)
          \/ \E d \in Directors, answer \in {"approved", "rejected"} : Decide(d, answer)
          \/ DashboardStops
          \/ UNCHANGED looking
      BY DEF Next, Work, EditDraft, ApproveDraft, Request, Enqueue, MarkUncertain,
             AskChange, Take, Interrupted, LooseEnds, ClaimSend, Arrive, Again,
             Sent, NotSent, ReadUpdate, ReadWithdraw, ChangeArrives, Changed, NotChanged,
             people
    <2>6. QED  BY <2>1, <2>2, <2>3, <2>4, <2>5
  <1>2. \A p \in asking' : p \in Pubs /\ Recorded(p)
    <2>1. ASSUME NEW d \in Directors, NEW answer, Decide(d, answer)
          PROVE  \A p \in asking' : p \in Pubs /\ Recorded(p)
      BY <1>0, <2>1 DEF Decide, TypeOK, AskedOK, Recorded
    <2>2. CASE asking' \subseteq asking
      BY <1>0, <2>2 DEF TypeOK, AskedOK
    <2>3. \/ \E d \in Directors, answer \in {"approved", "rejected"} : Decide(d, answer)
          \/ asking' \subseteq asking
      BY DEF Next, Work, EditDraft, ApproveDraft, Request, Look, Enqueue, MarkUncertain,
             AskChange, DashboardStops, Take, Interrupted, LooseEnds, ClaimSend, Arrive,
             Again, Sent, NotSent, ReadUpdate, ReadWithdraw, ChangeArrives, Changed,
             NotChanged
    <2>4. QED  BY <2>1, <2>2, <2>3
  <1>3. queue' \subseteq Kinds \X Pubs /\ \A job \in queue' : Recorded(job[2])
    <2>1. ASSUME NEW job \in Kinds \X Pubs, Recorded(job[2]), queue' \subseteq queue \cup {job}
          PROVE  queue' \subseteq Kinds \X Pubs /\ \A j \in queue' : Recorded(j[2])
      BY <1>0, <2>1 DEF TypeOK, AskedOK
    <2>2. ASSUME NEW p \in Pubs, Enqueue(p)
          PROVE  \E job \in Kinds \X Pubs : Recorded(job[2]) /\ queue' \subseteq queue \cup {job}
      <3>1. Recorded(p)
        BY <1>0, <2>2 DEF Enqueue, AskedOK
      <3>2. <<"publish", p>> \in Kinds \X Pubs /\ queue' = queue \cup {<<"publish", p>>}
        BY <2>2 DEF Enqueue
      <3>3. QED  BY <3>1, <3>2
    <2>3. ASSUME NEW kind \in {"update", "withdraw"}, NEW p \in Pubs, AskChange(kind, p)
          PROVE  \E job \in Kinds \X Pubs : Recorded(job[2]) /\ queue' \subseteq queue \cup {job}
      <3>1. Recorded(p)
        BY <2>3 DEF AskChange, Recorded
      <3>2. <<kind, p>> \in Kinds \X Pubs /\ queue' = queue \cup {<<kind, p>>}
        BY <2>3 DEF AskChange
      <3>3. QED  BY <3>1, <3>2
    <2>4. ASSUME NEW w \in Workers, Interrupted(w)
          PROVE  \E job \in Kinds \X Pubs : Recorded(job[2]) /\ queue' \subseteq queue \cup {job}
      <3>1. /\ task[w].kind \in Kinds /\ task[w].pub \in Pubs /\ Recorded(task[w].pub)
            /\ queue' = queue \cup {<<task[w].kind, task[w].pub>>}
        BY <2>4, WorkFacts DEF Interrupted
      <3>2. QED  BY <3>1
    <2>5. CASE queue' \subseteq queue
      BY <1>0, <2>5 DEF TypeOK, AskedOK
    <2>6. \/ \E p \in Pubs : Enqueue(p)
          \/ \E kind \in {"update", "withdraw"}, p \in Pubs : AskChange(kind, p)
          \/ \E w \in Workers : Interrupted(w)
          \/ queue' \subseteq queue
      BY DEF Next, Work, EditDraft, ApproveDraft, Request, Look, Decide, MarkUncertain,
             DashboardStops, Take, LooseEnds, ClaimSend, Arrive, Again, Sent, NotSent,
             ReadUpdate, ReadWithdraw, ChangeArrives, Changed, NotChanged
    <2>7. QED  BY <2>1, <2>2, <2>3, <2>4, <2>5, <2>6
  <1>4. yes' \subseteq Pubs
    <2>1. ASSUME NEW d \in Directors, NEW answer, Decide(d, answer) PROVE yes' \subseteq Pubs
      BY <1>0, <2>1 DEF Decide, TypeOK
    <2>2. \/ \E d \in Directors, answer \in {"approved", "rejected"} : Decide(d, answer)
          \/ UNCHANGED yes
      BY DEF Next, Work, EditDraft, ApproveDraft, Request, Look, Enqueue, MarkUncertain,
             AskChange, DashboardStops, Take, Interrupted, LooseEnds, ClaimSend, Arrive,
             Again, Sent, NotSent, ReadUpdate, ReadWithdraw, ChangeArrives, Changed,
             NotChanged, people
    <2>3. QED  BY <1>0, <2>1, <2>2 DEF TypeOK
  <1>5. AskedOK'
    <2>1. \A p : p \in Pubs /\ pubs[p].status # "none" => pubs'[p].status # "none"
      BY <1>0 DEF Recorded, Status
    <2>2. QED  BY <1>1, <1>2, <1>3, <2>1 DEF AskedOK, Recorded, Status
  <1>6. QED  BY <1>1, <1>2, <1>3, <1>4, <1>5

\* The invariant is inductive.
LEMMA InvStep == IInv /\ [Next]_vars => IInv'
  <1> SUFFICES ASSUME IInv, [Next]_vars PROVE IInv'
    OBVIOUS
  <1>1. CASE Next
    <2>1. faults' \in 0..MaxFaults
      <3>1. \/ UNCHANGED faults
            \/ Fault
        BY <1>1
           DEF Next, Work, EditDraft, ApproveDraft, Request, Look, Decide, Enqueue,
               MarkUncertain, AskChange, DashboardStops, Take, Interrupted, LooseEnds,
               ClaimSend, Arrive, Again, Sent, NotSent, ReadUpdate, ReadWithdraw,
               ChangeArrives, Changed, NotChanged, Fails
      <3>2. QED  BY <3>1 DEF Fault, IInv, TypeOK
    <2>2. TypeOK'
      BY <1>1, <2>1, RowsGrow, TasksStep, SiteStep, DraftsStep, AskedStep DEF TypeOK
    <2>3. QED  BY <1>1, <2>2, TasksStep, RowsStep, DraftsStep, AskedStep DEF IInv
  <1>2. CASE UNCHANGED vars
    BY <1>2
       DEF vars, IInv, TypeOK, DraftsOK, RowsOK, RowOK, AskedOK, TasksOK, TaskOK,
           Recorded, Sanctioned, Working, Status, Article, Busy, At, Sends
  <1>3. QED  BY <1>1, <1>2

LEMMA InitInv == Init => IInv
  <1> SUFFICES ASSUME Init PROVE IInv
    OBVIOUS
  <1>1. (CHOOSE a \in Articles : TRUE) \in Articles
    OBVIOUS
  <1>2. \A a \in Articles : 1 \in 1..LastVersion[a]
    OBVIOUS
  <1>3. TypeOK
    <2>1. pubs \in [Pubs -> Publication]
      BY <1>1, Values DEF Init, Publication
    <2>2. site \in [Pubs -> Post]
      BY Values DEF Init, Post
    <2>3. draft \in [Articles -> [approved : BOOLEAN, version : Versions]]
      BY Values DEF Init
    <2>4. task \in [Workers -> Task]
      BY Values DEF Init
    <2>5. QED  BY <2>1, <2>2, <2>3, <2>4 DEF Init, TypeOK
  <1>4. RowsOK
    BY DEF Init, RowsOK, RowOK, Recorded, Status, Decided
  <1>5. TasksOK
    BY Values DEF Init, TasksOK, TaskOK, Busy, At, Working, Sends
  <1>6. DraftsOK /\ AskedOK
    BY DEF Init, DraftsOK, AskedOK
  <1>7. QED  BY <1>3, <1>4, <1>5, <1>6 DEF IInv

LEMMA Invariance == Spec => []IInv
  BY InitInv, InvStep, PTL DEF Spec

LEMMA ApprovedShown == IInv => OnlineIsApproved
  BY DEF IInv, RowsOK, RowOK, Sanctioned, OnlineIsApproved

-----------------------------------------------------------------------------
\* The tables, the site and the tasks of the workers keep their types.
THEOREM TypeCorrect == Spec => []TypeOK
  <1>1. IInv => TypeOK
    BY DEF IInv
  <1>2. QED  BY <1>1, Invariance, PTL

\* Whatever is edited, decided, repeated or lost, and however transactions
\* overlap, what a destination shows is of a publication a person said yes to,
\* with a text a person approved.
THEOREM OnlyApprovedOnline == Spec => []OnlineIsApproved
  BY ApprovedShown, Invariance, PTL

-----------------------------------------------------------------------------
(***************************************************************************)
(* One post of a publication, where one transaction decides at a time.     *)
(***************************************************************************)

Early == {"none", "pending_approval", "approved", "rejected"}

Sending(w, p) == Sends(w) /\ Working(w) /\ task[w].at = p

\* What is being decided is still pending, and decided once.
LookOK ==
  /\ \A d \in Directors : looking[d] # 0 => Status(looking[d]) = "pending_approval"
  /\ \A d, e \in Directors : looking[d] # 0 /\ looking[e] # 0 => d = e

\* One task sends a publication, which nothing brings back to be sent.
OnceOK(p) ==
  /\ site[p].copies <= 1
  /\ Status(p) \in Early => site[p].copies = 0
  /\ \A w \in Workers : Sending(w, p) => Status(p) \in {"sending", "failed"}
  /\ \A w, v \in Workers : Sending(w, p) /\ Sending(v, p) => w = v
  /\ \A w \in Workers :
       Sending(w, p) /\ At(w, "send") /\ ~InRepository(p) => site[p].copies = 0

Once == LookOK /\ \A p \in Pubs : OnceOK(p)

\* The publication a task is done with.
LEMMA SendingIt ==
  ASSUME IInv, NEW w \in Workers, Sends(w), Working(w)
  PROVE  \E p \in Pubs : p = task[w].at /\ p = task[w].pub /\ Sending(w, p) /\ Recorded(p)
  BY WorkFacts DEF Sends, Busy, Sending

\* How the status of a publication goes: never back.
LEMMA StatusStep ==
  ASSUME IInv, Once, Next
  PROVE  \A p \in Pubs :
           \/ Status(p)' = Status(p)
           \/ /\ Status(p) = "none" /\ Status(p)' = "pending_approval"
              /\ \E a \in Articles : Request(a)
           \/ /\ Status(p) = "pending_approval" /\ Status(p)' \in {"approved", "rejected"}
              /\ \A d \in Directors : looking'[d] = 0
           \/ Status(p) = "approved" /\ Status(p)' = "sending"
           \/ Status(p) \in {"sending", "failed"} /\ Status(p)' = "failed"
           \/ /\ Status(p) \in {"sending", "failed"} /\ Status(p)' = "published"
              /\ \E w \in Workers : Sent(w) /\ Sending(w, p)
  <1>0. TypeOK /\ LookOK /\ \A p \in Pubs : OnceOK(p)
    BY DEF IInv, Once
  <1> SUFFICES ASSUME NEW p \in Pubs, Status(p)' # Status(p)
               PROVE  \/ /\ Status(p) = "none" /\ Status(p)' = "pending_approval"
                         /\ \E a \in Articles : Request(a)
                      \/ /\ Status(p) = "pending_approval"
                         /\ Status(p)' \in {"approved", "rejected"}
                         /\ \A d \in Directors : looking'[d] = 0
                      \/ Status(p) = "approved" /\ Status(p)' = "sending"
                      \/ Status(p) \in {"sending", "failed"} /\ Status(p)' = "failed"
                      \/ /\ Status(p) \in {"sending", "failed"} /\ Status(p)' = "published"
                         /\ \E w \in Workers : Sent(w) /\ Sending(w, p)
    OBVIOUS
  <1>1. ASSUME NEW a \in Articles, Request(a)
        PROVE  Status(p) = "none" /\ Status(p)' = "pending_approval"
    <2>1. PICK q \in Pubs :
            /\ Status(q) = "none"
            /\ pubs' = [pubs EXCEPT ![q] =
                 [status |-> "pending_approval", article |-> a, version |-> draft[a].version,
                  withdrawn |-> FALSE, error |-> FALSE]]
      BY <1>1 DEF Request
    <2>2. \A x \in Pubs \ {q} : pubs'[x] = pubs[x]
      BY <1>0, <2>1 DEF TypeOK
    <2>3. pubs'[q].status = "pending_approval"
      BY <1>0, <2>1 DEF TypeOK
    <2>4. QED  BY <2>1, <2>2, <2>3 DEF Status
  <1>2. ASSUME NEW d \in Directors, NEW answer \in {"approved", "rejected"},
               Decide(d, answer)
        PROVE  /\ Status(p) = "pending_approval" /\ Status(p)' \in {"approved", "rejected"}
               /\ \A e \in Directors : looking'[e] = 0
    <2>1. PICK q \in Pubs : q = looking[d]
      BY <1>0, <1>2 DEF Decide, TypeOK
    <2>2. pubs' = [pubs EXCEPT ![q] = [pubs[q] EXCEPT !.status = answer]]
      BY <1>2, <2>1 DEF Decide
    <2>3. pubs'[q].status = answer /\ \A x \in Pubs \ {q} : pubs'[x] = pubs[x]
      BY <1>0, <2>2, StatusValue
    <2>4. Status(q) = "pending_approval"
      BY <1>0, <1>2, <2>1 DEF Decide, LookOK
    <2>5. \A e \in Directors : looking'[e] = 0
      BY <1>0, <1>2 DEF Decide, LookOK, TypeOK
    <2>6. QED  BY <2>3, <2>4, <2>5 DEF Status
  <1>3. ASSUME NEW q \in Pubs, MarkUncertain(q)
        PROVE  Status(p) \in {"sending", "failed"} /\ Status(p)' = "failed"
    <2>1. pubs'[q].status = "failed" /\ \A x \in Pubs \ {q} : pubs'[x] = pubs[x]
      BY <1>0, <1>3, OutcomeValue DEF MarkUncertain
    <2>2. QED  BY <1>3, <2>1 DEF MarkUncertain, Status
  <1>4. ASSUME NEW w \in Workers, ClaimSend(w)
        PROVE  Status(p) = "approved" /\ Status(p)' = "sending"
    <2>1. PICK q \in Pubs : q = task[w].pub
      BY <1>4, WorkFacts DEF ClaimSend, Sends, Busy
    <2>2. CASE MaySend(q)
      <3>1. pubs' = [pubs EXCEPT ![q] = [pubs[q] EXCEPT !.status = "sending"]]
        BY <1>4, <2>1, <2>2 DEF ClaimSend
      <3>2. pubs'[q].status = "sending" /\ \A x \in Pubs \ {q} : pubs'[x] = pubs[x]
        BY <1>0, <3>1, StatusValue
      <3>3. QED  BY <2>2, <3>2 DEF MaySend, Status
    <2>3. CASE ~MaySend(q)
      BY <1>4, <2>1, <2>3 DEF ClaimSend, Status
    <2>4. QED  BY <2>2, <2>3
  <1>5. ASSUME NEW w \in Workers, Sent(w)
        PROVE  /\ Status(p) \in {"sending", "failed"} /\ Status(p)' = "published"
               /\ Sending(w, p)
    <2>1. PICK q \in Pubs : q = task[w].pub /\ Sending(w, q)
      BY <1>5, SendingIt DEF Sent, Working, At
    <2>2. pubs' = [pubs EXCEPT ![q] = [pubs[q] EXCEPT !.status = "published",
                                                      !.error = FALSE]]
      BY <1>5, <2>1 DEF Sent, Status
    <2>3. pubs'[q].status = "published" /\ \A x \in Pubs \ {q} : pubs'[x] = pubs[x]
      BY <1>0, <2>2, OutcomeValue
    <2>4. Status(q) \in {"sending", "failed"}
      BY <1>0, <2>1 DEF OnceOK
    <2>5. QED  BY <2>1, <2>3, <2>4 DEF Status
  <1>6. ASSUME NEW w \in Workers, NotSent(w)
        PROVE  Status(p) \in {"sending", "failed"} /\ Status(p)' = "failed"
    <2>1. PICK q \in Pubs : q = task[w].pub /\ Sending(w, q)
      BY <1>6, SendingIt DEF NotSent, Fails, Working, At
    <2>2. pubs' = [pubs EXCEPT ![q] = [pubs[q] EXCEPT !.status = "failed", !.error = TRUE]]
      BY <1>6, <2>1 DEF NotSent
    <2>3. pubs'[q].status = "failed" /\ \A x \in Pubs \ {q} : pubs'[x] = pubs[x]
      BY <1>0, <2>2, OutcomeValue
    <2>4. Status(q) \in {"sending", "failed"}
      BY <1>0, <2>1 DEF OnceOK
    <2>5. QED  BY <2>3, <2>4 DEF Status
  <1>7. ASSUME NEW w \in Workers, Changed(w) \/ NotChanged(w)
        PROVE  Status(p)' = Status(p)
    <2>1. Busy(w) /\ Working(w)
      BY <1>7 DEF Changed, NotChanged, Changes, Busy, Working, Fails, At
    <2>2. PICK q \in Pubs, kind \in {"update", "withdraw"}, n \in Versions :
            q = task[w].at /\ kind = task[w].kind /\ n = task[w].version
      BY <1>7, <2>1, WorkFacts DEF Changed, NotChanged, Changes
    <2>3. pubs'[q].status = pubs[q].status /\ \A x \in Pubs \ {q} : pubs'[x] = pubs[x]
      <3>1. CASE pubs' = [pubs EXCEPT ![q] = Written(pubs[q], kind, n)]
        BY <1>0, <3>1, ChangedValue
      <3>2. CASE pubs' = [pubs EXCEPT ![q] = FailedChange(pubs[q])]
        BY <1>0, <3>2, FailedChangeValue
      <3>3. QED  BY <1>7, <2>2, <3>1, <3>2 DEF Changed, NotChanged
    <2>4. QED  BY <2>3 DEF Status
  <1>8. \/ UNCHANGED pubs
        \/ \E a \in Articles : Request(a)
        \/ \E d \in Directors, answer \in {"approved", "rejected"} : Decide(d, answer)
        \/ \E q \in Pubs : MarkUncertain(q)
        \/ \E w \in Workers :
             ClaimSend(w) \/ Sent(w) \/ NotSent(w) \/ Changed(w) \/ NotChanged(w)
    BY DEF Next, Work, EditDraft, ApproveDraft, Look, Enqueue, AskChange,
           DashboardStops, Take, Interrupted, LooseEnds, Arrive, Again, ReadUpdate,
           ReadWithdraw, ChangeArrives
  <1>9. UNCHANGED pubs => Status(p)' = Status(p)
    BY DEF Status
  <1>10. QED  BY <1>1, <1>2, <1>3, <1>4, <1>5, <1>6, <1>7, <1>8, <1>9

\* A task changes by a step of its own worker.
LEMMA WhoseStep ==
  ASSUME IInv, Next, NEW w \in Workers, task'[w] # task[w]
  PROVE  Take(w) \/ Interrupted(w) \/ LooseEnds(w) \/ Work(w)
  <1>0. TypeOK
    BY DEF IInv
  <1>1. ASSUME NEW v \in Workers \ {w}
        PROVE  /\ ~Take(v) /\ ~Interrupted(v) /\ ~LooseEnds(v) /\ ~Work(v)
    <2>1. Take(v) => task'[w] = task[w]
      BY <1>0, TakeValue
    <2>2. Interrupted(v) => task'[w] = task[w]
      BY <1>0, InterruptedValue
    <2>3. LooseEnds(v) => task'[w] = task[w]
      BY <1>0, EndsValue DEF LooseEnds
    <2>4. ASSUME Work(v) PROVE task'[w] = task[w]
      <3>1. \E x : task' = [task EXCEPT ![v] = x]
        BY <2>4, Zenon
           DEF Work, ClaimSend, Arrive, Again, Sent, NotSent, ReadUpdate, ReadWithdraw,
               ChangeArrives, Changed, NotChanged, Goes, Change, Ends, Go
      <3>2. QED  BY <1>0, <3>1 DEF TypeOK
    <2>5. QED  BY <2>1, <2>2, <2>3, <2>4
  <1>2. \/ UNCHANGED task
        \/ \E v \in Workers : Take(v) \/ Interrupted(v) \/ LooseEnds(v) \/ Work(v)
    BY DEF Next, EditDraft, ApproveDraft, Request, Look, Decide, Enqueue,
           MarkUncertain, AskChange, DashboardStops
  <1>3. QED  BY <1>1, <1>2

\* How a publication comes to be sent by a task: it claims it.
LEMMA SendingStep ==
  ASSUME IInv, Once, Next
  PROVE  \A w \in Workers, p \in Pubs : Sending(w, p)' =>
           \/ /\ Sending(w, p) /\ ~Sent(w)
              /\ At(w, "send")' => ~Arrive(w) /\ (At(w, "send") \/ InRepository(p))
              /\ At(w, "arrived")' => At(w, "arrived") \/ Arrive(w)
           \/ /\ Status(p) = "approved" /\ Status(p)' = "sending" /\ At(w, "send")'
              /\ \A v \in Workers \ {w} : task'[v] = task[v]
              /\ UNCHANGED site
  <1>0. TypeOK
    BY DEF IInv
  <1> SUFFICES ASSUME NEW w \in Workers, NEW p \in Pubs, Sending(w, p)'
               PROVE  \/ /\ Sending(w, p) /\ ~Sent(w)
                         /\ At(w, "send")' => ~Arrive(w) /\ (At(w, "send") \/ InRepository(p))
                         /\ At(w, "arrived")' => At(w, "arrived") \/ Arrive(w)
                      \/ /\ Status(p) = "approved" /\ Status(p)' = "sending"
                         /\ At(w, "send")'
                         /\ \A v \in Workers \ {w} : task'[v] = task[v]
                         /\ UNCHANGED site
    OBVIOUS
  <1>1. task'[w].kind = "publish" /\ task'[w].pc \in {"send", "arrived"} /\ task'[w].at = p
    BY DEF Sending, Sends, Working
  <1>2. task'[w] # NoTask
    BY <1>1, Values
  <1>a. ASSUME task'[w].kind = task[w].kind, task'[w].at = task[w].at, task'[w].pc = task[w].pc
        PROVE  /\ Sending(w, p) /\ (At(w, "send")' => At(w, "send"))
               /\ At(w, "arrived")' => At(w, "arrived")
    BY <1>1, <1>a DEF Sending, Sends, Working, At
  <1>3. CASE task'[w] = task[w]
    <2>1. ~Sent(w) /\ ~Arrive(w)
      BY <1>0, <1>1, <1>2, <1>3, EndsValue, GoValue DEF Sent, Arrive, At
    <2>2. QED  BY <1>3, <1>a, <2>1
  <1>4. CASE task'[w] # task[w]
    <2>1. Take(w) \/ Interrupted(w) \/ LooseEnds(w) \/ Work(w)
      BY <1>4, WhoseStep
    <2>2. ~Ends(w)
      BY <1>0, <1>2, EndsValue
    <2>3. ~Take(w)
      BY <1>0, <1>1, TakeValue
    <2>4. CASE Interrupted(w)
      <3>1. /\ task'[w].pc = task[w].pc /\ task'[w].kind = task[w].kind
            /\ task'[w].at = task[w].at
        BY <1>0, <1>2, <2>4, InterruptedValue
      <3>2. ~Arrive(w) \/ ~At(w, "send")'
        BY <1>0, GoValue DEF Arrive, At
      <3>3. ~Sent(w)
        BY <2>2 DEF Sent
      <3>4. QED  BY <1>a, <3>1, <3>2, <3>3
    <2>5. CASE Arrive(w)
      <3>1. /\ task'[w].pc = "arrived" /\ task'[w].kind = task[w].kind
            /\ task'[w].at = task[w].at
        BY <1>0, <2>5, GoValue DEF Arrive
      <3>2. ~Sent(w)
        BY <2>2 DEF Sent
      <3>3. QED  BY <1>1, <2>5, <3>1, <3>2 DEF Arrive, Sending, Sends, Working, At
    <2>6. CASE Again(w)
      <3>1. /\ task'[w].pc = "send" /\ task'[w].kind = task[w].kind
            /\ task'[w].at = task[w].at
        BY <1>0, <2>6, AgainValue
      <3>2. Sending(w, p) /\ InRepository(p)
        BY <1>1, <2>6, <3>1 DEF Again, MayRetry, Fails, Sending, Sends, Working, At
      <3>3. ~Sent(w) /\ (~Arrive(w) \/ ~At(w, "send")') /\ ~At(w, "arrived")'
        BY <1>0, <2>2, <3>1, GoValue DEF Sent, Arrive, At
      <3>4. QED  BY <3>2, <3>3
    <2>7. CASE ClaimSend(w)
      <3>1. PICK q \in Pubs : q = task[w].pub
        BY <2>7, WorkFacts DEF ClaimSend, Sends, Busy
      <3>2. MaySend(q)
        BY <2>2, <2>7, <3>1 DEF ClaimSend
      <3>3. /\ task' = [task EXCEPT ![w] = [task[w] EXCEPT !.pc = "send", !.at = q,
                                                           !.version = pubs[q].version]]
            /\ pubs' = [pubs EXCEPT ![q] = [pubs[q] EXCEPT !.status = "sending"]]
            /\ UNCHANGED site
        BY <2>7, <3>1, <3>2 DEF ClaimSend
      <3>4. /\ task'[w].at = q /\ task'[w].pc = "send"
            /\ \A v \in Workers \ {w} : task'[v] = task[v]
        BY <1>0, <3>3, ClaimValue, Zenon
      <3>5. pubs'[q].status = "sending"
        BY <1>0, <3>3, StatusValue, Zenon
      <3>6. QED  BY <1>1, <3>2, <3>3, <3>4, <3>5 DEF MaySend, Status, At
    <2>8. CASE ChangeArrives(w)
      BY <1>0, <1>1, <2>8, GoValue DEF ChangeArrives, Changes
    <2>9. ~ReadUpdate(w) /\ ~ReadWithdraw(w) /\ ~Changed(w) /\ ~NotChanged(w)
      <3>1. ASSUME NEW q, NEW n, NEW rest, Change(w, q, n, rest), task[w].kind # "publish"
            PROVE  FALSE
        <4>1. task[w] \in Task
          BY <1>0 DEF TypeOK
        <4>2. task'[w].kind = task[w].kind
          BY <1>0, <3>1, <4>1 DEF Change, TypeOK, Task
        <4>3. QED  BY <1>1, <3>1, <4>2
      <3>2. QED
        BY <2>2, <3>1 DEF ReadUpdate, ReadWithdraw, Changed, NotChanged, Changes, Goes
    <2>10. ~Sent(w) /\ ~NotSent(w) /\ ~LooseEnds(w)
      BY <2>2 DEF Sent, NotSent, LooseEnds
    <2>11. QED
      BY <2>1, <2>3, <2>4, <2>5, <2>6, <2>7, <2>8, <2>9, <2>10 DEF Work
  <1>5. QED  BY <1>3, <1>4

\* One director at a time reads what is pending.
LEMMA LookStep ==
  ASSUME ~DecisionsRace, IInv, Once, Next
  PROVE  LookOK'
  <1>0. TypeOK /\ LookOK
    BY DEF IInv, Once
  <1>1. ASSUME NEW d \in Directors, NEW p \in Pubs, Look(d, p) PROVE LookOK'
    <2>1. /\ UNCHANGED pubs /\ Status(p) = "pending_approval"
          /\ looking' = [looking EXCEPT ![d] = p]
          /\ \A e \in Directors : looking[e] = 0
      BY <1>1 DEF Look
    <2>2. QED  BY <1>0, <2>1 DEF LookOK, TypeOK, Status
  <1>2. ASSUME NEW d \in Directors, NEW answer, Decide(d, answer) PROVE LookOK'
    <2>1. \A e \in Directors : looking'[e] = 0
      BY <1>0, <1>2 DEF Decide, LookOK, TypeOK
    <2>2. QED  BY <2>1 DEF LookOK
  <1>3. CASE DashboardStops
    BY <1>3 DEF DashboardStops, LookOK
  <1>4. CASE UNCHANGED looking
    <2>1. ASSUME NEW d \in Directors, looking[d] # 0
          PROVE  Status(looking[d])' = "pending_approval"
      <3>1. PICK p \in Pubs : p = looking[d]
        BY <1>0, <2>1 DEF TypeOK
      <3>2. Status(p) = "pending_approval"
        BY <1>0, <2>1, <3>1 DEF LookOK
      <3>3. Status(p)' = Status(p) \/ \A e \in Directors : looking'[e] = 0
        BY <3>2, StatusStep
      <3>4. QED  BY <1>4, <2>1, <3>1, <3>2, <3>3 DEF Status
    <2>2. QED  BY <1>0, <1>4, <2>1 DEF LookOK
  <1>5. \/ \E d \in Directors, p \in Pubs : Look(d, p)
        \/ \E d \in Directors, answer \in {"approved", "rejected"} : Decide(d, answer)
        \/ DashboardStops
        \/ UNCHANGED looking
    BY DEF Next, Work, EditDraft, ApproveDraft, Request, Enqueue, MarkUncertain,
           AskChange, Take, Interrupted, LooseEnds, ClaimSend, Arrive, Again,
           Sent, NotSent, ReadUpdate, ReadWithdraw, ChangeArrives, Changed, NotChanged,
           people
  <1>6. QED  BY <1>1, <1>2, <1>3, <1>4, <1>5

\* What a step does to the posts of one publication.
LEMMA CopiesStep ==
  ASSUME IInv, Once, Next
  PROVE  \A p \in Pubs :
           \/ site'[p].copies = site[p].copies
           \/ /\ site'[p].copies = 1
              /\ \E w \in Workers, q \in Pubs :
                   /\ Arrive(w) /\ Sending(w, q) /\ At(w, "send") /\ p = Place(q)
                   /\ q # p => InRepository(p) /\ site[p].copies > 0
  <1>0. TypeOK /\ \A p \in Pubs : OnceOK(p)
    BY DEF IInv, Once
  <1> SUFFICES ASSUME NEW p \in Pubs, site'[p].copies # site[p].copies
               PROVE  /\ site'[p].copies = 1
                      /\ \E w \in Workers, q \in Pubs :
                           /\ Arrive(w) /\ Sending(w, q) /\ At(w, "send") /\ p = Place(q)
                           /\ q # p => InRepository(p) /\ site[p].copies > 0
    OBVIOUS
  <1>1. ASSUME NEW w \in Workers, ChangeArrives(w) PROVE FALSE
    <2>1. PICK place \in Pubs :
            /\ site'[place].copies = site[place].copies
            /\ \A q \in Pubs \ {place} : site'[q] = site[q]
      BY <1>1, ChangeArrivesValue
    <2>2. QED  BY <2>1
  <1>2. PICK w \in Workers : Arrive(w)
    BY <1>1, SiteStep
  <1>3. PICK q, place \in Pubs :
          /\ q = task[w].at /\ place = Place(q) /\ Article(place) = Article(q)
          /\ place # q => InRepository(q) /\ site[place].copies > 0
          /\ \/ UNCHANGED site
             \/ /\ site'[place].copies = IF InRepository(q) \/ site[q].copies = 0 THEN 1 ELSE 2
                /\ \A x \in Pubs \ {place} : site'[x] = site[x]
    BY <1>2, ArriveValue
  <1>4. Sending(w, q) /\ At(w, "send")
    BY <1>2, <1>3 DEF Arrive, Sending, Sends, Working, At
  <1>5. place = p
    BY <1>3
  <1>6. ~InRepository(q) => site[q].copies = 0
    BY <1>0, <1>4 DEF OnceOK
  <1>7. site'[p].copies = 1
    BY <1>3, <1>5, <1>6
  <1>8. q # p => InRepository(p) /\ site[p].copies > 0
    BY <1>3, <1>5 DEF InRepository
  <1>9. QED  BY <1>2, <1>3, <1>4, <1>5, <1>7, <1>8

\* Every publication is claimed once, and posted once.
LEMMA OnceStep ==
  ASSUME ~DecisionsRace, IInv, Once, Next
  PROVE  Once'
  <1>0. TypeOK /\ Grows /\ \A p \in Pubs : OnceOK(p)
    BY RowsGrow DEF IInv, Once
  <1>1. ASSUME NEW p \in Pubs PROVE OnceOK(p)'
    <2>0. OnceOK(p) /\ site[p].copies \in 0..2
      BY <1>0 DEF TypeOK, Post
    <2>a. \/ site'[p].copies = site[p].copies
          \/ /\ site'[p].copies = 1
             /\ \E w \in Workers, q \in Pubs :
                  /\ Arrive(w) /\ Sending(w, q) /\ At(w, "send")
                  /\ q # p => InRepository(p) /\ site[p].copies > 0
      BY CopiesStep, Zenon
    <2>1. site'[p].copies <= 1
      <3>1. site[p].copies <= 1
        BY <2>0 DEF OnceOK
      <3>2. QED  BY <2>a, <3>1
    <2>2. ASSUME Status(p)' \in Early PROVE site'[p].copies = 0
      <3>1. Status(p) \in Early
        BY <2>2, StatusStep DEF Early
      <3>2. site[p].copies = 0
        BY <2>0, <3>1 DEF OnceOK
      <3>3. \A w \in Workers : ~Sending(w, p)
        BY <2>0, <3>1 DEF OnceOK, Early
      <3>4. QED  BY <2>a, <3>2, <3>3
    <2>3. ASSUME NEW w \in Workers, Sending(w, p)'
          PROVE  Status(p)' \in {"sending", "failed"}
      <3>1. CASE Sending(w, p) /\ ~Sent(w)
        <4>1. Status(p) \in {"sending", "failed"}
          BY <2>0, <3>1 DEF OnceOK
        <4>2. \A v \in Workers : Sent(v) => ~Sending(v, p)
          BY <2>0, <3>1 DEF OnceOK
        <4>3. QED  BY <4>1, <4>2, StatusStep
      <3>2. CASE Status(p)' = "sending"
        BY <3>2
      <3>3. QED  BY <2>3, <3>1, <3>2, SendingStep
    <2>4. ASSUME NEW w \in Workers, NEW v \in Workers, Sending(w, p)', Sending(v, p)'
          PROVE  w = v
      <3>1. ASSUME NEW x \in Workers, NEW y \in Workers, x # y,
                   Sending(x, p)', Sending(y, p)', Status(p) = "approved",
                   \A z \in Workers \ {x} : task'[z] = task[z]
            PROVE  FALSE
        <4>1. Sending(y, p)
          BY <3>1 DEF Sending, Sends, Working
        <4>2. QED  BY <2>0, <3>1, <4>1 DEF OnceOK
      <3>2. CASE Sending(w, p) /\ Sending(v, p)
        BY <2>0, <3>2 DEF OnceOK
      <3>3. \/ Sending(w, p)
            \/ Status(p) = "approved" /\ \A z \in Workers \ {w} : task'[z] = task[z]
        BY <2>4, SendingStep
      <3>4. \/ Sending(v, p)
            \/ Status(p) = "approved" /\ \A z \in Workers \ {v} : task'[z] = task[z]
        BY <2>4, SendingStep
      <3>5. QED  BY <2>4, <3>1, <3>2, <3>3, <3>4
    <2>5. ASSUME NEW w \in Workers, Sending(w, p)', At(w, "send")', ~InRepository(p)'
          PROVE  site'[p].copies = 0
      <3>1. ~InRepository(p)
        <4>1. Recorded(p)
          <5>1. Sending(w, p) \/ Status(p) = "approved"
            BY <2>5, SendingStep
          <5>2. QED  BY <2>0, <5>1 DEF OnceOK, Recorded
        <4>2. QED  BY <1>0, <2>5, <4>1 DEF Grows, InRepository
      <3>2. CASE Sending(w, p) /\ ~Arrive(w) /\ At(w, "send")
        <4>1. site[p].copies = 0
          BY <2>0, <3>1, <3>2 DEF OnceOK
        <4>2. \A v \in Workers : Sending(v, p) => ~Arrive(v)
          BY <2>0, <3>2 DEF OnceOK
        <4>3. \A v \in Workers, q \in Pubs : Arrive(v) /\ Sending(v, q) => q # p
          BY <4>2
        <4>4. QED  BY <2>a, <3>1, <4>1, <4>3
      <3>3. CASE Status(p) = "approved" /\ UNCHANGED site
        BY <2>0, <3>3 DEF OnceOK, Early
      <3>4. QED  BY <2>5, <3>1, <3>2, <3>3, SendingStep
    <2>6. QED  BY <2>1, <2>2, <2>3, <2>4, <2>5 DEF OnceOK
  <1>2. QED  BY <1>1, LookStep DEF Once

LEMMA OnceInv == ~DecisionsRace /\ IInv /\ Once /\ [Next]_vars => Once'
  <1> SUFFICES ASSUME ~DecisionsRace, IInv, Once, [Next]_vars PROVE Once'
    OBVIOUS
  <1>1. CASE UNCHANGED vars
    BY <1>1
       DEF vars, Once, LookOK, OnceOK, Sending, Sends, Working, At, InRepository,
           Status, Article
  <1>2. QED  BY <1>1, OnceStep

LEMMA OnceInit == Init => Once
  <1> SUFFICES ASSUME Init PROVE Once
    OBVIOUS
  <1>1. \A w \in Workers : task[w].pc = "idle"
    BY Values DEF Init
  <1>2. QED  BY <1>1 DEF Init, Once, LookOK, OnceOK, Sending, Working

LEMMA OnceShown == Once => NotRepeated
  BY DEF Once, OnceOK, NotRepeated

\* Where one transaction decides at a time, a destination makes one post of a
\* publication: interrupted, queued again, retried, lost or declared failed, it
\* is sent once, and a file of a repository is one file.
THEOREM SentOnce == ~DecisionsRace => (Spec => []NotRepeated)
  <1> SUFFICES ASSUME ~DecisionsRace PROVE Spec => []NotRepeated
    OBVIOUS
  <1>1. IInv /\ Once /\ [Next]_vars => Once'
    BY OnceInv
  <1>2. QED  BY <1>1, OnceShown, OnceInit, Invariance, PTL DEF Spec

-----------------------------------------------------------------------------
(***************************************************************************)
(* What is published is online, where one change at a time is made too.    *)
(***************************************************************************)

Published(p) == Status(p) = "published"
Online(p) == site[Place(p)].online

\* The index publications_once.
OneLive ==
  \A p, q \in Pubs :
    Article(p) = Article(q) /\ Status(p) \in Live /\ Status(q) \in Live => p = q

OneChange == \A w, v \in Workers : Changes(w) /\ Changes(v) => w = v

JobsOK == \A job \in queue : job[1] # "publish" => Published(job[2])

\* What is published is at a place of its own.
PlacedOK(p) ==
  /\ site[p].online => site[p].copies > 0
  /\ Published(p) => site[Place(p)].copies > 0

\* A change is of published articles, and an update that arrived is online.
ChangeOK(w) ==
  Changes(w) =>
    /\ ~task[w].loose
    /\ Published(task[w].pub)
    /\ task[w].rest \subseteq Family(task[w].pub)
    /\ Working(w) => task[w].at \in Family(task[w].pub)
    /\ task[w].kind = "update" /\ At(w, "arrived") => Online(task[w].at)

\* What was sent is online until it is recorded, unless the article was asked
\* for, sent and changed again in the meantime: then it is not recorded.
ArrivedOK(w) ==
  Sends(w) /\ At(w, "arrived") =>
    \/ Online(task[w].at)
    \/ \E q \in Pubs : /\ q # task[w].at /\ Published(q)
                       /\ Article(q) = Article(task[w].at)

\* A withdrawal that has still to record this publication.
Withdraws(w, o, p) ==
  /\ task[w].kind = "withdraw" /\ task[w].pub = o
  /\ At(w, "taken") \/ task[w].at = p \/ p \in task[w].rest

ToWithdraw(p) ==
  \E o \in Pubs :
    /\ p \in Family(o)
    /\ \/ <<"withdraw", o>> \in queue
       \/ \E w \in Workers : Withdraws(w, o, p)

ShownOK(p) ==
  Published(p) /\ ~pubs[p].withdrawn /\ ~pubs[p].error => Online(p) \/ ToWithdraw(p)

Kept == /\ OneLive /\ OneChange /\ JobsOK
        /\ \A p \in Pubs : PlacedOK(p) /\ ShownOK(p)
        /\ \A w \in Workers : ChangeOK(w) /\ ArrivedOK(w)

\* Publications a change is about.
LEMMA FamilyFacts ==
  ASSUME NEW o \in Pubs, NEW p \in Family(o), Published(o)
  PROVE  p \in Pubs /\ Published(p) /\ Recorded(p) /\ Recorded(o)
  BY DEF Family, Published, Recorded

\* What is published stays published, and in its family.
LEMMA PublishedStays ==
  ASSUME IInv, Once, Next
  PROVE  /\ \A p \in Pubs : Published(p) => Published(p)' /\ Article(p)' = Article(p)
         /\ \A o \in Pubs : Published(o) => \A p \in Family(o) : p \in Family(o)'
  <1>1. Grows
    BY RowsGrow
  <1>2. \A p \in Pubs : Published(p) => Published(p)' /\ Article(p)' = Article(p)
    BY <1>1, StatusStep DEF Published, Grows, Recorded
  <1>3. ASSUME NEW o \in Pubs, Published(o), NEW p \in Family(o)
        PROVE  p \in Family(o)'
    <2>1. p \in Pubs /\ Published(p)
      BY <1>3, FamilyFacts
    <2>2. Published(p)' /\ Article(p)' = Article(p) /\ Article(o)' = Article(o)
      BY <1>2, <1>3, <2>1
    <2>3. QED  BY <1>3, <2>1, <2>2 DEF Family, Published, Status
  <1>4. QED  BY <1>2, <1>3

\* Where something was put, it stays.
LEMMA PlaceStays ==
  ASSUME IInv, Once, Next, NEW p \in Pubs, Recorded(p), site[Place(p)].copies > 0
  PROVE  Place(p)' = Place(p) /\ site'[Place(p)].copies > 0
  <1>0. TypeOK /\ Grows /\ Article(p)' = Article(p) /\ Place(p) \in Pubs
        /\ Article(Place(p)) = Article(p)
    BY RowsGrow, PlaceValue DEF IInv, Grows
  <1>a. \A q \in Pubs : site[q].copies \in 0..2 /\ site'[q].copies \in Nat
    BY <1>0, SiteStep DEF TypeOK, Post
  <1>1. \A q \in Pubs : site[q].copies > 0 => site'[q].copies > 0
    BY <1>a, CopiesStep
  <1> DEFINE files == {q \in Pubs : site[q].copies > 0 /\ Article(q) = Article(p)}
             after == {q \in Pubs : site'[q].copies > 0 /\ Article(q)' = Article(p)'}
  <1>2. CASE ~InRepository(p)
    <2>1. Place(p) = p
      BY <1>0, <1>2, PlaceValue
    <2>2. ~InRepository(p)'
      BY <1>0, <1>2 DEF InRepository
    <2>3. Place(p)' = p
      BY <2>2 DEF Place
    <2>4. QED  BY <1>1, <2>1, <2>3
  <1>3. CASE InRepository(p)
    <2>1. Place(p) \in files
      BY <1>0
    <2>2. ASSUME NEW q \in Pubs, site[q].copies > 0
          PROVE  Article(q)' = Article(q)
      <3>1. Recorded(q)
        BY <2>2 DEF IInv, RowsOK, RowOK, Recorded
      <3>2. QED  BY <1>0, <3>1 DEF Grows
    <2>3. ASSUME NEW q \in Pubs, site'[q].copies > 0, ~(site[q].copies > 0),
                 Article(q)' = Article(p)'
          PROVE  FALSE
      <3>1. PICK w \in Workers, x \in Pubs :
              /\ Sending(w, x) /\ q = Place(x)
              /\ x # q => site[q].copies > 0
        BY <1>a, <2>3, CopiesStep
      <3>2. x = q /\ Recorded(q)
        BY <2>3, <3>1, SendingIt DEF Sending
      <3>3. Article(q) = Article(p)
        BY <1>0, <2>3, <3>2 DEF Grows
      <3>4. InRepository(q)
        BY <1>3, <3>3 DEF InRepository
      <3>5. site[Place(q)].copies > 0
        BY <1>0, <2>1, <3>3, <3>4, PlaceValue
      <3>6. QED  BY <2>3, <3>1, <3>2, <3>5
    <2>4. after = files
      BY <1>0, <1>1, <2>2, <2>3
    <2>5. InRepository(p)' /\ files # {}
      BY <1>0, <1>3, <2>1 DEF InRepository
    <2>6. Place(p) = CHOOSE q \in files : TRUE
      BY <1>3, <2>5 DEF Place
    <2>7. Place(p)' = CHOOSE q \in after : TRUE
      BY <2>4, <2>5 DEF Place
    <2>8. QED  BY <1>0, <1>1, <2>4, <2>6, <2>7
  <1>4. QED  BY <1>2, <1>3

\* Where a request puts a publication, it is.
LEMMA ArrivePlace ==
  ASSUME IInv, Once, Next, NEW w \in Workers, Arrive(w), NEW p \in Pubs, p = task[w].at
  PROVE  Online(p)' /\ Article(p)' = Article(p)
  <1>0. TypeOK /\ Grows
    BY RowsGrow DEF IInv
  <1>1. PICK place \in Pubs :
          /\ place = Place(p) /\ Recorded(p)
          /\ \/ site[place].online /\ UNCHANGED site /\ InRepository(p)
             \/ /\ site'[place].online /\ site'[place].copies > 0
                /\ \A q \in Pubs \ {place} : site'[q] = site[q]
    <2>1. PICK q, place \in Pubs :
            /\ q = task[w].at /\ q = task[w].pub /\ place = Place(q)
            /\ Recorded(q) /\ q \in yes /\ Sanctioned(q, task[w].version)
            /\ Article(place) = Article(q)
            /\ place # q => InRepository(q) /\ site[place].copies > 0
            /\ \/ /\ InRepository(q) /\ site[place].online /\ UNCHANGED site
                  /\ site[place].version = task[w].version
               \/ /\ site' \in [Pubs -> Post]
                  /\ site'[place].version = task[w].version /\ site'[place].online
                  /\ site'[place].copies =
                       IF InRepository(q) \/ site[q].copies = 0 THEN 1 ELSE 2
                  /\ \A x \in Pubs \ {place} : site'[x] = site[x]
      BY ArriveValue, Zenon
    <2>2. q = p
      BY <2>1
    <2>3. (IF InRepository(q) \/ site[q].copies = 0 THEN 1 ELSE 2) > 0
      OBVIOUS
    <2>4. \/ site[place].online /\ UNCHANGED site /\ InRepository(p)
          \/ /\ site'[place].online /\ site'[place].copies > 0
             /\ \A x \in Pubs \ {place} : site'[x] = site[x]
      BY <2>1, <2>2, <2>3
    <2>5. QED  BY <2>1, <2>2, <2>4
  <1>2. Article(p)' = Article(p)
    BY <1>0, <1>1 DEF Grows
  <1>3. site'[place].online
    BY <1>1
  <1>4. CASE site[place].copies > 0
    <2>1. Place(p)' = place
      BY <1>1, <1>4, PlaceStays
    <2>2. QED  BY <1>2, <1>3, <2>1 DEF Online
  <1>5. CASE ~(site[place].copies > 0)
    <2>1. place = p
      BY <1>0, <1>1, <1>5, PlaceValue
    <2>2. CASE InRepository(p)
      <3>1. \A q \in Pubs : site[q].copies > 0 => Article(q) # Article(p)
        BY <1>0, <1>1, <1>5, <2>2, PlaceValue
      <3>2. ASSUME NEW q \in Pubs, site'[q].copies > 0, Article(q)' = Article(p)', q # p
            PROVE  FALSE
        <4>1. site[q].copies > 0
          BY <1>1, <2>1, <3>2
        <4>2. Recorded(q)
          BY <4>1 DEF IInv, RowsOK, RowOK, Recorded
        <4>3. QED  BY <1>0, <1>2, <3>1, <3>2, <4>1, <4>2 DEF Grows
      <3> DEFINE files == {q \in Pubs : site'[q].copies > 0 /\ Article(q)' = Article(p)'}
      <3>3. files \subseteq {p} /\ (files # {} => (CHOOSE q \in files : TRUE) = p)
        BY <3>2
      <3>4. Place(p)' = IF InRepository(p)' /\ files # {} THEN CHOOSE q \in files : TRUE
                        ELSE p
        BY DEF Place
      <3>5. Place(p)' = p
        BY <3>3, <3>4
      <3>6. QED  BY <1>2, <1>3, <2>1, <3>5 DEF Online
    <2>3. CASE ~InRepository(p)
      <3>1. Place(p)' = p
        BY <1>2, <2>3 DEF Place, InRepository
      <3>2. QED  BY <1>2, <1>3, <2>1, <3>1 DEF Online
    <2>4. QED  BY <2>2, <2>3
  <1>6. QED  BY <1>4, <1>5

\* What is online stays so, until a withdrawal of the article arrives.
LEMMA OnlineStays ==
  ASSUME IInv, Once, Next, NEW p \in Pubs, Recorded(p), Online(p), site[Place(p)].copies > 0
  PROVE  \/ Online(p)'
         \/ \E w \in Workers, q \in Pubs :
              /\ ChangeArrives(w) /\ task[w].kind = "withdraw"
              /\ q = task[w].at /\ Article(q) = Article(p)
  <1>0. TypeOK
    BY DEF IInv
  <1>1. PICK place \in Pubs :
          /\ place = Place(p) /\ Article(place) = Article(p)
          /\ site[place].online
    BY <1>0, PlaceValue DEF Online
  <1>2. Place(p)' = place
    BY <1>1, PlaceStays
  <1>3. CASE site'[place].online
    BY <1>2, <1>3 DEF Online
  <1>4. CASE UNCHANGED site
    BY <1>1, <1>3, <1>4
  <1>5. ASSUME NEW w \in Workers, Arrive(w) PROVE site'[place].online
    <2>1. PICK x \in Pubs :
            \/ UNCHANGED site
            \/ site'[x].online /\ \A q \in Pubs \ {x} : site'[q] = site[q]
      BY <1>5, ArriveValue, Zenon
    <2>2. QED  BY <1>1, <2>1
  <1>6. ASSUME NEW w \in Workers, ChangeArrives(w), ~site'[place].online
        PROVE  \E v \in Workers, q \in Pubs :
                 /\ ChangeArrives(v) /\ task[v].kind = "withdraw"
                 /\ q = task[v].at /\ Article(q) = Article(p)
    <2>0. ChangeArrives(w)
      BY <1>6
    <2>1. PICK q, x \in Pubs :
            /\ q = task[w].at /\ x = Place(q)
            /\ Recorded(q) /\ Article(x) = Article(q)
            /\ task[w].kind \in {"update", "withdraw"}
            /\ task[w].kind = "update" => Sanctioned(q, task[w].version)
            /\ site' \in [Pubs -> Post]
            /\ site'[x].copies = site[x].copies
            /\ site'[x].version = IF task[w].kind = "update" THEN task[w].version
                                  ELSE site[x].version
            /\ site'[x].online <=> task[w].kind = "update"
            /\ \A y \in Pubs \ {x} : site'[y] = site[y]
      BY <2>0, ChangeArrivesValue, Zenon
    <2>2. x = place
      BY <1>1, <1>6, <2>1
    <2>3. QED  BY <1>1, <1>6, <2>1, <2>2
  <1>7. QED  BY <1>3, <1>4, <1>5, <1>6, SiteStep

\* The row of a published article is written by a change of it alone.
LEMMA PublishedRow ==
  ASSUME IInv, Once, Next, NEW p \in Pubs, Published(p), pubs'[p] # pubs[p]
  PROVE  \E w \in Workers :
           /\ Changed(w) \/ NotChanged(w)
           /\ task[w].at = p /\ Busy(w)
           /\ Changed(w) => (pubs'[p].withdrawn <=> task[w].kind = "withdraw")
           /\ NotChanged(w) => pubs'[p].error
  <1>0. TypeOK /\ LookOK /\ \A q \in Pubs : OnceOK(q)
    BY DEF IInv, Once
  <1>1. ASSUME NEW a, Request(a) PROVE FALSE
    <2>1. PICK q \in Pubs : Status(q) = "none" /\ \E row : pubs' = [pubs EXCEPT ![q] = row]
      BY <1>1 DEF Request
    <2>2. q = p
      BY <1>0, <2>1 DEF TypeOK
    <2>3. QED  BY <2>1, <2>2 DEF Published
  <1>2. ASSUME NEW d \in Directors, NEW answer, Decide(d, answer) PROVE FALSE
    <2>1. PICK q \in Pubs : q = looking[d] /\ \E row : pubs' = [pubs EXCEPT ![q] = row]
      BY <1>0, <1>2 DEF Decide, TypeOK
    <2>2. q = p
      BY <1>0, <2>1 DEF TypeOK
    <2>3. Status(q) = "pending_approval"
      BY <1>0, <1>2, <2>1 DEF LookOK, Decide
    <2>4. QED  BY <2>2, <2>3 DEF Published
  <1>3. ASSUME NEW q \in Pubs, MarkUncertain(q) PROVE FALSE
    <2>1. PICK row : Status(q) = "sending" /\ pubs' = [pubs EXCEPT ![q] = row]
      BY <1>3 DEF MarkUncertain
    <2>2. q = p
      BY <1>0, <2>1 DEF TypeOK
    <2>3. QED  BY <2>1, <2>2 DEF Published
  <1>4. ASSUME NEW w \in Workers, ClaimSend(w) PROVE FALSE
    <2>1. PICK q \in Pubs : q = task[w].pub
      BY <1>4, WorkFacts DEF ClaimSend, Sends, Busy
    <2>2. \E row : MaySend(q) /\ pubs' = [pubs EXCEPT ![q] = row]
      BY <1>4, <2>1 DEF ClaimSend
    <2>3. q = p
      BY <1>0, <2>2 DEF TypeOK
    <2>4. QED  BY <2>2, <2>3 DEF Published, MaySend
  <1>5. ASSUME NEW w \in Workers, Sent(w) \/ NotSent(w) PROVE FALSE
    <2>1. PICK q \in Pubs : q = task[w].pub /\ Sending(w, q)
      BY <1>5, SendingIt DEF Sent, NotSent, Fails, Working, At
    <2>2. \E row : pubs' = [pubs EXCEPT ![q] = row]
      BY <1>5, <2>1 DEF Sent, NotSent
    <2>3. q = p
      BY <1>0, <2>2 DEF TypeOK
    <2>4. Status(q) \in {"sending", "failed"}
      BY <1>0, <2>1 DEF OnceOK
    <2>5. QED  BY <2>3, <2>4 DEF Published
  <1>6. PICK w \in Workers : Changed(w) \/ NotChanged(w)
    <2>1. \/ UNCHANGED pubs
          \/ \E a \in Articles : Request(a)
          \/ \E d \in Directors, answer \in {"approved", "rejected"} : Decide(d, answer)
          \/ \E q \in Pubs : MarkUncertain(q)
          \/ \E w \in Workers :
               ClaimSend(w) \/ Sent(w) \/ NotSent(w) \/ Changed(w) \/ NotChanged(w)
      BY DEF Next, Work, EditDraft, ApproveDraft, Look, Enqueue, AskChange,
             DashboardStops, Take, Interrupted, LooseEnds, Arrive, Again, ReadUpdate,
             ReadWithdraw, ChangeArrives
    <2>2. QED  BY <1>1, <1>2, <1>3, <1>4, <1>5, <2>1
  <1>7. Busy(w) /\ Working(w)
    BY <1>6 DEF Changed, NotChanged, Changes, Busy, Working, Fails, At
  <1>8. PICK q \in Pubs, kind \in {"update", "withdraw"}, n \in Versions :
          q = task[w].at /\ kind = task[w].kind /\ n = task[w].version
    BY <1>6, <1>7, WorkFacts DEF Changed, NotChanged, Changes
  <1>9. ASSUME Changed(w)
        PROVE  q = p /\ (pubs'[p].withdrawn <=> kind = "withdraw")
    <2>1. pubs' = [pubs EXCEPT ![q] = Written(pubs[q], kind, n)]
      BY <1>8, <1>9 DEF Changed
    <2>2. pubs'[q].withdrawn = (kind = "withdraw") /\ \A x \in Pubs \ {q} : pubs'[x] = pubs[x]
      BY <1>0, <2>1, ChangedValue
    <2>3. q = p
      BY <2>2
    <2>4. QED  BY <2>2, <2>3, Zenon
  <1>10. ASSUME NotChanged(w) PROVE q = p /\ pubs'[p].error
    <2>1. pubs' = [pubs EXCEPT ![q] = FailedChange(pubs[q])]
      BY <1>8, <1>10 DEF NotChanged
    <2>2. pubs'[q].error /\ \A x \in Pubs \ {q} : pubs'[x] = pubs[x]
      BY <1>0, <2>1, FailedChangeValue
    <2>3. QED  BY <2>2
  <1>11. QED  BY <1>6, <1>7, <1>8, <1>9, <1>10, Zenon

\* A worker comes to a change by taking its job, while no other is changed.
LEMMA ChangeTaken ==
  ASSUME IInv, ~ChangesOverlap, Next, NEW w \in Workers, Changes(w)', ~Changes(w)
  PROVE  /\ Take(w) /\ \A v \in Workers : ~Changes(v)
         /\ <<task'[w].kind, task'[w].pub>> \in queue
         /\ queue' = queue \ {<<task'[w].kind, task'[w].pub>>}
         /\ task'[w].pc = "taken" /\ task'[w].rest = {} /\ ~task'[w].loose
         /\ \A v \in Workers \ {w} : task'[v] = task[v]
         /\ UNCHANGED <<pubs, site>>
  <1>0. TypeOK
    BY DEF IInv
  <1>1. task'[w] # task[w] /\ task'[w] # NoTask
    BY Values DEF Changes
  <1>2. Take(w) \/ Interrupted(w) \/ Work(w)
    BY <1>1, WhoseStep, EndsValue, <1>0 DEF LooseEnds
  <1>3. ~Interrupted(w)
    BY <1>0, <1>1, InterruptedValue DEF Changes
  <1>4. ~Work(w)
    <2>1. ~Ends(w)
      BY <1>0, <1>1, EndsValue
    <2>2. ~ClaimSend(w)
      <3>1. SUFFICES ASSUME ClaimSend(w) PROVE FALSE
        OBVIOUS
      <3>2. PICK q \in Pubs : q = task[w].pub
        BY <3>1, WorkFacts DEF ClaimSend, Sends, Busy
      <3>3. task' = [task EXCEPT ![w] = [task[w] EXCEPT !.pc = "send", !.at = q,
                                                        !.version = pubs[q].version]]
        BY <2>1, <3>1, <3>2 DEF ClaimSend
      <3>4. task'[w].kind = task[w].kind
        BY <1>0, <3>3, ClaimValue, Zenon
      <3>5. QED  BY <3>4 DEF Changes
    <2>3. ~Arrive(w)
      BY <1>0, GoValue DEF Arrive, Changes, Sends
    <2>4. ~Again(w)
      BY <1>0, AgainValue DEF Changes
    <2>5. QED
      BY <2>1, <2>2, <2>3, <2>4
         DEF Work, Sent, NotSent, ReadUpdate, ReadWithdraw, ChangeArrives, Changed,
             NotChanged, Changes
  <1>5. Take(w)
    BY <1>2, <1>3, <1>4
  <1>6. PICK job \in queue :
          /\ queue' = queue \ {job}
          /\ job[1] # "publish" /\ ~ChangesOverlap => \A v \in Workers : ~Changes(v)
          /\ task'[w].pc = "taken" /\ task'[w].kind = job[1] /\ task'[w].pub = job[2]
          /\ task'[w].rest = {} /\ ~task'[w].loose
          /\ \A v \in Workers \ {w} : task'[v] = task[v]
    BY <1>0, <1>5, TakeValue
  <1>7. job = <<task'[w].kind, task'[w].pub>>
    BY <1>0, <1>6 DEF TypeOK
  <1>8. \A v \in Workers : ~Changes(v)
    BY <1>6 DEF Changes
  <1>9. UNCHANGED <<pubs, site>>
    BY <1>5 DEF Take
  <1>10. QED  BY <1>5, <1>6, <1>7, <1>8, <1>9

\* What a worker reads when it starts a change.
LEMMA ReadStep ==
  ASSUME IInv, NEW w \in Workers, ReadUpdate(w) \/ ReadWithdraw(w),
         Published(task[w].pub)
  PROVE  /\ UNCHANGED <<pubs, site>> /\ At(w, "taken")
         /\ \/ /\ task'[w].pc = "send" /\ task'[w].kind = task[w].kind
               /\ task'[w].pub = task[w].pub /\ task'[w].loose = task[w].loose
               /\ task'[w].at \in Family(task[w].pub)
               /\ task'[w].rest \subseteq Family(task[w].pub)
               /\ task[w].kind = "withdraw" =>
                    \A q \in Family(task[w].pub) :
                      pubs[q].withdrawn \/ q = task'[w].at \/ q \in task'[w].rest
            \/ /\ task'[w] = NoTask
               /\ task[w].kind = "withdraw" =>
                    \A q \in Family(task[w].pub) : pubs[q].withdrawn
  <1>0. TypeOK /\ task[w] \in Task
    BY DEF IInv, TypeOK
  <1>1. PICK p \in Pubs : p = task[w].pub
    BY WorkFacts DEF ReadUpdate, ReadWithdraw, Busy
  <1>2. /\ Published(p) /\ p \in Family(p) /\ Family(p) \subseteq Pubs
        /\ UNCHANGED <<pubs, site>> /\ At(w, "taken")
    BY <1>1 DEF Family, ReadUpdate, ReadWithdraw
  <1>3. CASE ReadUpdate(w)
    <2>1. CASE MayUpdate(p)
      <3>1. PICK n \in Versions : n = draft[Article(p)].version
        BY <1>0 DEF Article, TypeOK, Publication
      <3>2. Change(w, p, n, {})
        BY <1>1, <1>3, <2>1, <3>1 DEF ReadUpdate
      <3>3. /\ task'[w].pc = "send" /\ task'[w].kind = task[w].kind
            /\ task'[w].pub = task[w].pub /\ task'[w].loose = task[w].loose
            /\ task'[w].at = p /\ task'[w].rest = {}
        BY <1>0, <3>2, ChangeValue
      <3>4. QED  BY <1>1, <1>2, <1>3, <3>3 DEF ReadUpdate
    <2>2. CASE ~MayUpdate(p)
      <3>1. task'[w] = NoTask
        BY <1>0, <1>1, <1>3, <2>2, EndsValue DEF ReadUpdate
      <3>2. QED  BY <1>2, <1>3, <3>1 DEF ReadUpdate
    <2>3. QED  BY <2>1, <2>2
  <1>4. CASE ReadWithdraw(w)
    <2> DEFINE family == {q \in Family(p) : ~pubs[q].withdrawn}
    <2>1. \/ Ends(w) /\ (Status(p) # "published" \/ family = {})
          \/ \E q \in family : Change(w, q, 1, family \ {q})
      BY <1>1, <1>4 DEF ReadWithdraw
    <2>2. CASE Ends(w) /\ (Status(p) # "published" \/ family = {})
      <3>1. task'[w] = NoTask
        BY <1>0, <2>2, EndsValue
      <3>2. \A q \in Family(p) : pubs[q].withdrawn
        BY <1>2, <2>2 DEF Published
      <3>3. QED  BY <1>1, <1>2, <3>1, <3>2
    <2>3. ASSUME NEW q \in family, Change(w, q, 1, family \ {q})
          PROVE  /\ task'[w].pc = "send" /\ task'[w].kind = task[w].kind
                 /\ task'[w].pub = task[w].pub /\ task'[w].loose = task[w].loose
                 /\ task'[w].at \in Family(p) /\ task'[w].rest \subseteq Family(p)
                 /\ \A x \in Family(p) :
                      pubs[x].withdrawn \/ x = task'[w].at \/ x \in task'[w].rest
      <3>1. PICK rest \in SUBSET Pubs, n \in Versions : rest = family \ {q} /\ n = 1
        BY <1>2, Values
      <3>2. q \in Pubs /\ Change(w, q, n, rest)
        BY <1>2, <2>3, <3>1
      <3>3. /\ task' \in [Workers -> Task] /\ task'[w].pc = "send"
            /\ task'[w].kind = task[w].kind /\ task'[w].pub = task[w].pub
            /\ task'[w].loose = task[w].loose /\ task'[w].at = q
            /\ task'[w].version = n /\ task'[w].rest = rest
            /\ \A v \in Workers \ {w} : task'[v] = task[v]
        BY <1>0, <3>2, ChangeValue, Zenon
      <3>4. QED  BY <3>1, <3>3
    <2>4. QED  BY <1>1, <1>2, <2>1, <2>2, <2>3
  <1>5. QED  BY <1>3, <1>4

\* How a change goes on: it is read, it arrives, it goes on to the next
\* translation, it is interrupted and queued again, or it is done.
LEMMA ChangeStep ==
  ASSUME IInv, ~ChangesOverlap, Next, NEW w \in Workers, Changes(w), ~task[w].loose,
         Published(task[w].pub)
  PROVE  \/ task'[w] = task[w]
         \/ /\ task'[w] = NoTask /\ UNCHANGED <<pubs, site>>
            /\ <<task[w].kind, task[w].pub>> \in queue'
         \/ /\ ChangeArrives(w) /\ At(w, "send") /\ UNCHANGED pubs
            /\ task'[w].pc = "arrived" /\ task'[w].kind = task[w].kind
            /\ task'[w].pub = task[w].pub /\ task'[w].loose = task[w].loose
            /\ task'[w].at = task[w].at /\ task'[w].rest = task[w].rest
         \/ ReadUpdate(w) \/ ReadWithdraw(w)
         \/ /\ Changed(w) \/ NotChanged(w)
            /\ Goes(w) /\ Working(w) /\ UNCHANGED site
  <1>0. TypeOK
    BY DEF IInv
  <1>1. ASSUME task'[w] # task[w]
        PROVE  Take(w) \/ Interrupted(w) \/ LooseEnds(w) \/ Work(w)
    BY <1>1, WhoseStep
  <1>2. ~Take(w) /\ ~LooseEnds(w)
    BY DEF Take, LooseEnds, Busy, Changes
  <1>3. CASE Interrupted(w)
    <2>1. task'[w] = NoTask
      BY <1>0, <1>3, InterruptedValue DEF Sends, Changes
    <2>2. QED  BY <1>3, <2>1 DEF Interrupted
  <1>4. CASE ChangeArrives(w)
    <2>1. At(w, "send") /\ UNCHANGED pubs /\ Go(w, "arrived")
      BY <1>4 DEF ChangeArrives
    <2>2. QED  BY <1>0, <1>4, <2>1, GoValue
  <1>5. CASE Changed(w) \/ NotChanged(w)
    BY <1>5 DEF Changed, NotChanged, Working, At, Fails
  <1>6. /\ ~ClaimSend(w) /\ ~Arrive(w) /\ ~Again(w) /\ ~Sent(w) /\ ~NotSent(w)
    BY DEF ClaimSend, Arrive, Again, MayRetry, Sent, NotSent, Sends, Changes
  <1>7. QED  BY <1>1, <1>2, <1>3, <1>4, <1>5, <1>6 DEF Work

\* Published articles of one draft at one destination are the same.
LEMMA OneLiveStep ==
  ASSUME IInv, Once, Kept, Next
  PROVE  OneLive'
  <1>0. /\ TypeOK /\ Grows /\ OneLive /\ pubs \in [Pubs -> Publication]
        /\ \A p \in Pubs : Article(p) \in Articles
    BY RowsGrow DEF IInv, Kept, TypeOK, Publication, Article
  <1>1. ASSUME NEW p \in Pubs, NEW q \in Pubs, Article(p)' = Article(q)',
               Status(p)' \in Live, Status(q)' \in Live, Status(p) \notin Live
        PROVE  p = q
    <2>1. CASE \E a \in Articles : Request(a)
      <3>1. PICK a \in Articles, x \in Pubs :
              /\ LiveOf(a) = {} /\ Status(x) = "none"
              /\ pubs' = [pubs EXCEPT ![x] =
                   [status |-> "pending_approval", article |-> a, version |-> draft[a].version,
                    withdrawn |-> FALSE, error |-> FALSE]]
        BY <2>1 DEF Request
      <3>2. /\ pubs'[x].article = a
            /\ \A y \in Pubs \ {x} : pubs'[y] = pubs[y]
        BY <1>0, <3>1
      <3>3. p = x
        BY <1>1, <3>2 DEF Status
      <3>4. ASSUME q # x PROVE FALSE
        <4>1. Article(q) = a /\ Status(q) \in Live
          BY <1>1, <3>2, <3>3, <3>4 DEF Status, Article
        <4>2. q \in LiveOf(a)
          BY <4>1 DEF LiveOf
        <4>3. QED  BY <3>1, <4>2
      <3>5. QED  BY <3>3, <3>4
    <2>2. ASSUME NEW w \in Workers, Sent(w), Sending(w, p)
          PROVE  p = q
      <3>1. PICK x \in Pubs : x = task[w].pub /\ Sending(w, x)
        BY <2>2, SendingIt DEF Sending
      <3>2. x = p
        BY <2>2, <3>1 DEF Sending
      <3>3. CASE LiveOf(Article(p)) \subseteq {p}
        <4>1. pubs' = [pubs EXCEPT ![p] = [pubs[p] EXCEPT !.status = "published",
                                                          !.error = FALSE]]
          BY <2>2, <3>1, <3>2, <3>3 DEF Sent
        <4>2. /\ pubs'[p].article = pubs[p].article
              /\ \A y \in Pubs \ {p} : pubs'[y] = pubs[y]
          BY <1>0, <4>1, OutcomeValue
        <4>3. ASSUME q # p PROVE q \in LiveOf(Article(p))
          BY <1>1, <4>2, <4>3 DEF LiveOf, Status, Article
        <4>4. QED  BY <3>3, <4>3
      <3>4. CASE ~(LiveOf(Article(p)) \subseteq {p})
        <4>1. UNCHANGED pubs
          BY <2>2, <3>1, <3>2, <3>4 DEF Sent
        <4>2. QED  BY <1>1, <4>1 DEF Status
      <3>5. QED  BY <3>3, <3>4
    <2>3. QED  BY <1>1, <2>1, <2>2, StatusStep
  <1>2. ASSUME NEW p \in Pubs, NEW q \in Pubs, Article(p)' = Article(q)',
               Status(p) \in Live, Status(q) \in Live
        PROVE  p = q
    <2>1. Recorded(p) /\ Recorded(q)
      BY <1>2 DEF Recorded
    <2>2. QED  BY <1>0, <1>2, <2>1 DEF OneLive, Grows
  <1>3. QED  BY <1>1, <1>2 DEF OneLive

\* One change at a time, and each of what is published.
LEMMA OneChangeStep ==
  ASSUME ~ChangesOverlap, IInv, Kept, Next
  PROVE  OneChange'
  <1> SUFFICES ASSUME NEW w \in Workers, NEW v \in Workers, Changes(w)', Changes(v)', w # v
               PROVE  FALSE
    BY DEF OneChange
  <1>1. ASSUME NEW x \in Workers, NEW y \in Workers, Changes(x)', Changes(y)', x # y,
               ~Changes(x)
        PROVE  FALSE
    <2>1. ~Changes(y) /\ task'[y] = task[y]
      BY <1>1, ChangeTaken
    <2>2. QED  BY <1>1, <2>1 DEF Changes
  <1>2. Changes(w) /\ Changes(v)
    BY <1>1
  <1>3. QED  BY <1>2 DEF Kept, OneChange

LEMMA JobsStep ==
  ASSUME IInv, Once, Kept, Next
  PROVE  JobsOK'
  <1>0. TypeOK /\ JobsOK /\ \A p \in Pubs : Published(p) => Published(p)'
    BY PublishedStays DEF IInv, Kept
  <1>1. ASSUME NEW job \in queue, job[1] # "publish" PROVE Published(job[2])'
    <2>1. PICK p \in Pubs : p = job[2]
      BY <1>0 DEF TypeOK
    <2>2. Published(p)
      BY <1>0, <1>1, <2>1 DEF JobsOK
    <2>3. Published(p)'
      BY <1>0, <2>2
    <2>4. QED  BY <2>1, <2>3 DEF Published, Status
  <1>2. \/ queue' \subseteq queue
        \/ \E p \in Pubs : Enqueue(p)
        \/ \E kind \in {"update", "withdraw"}, p \in Pubs : AskChange(kind, p)
        \/ \E w \in Workers : Interrupted(w)
    BY DEF Next, Work, EditDraft, ApproveDraft, Request, Look, Decide, MarkUncertain,
           DashboardStops, Take, LooseEnds, ClaimSend, Arrive, Again, Sent, NotSent,
           ReadUpdate, ReadWithdraw, ChangeArrives, Changed, NotChanged
  <1>3. CASE queue' \subseteq queue
    BY <1>1, <1>3 DEF JobsOK
  <1>4. ASSUME NEW p \in Pubs, Enqueue(p) PROVE JobsOK'
    <2>1. \A job \in queue' : job \in queue \/ job[1] = "publish"
      BY <1>4 DEF Enqueue
    <2>2. QED  BY <1>1, <2>1 DEF JobsOK
  <1>5. ASSUME NEW p \in Pubs, NEW kind, Published(p), queue' = queue \cup {<<kind, p>>}
        PROVE JobsOK'
    <2>1. \A job \in queue' : job \in queue \/ job[2] = p
      BY <1>5
    <2>2. Published(p)'
      BY <1>0, <1>5
    <2>3. \A job \in queue' : job[1] # "publish" => Published(job[2])'
      BY <1>1, <2>1, <2>2
    <2>4. QED  BY <2>3 DEF JobsOK
  <1>6. ASSUME NEW w \in Workers, Interrupted(w) PROVE JobsOK'
    <2>1. PICK p \in Pubs, kind \in Kinds : p = task[w].pub /\ kind = task[w].kind
      BY <1>6, WorkFacts DEF Interrupted
    <2>2. queue' = queue \cup {<<kind, p>>}
      BY <1>6, <2>1 DEF Interrupted
    <2>3. CASE kind = "publish"
      <3>1. \A job \in queue' : job \in queue \/ job[1] = "publish"
        BY <2>2, <2>3
      <3>2. QED  BY <1>1, <3>1 DEF JobsOK
    <2>4. CASE kind # "publish"
      <3>1. Changes(w)
        BY <2>1, <2>4 DEF Changes
      <3>2. Published(p)
        BY <2>1, <3>1 DEF Kept, ChangeOK
      <3>3. QED  BY <1>5, <2>2, <3>2
    <2>5. QED  BY <2>3, <2>4
  <1>7. QED  BY <1>2, <1>3, <1>4, <1>5, <1>6 DEF AskChange, Published

\* What is recorded as sent is where it was sent.
LEMMA JustPublished ==
  ASSUME IInv, Once, Kept, Next, NEW p \in Pubs, Published(p)', ~Published(p)
  PROVE  Recorded(p) /\ Online(p) /\ UNCHANGED site
  <1>0. TypeOK /\ pubs \in [Pubs -> Publication]
    BY DEF IInv, TypeOK
  <1>1. PICK w \in Workers : Sent(w) /\ Sending(w, p)
    BY StatusStep DEF Published
  <1>2. /\ Sends(w) /\ At(w, "arrived") /\ task[w].at = p /\ task[w].pub = p /\ Recorded(p)
        /\ UNCHANGED site
    BY <1>1, SendingIt DEF Sent, Sending
  <1>3. LiveOf(Article(p)) \subseteq {p}
    <2>1. SUFFICES ASSUME ~(LiveOf(Article(p)) \subseteq {p}) PROVE FALSE
      OBVIOUS
    <2>2. UNCHANGED pubs
      BY <1>1, <1>2, <2>1 DEF Sent
    <2>3. QED  BY <2>2 DEF Published, Status
  <1>4. \A q \in Pubs : q # p /\ Published(q) => Article(q) # Article(p)
    BY <1>3 DEF LiveOf, Published
  <1>5. ArrivedOK(w)
    BY DEF Kept
  <1>6. QED  BY <1>2, <1>4, <1>5 DEF ArrivedOK

\* What is published has a place of its own.
LEMMA PlacedStep ==
  ASSUME IInv, Once, Kept, Next, NEW p \in Pubs
  PROVE  PlacedOK(p)'
  <1>0. /\ TypeOK /\ \A q \in Pubs : PlacedOK(q)
        /\ \A q \in Pubs : site[q].copies \in 0..2
    BY DEF IInv, Kept, TypeOK, Post
  <1>1. ASSUME site'[p].online PROVE site'[p].copies > 0
    <2>1. CASE UNCHANGED site
      BY <1>0, <1>1, <2>1 DEF PlacedOK
    <2>2. ASSUME NEW w \in Workers, Arrive(w) PROVE site'[p].copies > 0
      <3>1. PICK q, x \in Pubs :
              \/ UNCHANGED site
              \/ /\ site'[x].copies = IF InRepository(q) \/ site[q].copies = 0 THEN 1 ELSE 2
                 /\ \A y \in Pubs \ {x} : site'[y] = site[y]
        BY <2>2, ArriveValue
      <3>2. site'[x].copies = 1 \/ site'[x].copies = 2 \/ UNCHANGED site
        BY <3>1
      <3>3. CASE p = x
        BY <2>1, <3>2, <3>3
      <3>4. CASE p # x /\ site'[p] = site[p]
        BY <1>0, <1>1, <3>4 DEF PlacedOK
      <3>5. QED  BY <2>1, <3>1, <3>3, <3>4
    <2>3. ASSUME NEW w \in Workers, ChangeArrives(w) PROVE site'[p].copies > 0
      <3>1. PICK q, x \in Pubs :
              /\ q = task[w].at /\ x = Place(q)
              /\ site'[x].copies = site[x].copies
              /\ \A y \in Pubs \ {x} : site'[y] = site[y]
        BY <2>3, ChangeArrivesValue
      <3>2. Changes(w) /\ Working(w) /\ ChangeOK(w)
        BY <2>3 DEF ChangeArrives, Working, At, Kept
      <3>3. task[w].pub \in Pubs
        BY <3>2, WorkFacts DEF Changes, Busy
      <3>4. Published(q)
        BY <3>1, <3>2, <3>3, FamilyFacts DEF ChangeOK
      <3>5. site[x].copies > 0
        BY <1>0, <3>1, <3>4 DEF PlacedOK
      <3>6. QED  BY <1>0, <1>1, <3>1, <3>5 DEF PlacedOK
    <2>4. QED  BY <2>1, <2>2, <2>3, SiteStep
  <1>2. ASSUME Published(p)' PROVE site'[Place(p)'].copies > 0
    <2>1. PICK place \in Pubs : place = Place(p)
      BY <1>0, PlaceValue
    <2>2. Recorded(p) /\ site[place].copies > 0
      <3>1. CASE Published(p)
        BY <1>0, <2>1, <3>1 DEF PlacedOK, Recorded, Published
      <3>2. CASE ~Published(p)
        <4>1. Recorded(p) /\ site[place].online
          BY <1>2, <2>1, <3>2, JustPublished DEF Online
        <4>2. QED  BY <1>0, <4>1 DEF PlacedOK
      <3>3. QED  BY <3>1, <3>2
    <2>3. Place(p)' = place /\ site'[place].copies > 0
      BY <2>1, <2>2, PlaceStays
    <2>4. QED  BY <2>3
  <1>3. QED  BY <1>1, <1>2 DEF PlacedOK

\* Where a change arrives, and what stays online.
LEMMA OnlineStep ==
  ASSUME ~ChangesOverlap, IInv, Once, Kept, Next, NEW p \in Pubs, Recorded(p), Online(p)
  PROVE  \/ Online(p)'
         \/ \E w \in Workers, q \in Pubs :
              /\ ChangeArrives(w) /\ task[w].kind = "withdraw"
              /\ q = task[w].at /\ Published(q) /\ Article(q) = Article(p)
  <1>0. TypeOK /\ \A q \in Pubs : PlacedOK(q)
    BY DEF IInv, Kept
  <1>1. PICK place \in Pubs : place = Place(p)
    BY <1>0, PlaceValue
  <1>2. site[place].copies > 0
    BY <1>0, <1>1 DEF Online, PlacedOK
  <1>3. \/ Online(p)'
        \/ \E w \in Workers, q \in Pubs :
             /\ ChangeArrives(w) /\ task[w].kind = "withdraw"
             /\ q = task[w].at /\ Article(q) = Article(p)
    BY <1>1, <1>2, OnlineStays, Zenon
  <1>4. ASSUME NEW w \in Workers, NEW q \in Pubs, ChangeArrives(w), q = task[w].at
        PROVE  Published(q)
    <2>1. Changes(w) /\ Working(w) /\ ChangeOK(w)
      BY <1>4 DEF ChangeArrives, Working, At, Kept
    <2>2. task[w].pub \in Pubs
      BY <2>1, WorkFacts DEF Changes, Busy
    <2>3. QED  BY <1>4, <2>1, <2>2, FamilyFacts DEF ChangeOK
  <1>5. QED  BY <1>3, <1>4

\* What a change is of stays published, and an update that arrived is online.
LEMMA ChangeOKStep ==
  ASSUME ~ChangesOverlap, IInv, Once, Kept, Next, NEW w \in Workers
  PROVE  ChangeOK(w)'
  <1>0. /\ TypeOK /\ OneChange /\ ChangeOK(w) /\ TasksOK /\ JobsOK
        /\ \A p \in Pubs : PlacedOK(p)
    BY DEF IInv, Kept
  <1> SUFFICES ASSUME Changes(w)' PROVE ChangeOK(w)'
    BY DEF ChangeOK
  <1>1. /\ \A p \in Pubs : Published(p) => Published(p)'
        /\ \A o \in Pubs : Published(o) => \A p \in Family(o) : p \in Family(o)'
    BY PublishedStays
  <1>a. ASSUME NEW o \in Pubs, Published(o), task'[w].pub = o, ~task'[w].loose,
               task'[w].rest \subseteq Family(o),
               task'[w].pc \in {"send", "arrived"} => task'[w].at \in Family(o),
               task'[w].kind = "update" /\ task'[w].pc = "arrived" =>
                 \E p \in Pubs : p = task'[w].at /\ Online(p)'
        PROVE  ChangeOK(w)'
    <2>1. Published(o)' /\ Family(o) \subseteq Family(o)'
      BY <1>1, <1>a
    <2>2. Published(task[w].pub)'
      BY <1>a, <2>1 DEF Published, Status
    <2>3. Family(task[w].pub)' = Family(o)'
      BY <1>a DEF Family, Status, Article
    <2>4. task'[w].rest \subseteq Family(task[w].pub)'
      BY <1>a, <2>1, <2>3
    <2>5. Working(w)' => task'[w].at \in Family(task[w].pub)'
      BY <1>a, <2>1, <2>3 DEF Working
    <2>6. (task[w].kind = "update" /\ At(w, "arrived"))' => Online(task[w].at)'
      <3>1. SUFFICES ASSUME task'[w].kind = "update", task'[w].pc = "arrived"
                     PROVE Online(task[w].at)'
        BY DEF At
      <3>2. PICK p \in Pubs : p = task'[w].at /\ Online(p)'
        BY <1>a, <3>1
      <3>3. QED  BY <3>2 DEF Online, Place, InRepository, Article
    <2>7. QED  BY <1>a, <2>2, <2>4, <2>5, <2>6 DEF ChangeOK
  <1>2. CASE ~Changes(w)
    <2>1. /\ <<task'[w].kind, task'[w].pub>> \in queue /\ task'[w].pc = "taken"
          /\ task'[w].rest = {} /\ ~task'[w].loose
      BY <1>2, ChangeTaken
    <2>2. PICK o \in Pubs : o = task'[w].pub
      BY <1>0, <2>1 DEF TypeOK
    <2>3. Published(o)
      <3>1. PICK job \in queue : job = <<task'[w].kind, o>>
        BY <2>1, <2>2
      <3>2. job[1] # "publish" /\ job[2] = o
        BY <3>1 DEF Changes
      <3>3. QED  BY <1>0, <3>2 DEF JobsOK
    <2>4. QED  BY <1>a, <2>1, <2>2, <2>3
  <1>3. CASE Changes(w)
    <2>1. PICK o \in Pubs : o = task[w].pub /\ Published(o)
      BY <1>0, <1>3, WorkFacts DEF Changes, Busy, ChangeOK
    <2>2. /\ ~task[w].loose /\ task[w].rest \subseteq Family(o)
          /\ Working(w) => task[w].at \in Family(o)
          /\ task[w].kind = "update" /\ At(w, "arrived") => Online(task[w].at)
      BY <1>0, <1>3, <2>1 DEF ChangeOK
    <2>3. task'[w] # NoTask
      BY Values DEF Changes
    <2>4. CASE task'[w] = task[w]
      <3>1. ASSUME task[w].kind = "update", task[w].pc = "arrived"
            PROVE  \E p \in Pubs : p = task[w].at /\ Online(p)'
        <4>1. PICK p \in Pubs : p = task[w].at /\ p \in Family(o) /\ Online(p)
          BY <2>2, <3>1 DEF Working, At, Family
        <4>2. Recorded(p)
          BY <2>1, <4>1, FamilyFacts
        <4>3. ~(\E v \in Workers : ChangeArrives(v) /\ task[v].kind = "withdraw")
          BY <1>0, <1>3, <3>1 DEF OneChange, ChangeArrives
        <4>4. Online(p)'
          BY <4>1, <4>2, <4>3, OnlineStep
        <4>5. QED  BY <4>1, <4>4
      <3>2. QED  BY <1>a, <2>1, <2>2, <2>4, <3>1 DEF Working
    <2>5. CASE ChangeArrives(w)
      <3>1. /\ task'[w].pc = "arrived" /\ task'[w].kind = task[w].kind
            /\ task'[w].pub = task[w].pub /\ task'[w].loose = task[w].loose
            /\ task'[w].at = task[w].at /\ task'[w].rest = task[w].rest
            /\ Working(w)
        BY <1>0, <2>5, GoValue DEF ChangeArrives, Working, At
      <3>2. ASSUME task[w].kind = "update"
            PROVE  \E p \in Pubs : p = task[w].at /\ Online(p)'
        <4>1. PICK p, place \in Pubs :
                /\ p = task[w].at /\ place = Place(p) /\ Recorded(p)
                /\ site'[place].online <=> task[w].kind = "update"
          BY <2>5, ChangeArrivesValue
        <4>2. p \in Family(o)
          BY <2>2, <3>1, <4>1
        <4>3. Published(p)
          BY <2>1, <4>2, FamilyFacts
        <4>4. site[place].copies > 0
          BY <1>0, <4>1, <4>3 DEF PlacedOK
        <4>5. Place(p)' = place
          BY <4>1, <4>4, PlaceStays
        <4>6. QED  BY <3>2, <4>1, <4>5 DEF Online
      <3>3. QED  BY <1>a, <2>1, <2>2, <3>1, <3>2
    <2>6. CASE ReadUpdate(w) \/ ReadWithdraw(w)
      <3>1. /\ task'[w].pc = "send" /\ task'[w].kind = task[w].kind
            /\ task'[w].pub = task[w].pub /\ task'[w].loose = task[w].loose
            /\ task'[w].at \in Family(task[w].pub)
            /\ task'[w].rest \subseteq Family(task[w].pub)
        BY <2>1, <2>3, <2>6, ReadStep
      <3>2. QED  BY <1>a, <2>1, <2>2, <3>1
    <2>7. CASE (Changed(w) \/ NotChanged(w)) /\ Goes(w)
      <3>1. Busy(w)
        BY <1>3 DEF Busy, Changes
      <3>2. \E q \in task[w].rest :
               /\ task'[w].pc = "send" /\ task'[w].at = q
               /\ task'[w].kind = task[w].kind /\ task'[w].pub = task[w].pub
               /\ task'[w].rest = task[w].rest \ {q}
               /\ task'[w].loose = task[w].loose
        BY <2>3, <2>7, <3>1, GoesValue
      <3>3. QED  BY <1>a, <2>1, <2>2, <3>2
    <2>8. QED
      BY <1>3, <2>1, <2>2, <2>3, <2>4, <2>5, <2>6, <2>7, ChangeStep
  <1>4. QED  BY <1>2, <1>3

\* What was sent stays online until it is recorded, or has given way.
LEMMA ArrivedStep ==
  ASSUME ~ChangesOverlap, IInv, Once, Kept, Next, NEW w \in Workers
  PROVE  ArrivedOK(w)'
  <1>0. TypeOK /\ ArrivedOK(w) /\ Grows
    BY RowsGrow DEF IInv, Kept
  <1> SUFFICES ASSUME Sends(w)', At(w, "arrived")' PROVE ArrivedOK(w)'
    BY DEF ArrivedOK
  <1>1. task' \in [Workers -> Task] /\ TasksOK'
    BY TasksStep
  <1>2. PICK p \in Pubs : p = task'[w].at
    <2>1. Busy(w)' /\ Working(w)'
      BY DEF Sends, Busy, At, Working
    <2>2. Recorded(task[w].at)'
      BY <1>1, <2>1 DEF TasksOK, TaskOK
    <2>3. QED  BY <2>2 DEF Recorded
  <1>3. Sending(w, p)'
    BY <1>2 DEF Sending, Working, At
  <1>4. Sending(w, p) /\ (At(w, "arrived") \/ Arrive(w))
    BY <1>3, SendingStep DEF At
  <1>5. Recorded(p)
    BY <1>4, SendingIt DEF Sending
  <1>6. ~Published(p)
    BY <1>4 DEF Once, OnceOK, Published
  <1>7. ASSUME NEW q \in Pubs, q # p, Published(q), Article(q) = Article(p)
        PROVE  ArrivedOK(w)'
    <2>1. Published(q)' /\ Article(q)' = Article(q) /\ Article(p)' = Article(p)
      BY <1>0, <1>5, <1>7, PublishedStays DEF Grows
    <2>2. Article(q)' = Article(task[w].at)'
      BY <1>2, <1>7, <2>1 DEF Article
    <2>3. QED  BY <1>2, <1>7, <2>1, <2>2 DEF ArrivedOK
  <1>8. ASSUME Online(p)' PROVE ArrivedOK(w)'
    <2>1. Online(task[w].at)'
      BY <1>2, <1>8 DEF Online, Place, InRepository, Article
    <2>2. QED  BY <2>1 DEF ArrivedOK
  <1>9. CASE Arrive(w)
    <2>1. p = task[w].at
      BY <1>4 DEF Sending
    <2>2. Online(p)'
      BY <1>9, <2>1, ArrivePlace
    <2>3. QED  BY <1>8, <2>2
  <1>10. CASE At(w, "arrived") /\ Online(p)
    <2>1. \/ Online(p)'
          \/ \E v \in Workers, q \in Pubs :
               /\ ChangeArrives(v) /\ task[v].kind = "withdraw"
               /\ q = task[v].at /\ Published(q) /\ Article(q) = Article(p)
      BY <1>5, <1>10, OnlineStep
    <2>2. QED  BY <1>6, <1>7, <1>8, <2>1
  <1>11. CASE At(w, "arrived") /\ ~Online(p)
    <2>1. task[w].at = p /\ Sends(w)
      BY <1>4 DEF Sending
    <2>2. \E q \in Pubs : q # p /\ Published(q) /\ Article(q) = Article(p)
      BY <1>0, <1>11, <2>1 DEF ArrivedOK
    <2>3. QED  BY <1>7, <2>2
  <1>12. QED  BY <1>4, <1>9, <1>10, <1>11

\* A withdrawal asked for or begun goes on until it is recorded.
LEMMA WithdrawalGoesOn ==
  ASSUME ~ChangesOverlap, IInv, Once, Kept, Next, NEW p \in Pubs, NEW o \in Pubs,
         p \in Family(o), Published(o), ~pubs[p].withdrawn, ~pubs[p].error,
         pubs'[p] = pubs[p],
         <<"withdraw", o>> \in queue \/ \E w \in Workers : Withdraws(w, o, p)
  PROVE  ToWithdraw(p)'
  <1>0. /\ TypeOK /\ task' \in [Workers -> Task]
        /\ \A w \in Workers : ChangeOK(w)
    BY TasksStep DEF IInv, Kept
  <1>1. p \in Family(o)'
    BY PublishedStays
  <1>2. ASSUME NEW w \in Workers, task'[w].kind = "withdraw", task'[w].pub = o,
               task'[w].pc = "taken" \/ task'[w].at = p \/ p \in task'[w].rest
        PROVE  ToWithdraw(p)'
    BY <1>1, <1>2 DEF ToWithdraw, Withdraws, At
  <1>3. ASSUME <<"withdraw", o>> \in queue' PROVE ToWithdraw(p)'
    BY <1>1, <1>3 DEF ToWithdraw
  <1>4. CASE <<"withdraw", o>> \in queue
    <2>1. SUFFICES ASSUME <<"withdraw", o>> \notin queue' PROVE ToWithdraw(p)'
      BY <1>3
    <2>2. \/ queue \subseteq queue'
          \/ \E q \in Pubs : Enqueue(q)
          \/ \E kind \in {"update", "withdraw"}, q \in Pubs : AskChange(kind, q)
          \/ \E w \in Workers : Interrupted(w) \/ Take(w)
      BY DEF Next, Work, EditDraft, ApproveDraft, Request, Look, Decide, MarkUncertain,
             DashboardStops, LooseEnds, ClaimSend, Arrive, Again, Sent, NotSent,
             ReadUpdate, ReadWithdraw, ChangeArrives, Changed, NotChanged
    <2>3. PICK w \in Workers : Take(w)
      BY <1>4, <2>1, <2>2 DEF Enqueue, AskChange, Interrupted
    <2>4. PICK job \in queue :
            /\ queue' = queue \ {job} /\ task'[w].pc = "taken"
            /\ task'[w].kind = job[1] /\ task'[w].pub = job[2]
      BY <1>0, <2>3, TakeValue
    <2>5. job = <<"withdraw", o>>
      BY <1>4, <2>1, <2>4
    <2>6. job[1] = "withdraw" /\ job[2] = o
      BY <2>5
    <2>7. QED  BY <1>2, <2>4, <2>6
  <1>5. ASSUME NEW w \in Workers, Withdraws(w, o, p) PROVE ToWithdraw(p)'
    <2>1. /\ task[w].kind = "withdraw" /\ task[w].pub = o /\ Changes(w)
          /\ At(w, "taken") \/ task[w].at = p \/ p \in task[w].rest
      BY <1>5 DEF Withdraws, Changes
    <2>2. ~task[w].loose /\ Published(task[w].pub) /\ Busy(w)
      BY <1>0, <2>1 DEF ChangeOK, Changes, Busy
    <2>3. CASE task'[w] = task[w]
      BY <1>2, <2>1, <2>3 DEF At
    <2>4. CASE <<task[w].kind, task[w].pub>> \in queue'
      BY <1>3, <2>1, <2>4
    <2>5. CASE /\ At(w, "send")
               /\ task'[w].kind = task[w].kind /\ task'[w].pub = task[w].pub
               /\ task'[w].at = task[w].at /\ task'[w].rest = task[w].rest
      BY <1>2, <2>1, <2>5 DEF At
    <2>6. CASE ReadUpdate(w) \/ ReadWithdraw(w)
      <3>1. \/ /\ task'[w].kind = task[w].kind /\ task'[w].pub = task[w].pub
               /\ task[w].kind = "withdraw" =>
                    \A q \in Family(task[w].pub) :
                      pubs[q].withdrawn \/ q = task'[w].at \/ q \in task'[w].rest
            \/ task[w].kind = "withdraw" =>
                 \A q \in Family(task[w].pub) : pubs[q].withdrawn
        BY <2>2, <2>6, ReadStep
      <3>2. QED  BY <1>2, <2>1, <3>1
    <2>7. CASE (Changed(w) \/ NotChanged(w)) /\ Goes(w)
      <3>1. PICK q \in Pubs, n \in Versions : q = task[w].at /\ n = task[w].version
        BY <2>2, <2>7, WorkFacts DEF Changed, NotChanged, Working, Fails, At
      <3>2. q # p
        <4>1. SUFFICES ASSUME q = p PROVE FALSE
          OBVIOUS
        <4>2. CASE Changed(w)
          <5>1. pubs' = [pubs EXCEPT ![q] = Written(pubs[q], "withdraw", n)]
            BY <2>1, <3>1, <4>2 DEF Changed
          <5>2. pubs'[q].withdrawn
            BY <1>0, <5>1, ChangedValue
          <5>3. QED  BY <4>1, <5>2
        <4>3. CASE NotChanged(w)
          <5>1. pubs' = [pubs EXCEPT ![q] = FailedChange(pubs[q])]
            BY <3>1, <4>3 DEF NotChanged
          <5>2. pubs'[q].error
            BY <1>0, <5>1, FailedChangeValue
          <5>3. QED  BY <4>1, <5>2
        <4>4. QED  BY <2>7, <4>2, <4>3
      <3>3. p \in task[w].rest
        BY <2>1, <2>7, <3>1, <3>2 DEF Changed, NotChanged, Fails, At
      <3>4. \E x \in task[w].rest :
               /\ task'[w].at = x
               /\ task'[w].kind = task[w].kind /\ task'[w].pub = task[w].pub
               /\ task'[w].rest = task[w].rest \ {x}
        BY <2>2, <2>7, <3>3, GoesValue
      <3>5. QED  BY <1>2, <2>1, <3>3, <3>4
    <2>8. QED
      BY <2>1, <2>2, <2>3, <2>4, <2>5, <2>6, <2>7, ChangeStep
  <1>6. QED  BY <1>4, <1>5

\* What is shown as published is online, or its withdrawal is still to end.
LEMMA ShownStep ==
  ASSUME ~ChangesOverlap, IInv, Once, Kept, Next, NEW p \in Pubs
  PROVE  ShownOK(p)'
  <1>0. /\ TypeOK /\ ShownOK(p) /\ OneLive /\ \A w \in Workers : ChangeOK(w)
        /\ PlacedOK(p)
    BY DEF IInv, Kept
  <1> SUFFICES ASSUME Published(p)', ~pubs'[p].withdrawn, ~pubs'[p].error
               PROVE  Online(p)' \/ ToWithdraw(p)'
    BY DEF ShownOK
  <1>1. ASSUME NEW w \in Workers, NEW q \in Pubs, ChangeArrives(w),
               task[w].kind = "withdraw", q = task[w].at, Published(q),
               Article(q) = Article(p), Recorded(p)
        PROVE  ToWithdraw(p)'
    <2>1. q = p
      <3>1. Status(q)' \in Live /\ Article(q)' = Article(p)'
        BY <1>1, PublishedStays, RowsGrow DEF Grows, Published
      <3>2. Status(p)' \in Live
        BY DEF Published
      <3>3. QED  BY <3>1, <3>2, OneLiveStep DEF OneLive
    <2>2. Changes(w) /\ Working(w) /\ ChangeOK(w)
      BY <1>0, <1>1 DEF ChangeArrives, Working, At
    <2>3. PICK o \in Pubs : o = task[w].pub /\ Published(o) /\ p \in Family(o)
      BY <1>1, <2>1, <2>2, WorkFacts DEF Changes, Busy, ChangeOK
    <2>4. p \in Family(o)'
      BY <2>3, PublishedStays
    <2>5. task'[w].kind = "withdraw" /\ task'[w].pub = o /\ task'[w].at = p
      BY <1>0, <1>1, <2>1, <2>3, GoValue DEF ChangeArrives
    <2>6. QED  BY <2>4, <2>5 DEF ToWithdraw, Withdraws
  <1>2. ASSUME Recorded(p), Online(p) PROVE Online(p)' \/ ToWithdraw(p)'
    BY <1>1, <1>2, OnlineStep
  <1>3. CASE ~Published(p)
    BY <1>2, <1>3, JustPublished
  <1>4. CASE Published(p) /\ pubs'[p] = pubs[p]
    <2>1. Recorded(p) /\ (Online(p) \/ ToWithdraw(p))
      BY <1>0, <1>4 DEF ShownOK, Recorded, Published
    <2>2. ASSUME ToWithdraw(p) PROVE ToWithdraw(p)'
      <3>1. PICK o \in Pubs :
              /\ p \in Family(o)
              /\ \/ <<"withdraw", o>> \in queue
                 \/ \E w \in Workers : Withdraws(w, o, p)
        BY <2>2 DEF ToWithdraw
      <3>2. Published(o)
        <4>1. CASE <<"withdraw", o>> \in queue
          <5>1. PICK job \in queue : job = <<"withdraw", o>>
            BY <4>1
          <5>2. job[1] # "publish" /\ job[2] = o
            BY <5>1
          <5>3. QED  BY <5>2 DEF Kept, JobsOK
        <4>2. ASSUME NEW w \in Workers, Withdraws(w, o, p) PROVE Published(o)
          BY <1>0, <4>2 DEF Withdraws, Changes, ChangeOK
        <4>3. QED  BY <3>1, <4>1, <4>2
      <3>3. QED  BY <1>4, <3>1, <3>2, WithdrawalGoesOn
    <2>3. QED  BY <1>2, <2>1, <2>2
  <1>5. CASE Published(p) /\ pubs'[p] # pubs[p]
    <2>1. PICK w \in Workers :
            /\ Changed(w) \/ NotChanged(w)
            /\ task[w].at = p /\ Busy(w)
            /\ Changed(w) => (pubs'[p].withdrawn <=> task[w].kind = "withdraw")
            /\ NotChanged(w) => pubs'[p].error
      BY <1>5, PublishedRow
    <2>2. Changed(w) /\ task[w].kind # "withdraw"
      BY <2>1
    <2>3. Changes(w) /\ task[w].kind = "update" /\ At(w, "arrived")
      BY <2>2 DEF Changed, Changes
    <2>4. Online(task[w].at)
      BY <1>0, <2>3 DEF ChangeOK
    <2>5. Online(p)
      BY <2>1, <2>4 DEF Online, Place, InRepository, Article
    <2>6. QED  BY <1>2, <1>5, <2>5 DEF Recorded, Published
  <1>6. QED  BY <1>3, <1>4, <1>5

LEMMA KeptStep == ~ChangesOverlap /\ IInv /\ Once /\ Kept /\ [Next]_vars => Kept'
  <1> SUFFICES ASSUME ~ChangesOverlap, IInv, Once, Kept, [Next]_vars PROVE Kept'
    OBVIOUS
  <1>1. CASE Next
    <2>1. OneLive' /\ OneChange' /\ JobsOK'
      BY <1>1, OneLiveStep, OneChangeStep, JobsStep
    <2>2. \A p \in Pubs : PlacedOK(p)' /\ ShownOK(p)'
      BY <1>1, PlacedStep, ShownStep
    <2>3. \A w \in Workers : ChangeOK(w)' /\ ArrivedOK(w)'
      BY <1>1, ChangeOKStep, ArrivedStep
    <2>4. QED  BY <2>1, <2>2, <2>3 DEF Kept
  <1>2. CASE UNCHANGED vars
    <2>1. UNCHANGED <<pubs, queue, task, site>>
      BY <1>2 DEF vars
    <2>2. /\ \A p \in Pubs : Place(p)' = Place(p) /\ Published(p)' = Published(p)
                             /\ Online(p)' = Online(p)
          /\ \A p \in Pubs : Family(p)' = Family(p)
      BY <2>1 DEF Place, Family, InRepository, Published, Online, Status, Article
    <2>3. OneLive' /\ OneChange'
      BY <2>1 DEF Kept, OneLive, OneChange, Changes, Status, Article
    <2>4. JobsOK'
      BY <2>1 DEF Kept, JobsOK, Published, Status
    <2>5. ASSUME NEW p \in Pubs PROVE PlacedOK(p)' /\ ShownOK(p)'
      <3>1. PlacedOK(p) /\ ShownOK(p)
        BY DEF Kept
      <3>2. PlacedOK(p)'
        BY <2>1, <2>2, <3>1 DEF PlacedOK
      <3>3. ToWithdraw(p)' = ToWithdraw(p)
        BY <2>1, <2>2 DEF ToWithdraw, Withdraws, At
      <3>4. QED  BY <2>1, <2>2, <3>1, <3>2, <3>3 DEF ShownOK
    <2>6. ASSUME NEW w \in Workers PROVE ChangeOK(w)' /\ ArrivedOK(w)'
      <3>1. ChangeOK(w) /\ ArrivedOK(w)
        BY DEF Kept
      <3>2. ChangeOK(w)'
        BY <2>1, <3>1
           DEF ChangeOK, Changes, Working, At, Family, Online, Place, InRepository,
               Published, Status, Article
      <3>3. ArrivedOK(w)'
        BY <2>1, <3>1
           DEF ArrivedOK, Sends, At, Online, Place, InRepository, Published, Status,
               Article
      <3>4. QED  BY <3>2, <3>3
    <2>7. QED  BY <2>3, <2>4, <2>5, <2>6 DEF Kept
  <1>3. QED  BY <1>1, <1>2

LEMMA KeptInit == Init => Kept
  <1> SUFFICES ASSUME Init PROVE Kept
    OBVIOUS
  <1>1. \A w \in Workers : task[w].pc = "idle" /\ task[w].kind = "none"
    BY Values DEF Init
  <1>2. \A p \in Pubs : Status(p) = "none" /\ ~site[p].online
    BY DEF Init, Status
  <1>3. OneLive /\ OneChange /\ JobsOK
    BY <1>1, <1>2 DEF Init, OneLive, OneChange, JobsOK, Changes
  <1>4. \A p \in Pubs : PlacedOK(p) /\ ShownOK(p)
    BY <1>2 DEF PlacedOK, ShownOK, Published
  <1>5. \A w \in Workers : ChangeOK(w) /\ ArrivedOK(w)
    BY <1>1 DEF ChangeOK, ArrivedOK, Changes, Sends
  <1>6. QED  BY <1>3, <1>4, <1>5 DEF Kept

LEMMA KeptShown == Kept => PublishedIsOnline
  <1> SUFFICES ASSUME Kept, NEW p \in Pubs, Published(p), ~pubs[p].withdrawn,
                      ~pubs[p].error, ~Changing(p)
               PROVE  Online(p)
    BY DEF PublishedIsOnline, Published, Online
  <1>1. ToWithdraw(p) => Changing(p)
    BY DEF ToWithdraw, Withdraws, Changing, Changes
  <1>2. QED  BY <1>1 DEF Kept, ShownOK

\* Where one transaction decides at a time and one change of a newsroom is run
\* at a time, what is shown as published, with no error and no change waiting
\* or under way, is on the site: refused or lost, cut short at any step and
\* queued again, a withdrawal of several translations leaves none of them off
\* the site while its row says published.
THEOREM PublishedOnline ==
    ~DecisionsRace /\ ~ChangesOverlap => (Spec => []PublishedIsOnline)
  <1> SUFFICES ASSUME ~DecisionsRace, ~ChangesOverlap PROVE Spec => []PublishedIsOnline
    OBVIOUS
  <1>1. IInv /\ Once /\ [Next]_vars => Once'
    BY OnceInv
  <1>2. IInv /\ Once /\ Kept /\ [Next]_vars => Kept'
    BY KeptStep
  <1>3. QED
    BY <1>1, <1>2, KeptShown, OnceInit, KeptInit, Invariance, PTL DEF Spec

-----------------------------------------------------------------------------
(* The desk's other parts: what the component's own module of proofs shows *)
(* of each, for the instance that runs here.  Each definition an instance  *)
(* of MCDesk names is the one the theorems speak of.                       *)

Pieces == INSTANCE ArticlesProofs WITH
  News <- Stories, Evening <- Evening, MaxVersion <- 3, FixRounds <- 1, MaxUpsets <- 1,
  on <- v1, fix <- v2, draft <- v3, job <- v4, translation <- v5, mishaps <- v6
Drafts == INSTANCE DraftsProofs WITH
  Slot <- {1, 2}, Wording <- {"a", "bad"}, Bad <- {"bad"}, MaxSaves <- 2, MaxDraws <- 2,
  rows <- v1, body <- v2, draft <- v3, at <- v4, saves <- v5, cover <- v6, picture <- v7,
  Item <- {"n"}, Doc <- {"d"}, Pro <- Stories, NoItem <- "none",
  Retention <- 0, EventDays <- 0, PerDay <- 2, LastDate <- 2, MaxLooks <- 1,
  today <- v1, item <- v2, pro <- v3, writer <- v4, asked <- v5, calls <- v6,
  Story <- {"s"}, Theme <- {"h"},
  PlanCfg <- {[mode |-> "mixed", perDay |-> 2, only |-> FALSE],
              [mode |-> "evergreen", perDay |-> 3, only |-> TRUE],
              [mode |-> "evergreen", perDay |-> 1, only |-> FALSE]},
  OnlyPerDay <- 2, RoundMost <- 3, NotAgain <- 1, Recent <- 1, MaxDate <- 2, MaxProps <- 2,
  date <- v1, setup <- v2, told <- v3, props <- v4, plan <- v5
Lines == INSTANCE HoursProofs WITH
  Topic <- {}, MaxVersion <- 3, MaxSaves <- 2,
  profile <- v1, page <- v2, brief <- v3, saved <- v4, crossed <- v5, out <- v6, saves <- v7,
  Proposal <- {}, Kind <- {}, Week <- 1, LastDay <- 1, MaxDeaths <- 0, MaxTrouble <- 0,
  now <- v1, tick <- v2, last <- v3, queued <- v4, props <- v5, post <- v6, sending <- v7,
  deaths <- v1, trouble <- v2,
  Feed <- {}, Round <- {}, Discovery <- {}, AutoOn <- TRUE, PlanSources <- 1,
  ErrorLimit <- 1, OutageMin <- 2, RetryDays <- 1, StaleDays <- 1, MaxDecisions <- 0, MaxChanges <- 0,
  says <- v1, arch <- v2, own <- v3, round <- v4, nightly <- v5, again <- v6, finder <- v7,
  decided <- v1, overrun <- v2, decisions <- v3, changes <- v4
TopicLines == INSTANCE HoursProofs WITH
  Topic <- {topic}, MaxVersion <- 3, MaxSaves <- 0,
  profile <- v1, page <- v2, brief <- v3, saved <- v4, crossed <- v5, out <- v6, saves <- v7,
  Proposal <- {}, Kind <- {}, Week <- 1, LastDay <- 1, MaxDeaths <- 0, MaxTrouble <- 0,
  now <- v1, tick <- v2, last <- v3, queued <- v4, props <- v5, post <- v6, sending <- v7,
  deaths <- v1, trouble <- v2,
  Feed <- {}, Round <- {}, Discovery <- {}, AutoOn <- TRUE, PlanSources <- 1,
  ErrorLimit <- 1, OutageMin <- 2, RetryDays <- 1, StaleDays <- 1, MaxDecisions <- 0, MaxChanges <- 0,
  says <- v1, arch <- v2, own <- v3, round <- v4, nightly <- v5, again <- v6, finder <- v7,
  decided <- v1, overrun <- v2, decisions <- v3, changes <- v4

LEMMA SameSizes ==
  ASSUME NEW S
  PROVE  /\ Archive!Cardinality(S) = Drafts!Cardinality(S)
         /\ Topics!Cardinality(S) = TopicLines!Cardinality(S)
         /\ Drafts!IsFiniteSet(S) <=> IsFiniteSet(S)
  <1>1. Archive!Cardinality(S) = Drafts!Cardinality(S)  BY DEF Archive!Cardinality, Drafts!Cardinality
  <1>2. Topics!Cardinality(S) = TopicLines!Cardinality(S)  BY DEF Topics!Cardinality, TopicLines!Cardinality
  <1>3. Drafts!IsFiniteSet(S) <=> IsFiniteSet(S)  BY DEF Drafts!IsFiniteSet, IsFiniteSet
  <1>. QED  BY <1>1, <1>2, <1>3

LEMMA SameArticles ==
  /\ Newsroom!ArticlesNext <=> Pieces!ArticlesNext
  /\ Newsroom!ArticlesTypeOK <=> Pieces!ArticlesTypeOK
  /\ Newsroom!PassedGoesOut <=> Pieces!PassedGoesOut
  /\ Newsroom!NothingWaits <=> Pieces!NothingWaits
  <1>1. Newsroom!ArticlesNext <=> Pieces!ArticlesNext
    BY DEF
      Newsroom!ArticlesNext, Newsroom!Switch, Newsroom!Piece, Newsroom!JobSteps,
      Newsroom!TranslationSteps, Newsroom!People, Newsroom!Mishap, Newsroom!Write,
      Newsroom!Start, Newsroom!Judge, Newsroom!Correct, Newsroom!PlainHeadline,
      Newsroom!GiveUpOrRewrite, Newsroom!Approve, Newsroom!Publish, Newsroom!Crash,
      Newsroom!ReadOriginal, Newsroom!StoreTranslation, Newsroom!FinishTranslation,
      Newsroom!Redo, Newsroom!Version, Newsroom!Edit, Newsroom!Decide, Newsroom!Delete,
      Newsroom!NextVersion, Newsroom!NoDraft, Newsroom!Open, Newsroom!NewDraft,
      Newsroom!Step, Newsroom!Stands, Newsroom!Of, Newsroom!Stop, Newsroom!ToldAlready,
      Newsroom!Put, Newsroom!Edited, Newsroom!Passed, Newsroom!RoundsSpent,
      Newsroom!Decided, Newsroom!Sent, Newsroom!NewJob, Newsroom!Owns, Newsroom!Written,
      Pieces!ArticlesNext, Pieces!Switch, Pieces!Piece, Pieces!JobSteps,
      Pieces!TranslationSteps, Pieces!People, Pieces!Mishap, Pieces!Write, Pieces!Start,
      Pieces!Judge, Pieces!Correct, Pieces!PlainHeadline, Pieces!GiveUpOrRewrite,
      Pieces!Approve, Pieces!Publish, Pieces!Crash, Pieces!ReadOriginal,
      Pieces!StoreTranslation, Pieces!FinishTranslation, Pieces!Redo, Pieces!Version,
      Pieces!Edit, Pieces!Decide, Pieces!Delete, Pieces!NextVersion, Pieces!NoDraft,
      Pieces!Open, Pieces!NewDraft, Pieces!Step, Pieces!Stands, Pieces!Of, Pieces!Stop,
      Pieces!ToldAlready, Pieces!Put, Pieces!Edited, Pieces!Passed, Pieces!RoundsSpent,
      Pieces!Decided, Pieces!Sent, Pieces!NewJob, Pieces!Owns, Pieces!Written
  <1>2. Newsroom!ArticlesTypeOK <=> Pieces!ArticlesTypeOK
    BY DEF
      Newsroom!ArticlesTypeOK, Newsroom!Piece, Newsroom!Version, Newsroom!Open,
      Pieces!ArticlesTypeOK, Pieces!Piece, Pieces!Version, Pieces!Open
  <1>3. Newsroom!PassedGoesOut <=> Pieces!PassedGoesOut
    BY DEF
      Newsroom!PassedGoesOut, Newsroom!Piece, Newsroom!Version, Pieces!PassedGoesOut,
      Pieces!Piece, Pieces!Version
  <1>4. Newsroom!NothingWaits <=> Pieces!NothingWaits
    BY DEF
      Newsroom!NothingWaits, Newsroom!Piece, Newsroom!Version, Newsroom!Open,
      Pieces!NothingWaits, Pieces!Piece, Pieces!Version, Pieces!Open
  <1>. QED  BY <1>1, <1>2, <1>3, <1>4

LEMMA SameTexts ==
  /\ Text!TextInit <=> Drafts!TextInit
  /\ Text!TextNext <=> Drafts!TextNext
  /\ Text!BodyIsTheSentences <=> Drafts!BodyIsTheSentences
  /\ Text!SameCover <=> Drafts!SameCover
  <1>1. Text!TextInit <=> Drafts!TextInit
    BY DEF
      Text!TextInit, Text!Flagged, Text!Editor, Text!Away, Drafts!TextInit, Drafts!Flagged,
      Drafts!Editor, Drafts!Away
  <1>2. Text!TextNext <=> Drafts!TextNext
    BY DEF
      Text!TextNext, Text!SaveFields, Text!Reword, Text!NotReworded, Text!SaveFree,
      Text!DecideDraft, Text!Draw, Text!CopyCovers, Text!RemoveCover,
      Text!ReadForTranslation, Text!StoreTranslation, Text!Editor, Text!Opens,
      Text!Rewritten, Text!Leaves, Text!Away, Text!images, Text!texts, Text!Copied,
      Text!Flagged, Drafts!TextNext, Drafts!SaveFields, Drafts!Reword, Drafts!NotReworded,
      Drafts!SaveFree, Drafts!DecideDraft, Drafts!Draw, Drafts!CopyCovers,
      Drafts!RemoveCover, Drafts!ReadForTranslation, Drafts!StoreTranslation, Drafts!Editor,
      Drafts!Opens, Drafts!Rewritten, Drafts!Leaves, Drafts!Away, Drafts!images,
      Drafts!texts, Drafts!Copied, Drafts!Flagged
  <1>3. Text!BodyIsTheSentences <=> Drafts!BodyIsTheSentences
    BY DEF
      Text!BodyIsTheSentences, Drafts!BodyIsTheSentences
  <1>4. Text!SameCover <=> Drafts!SameCover
    BY DEF
      Text!SameCover, Drafts!SameCover
  <1>. QED  BY <1>1, <1>2, <1>3, <1>4

LEMMA SameArchive ==
  /\ Archive!EvidenceInit <=> Drafts!EvidenceInit
  /\ Archive!EvidenceNext <=> Drafts!EvidenceNext
  /\ Archive!CitedStays <=> Drafts!CitedStays
  /\ Archive!CapNearlyHolds <=> Drafts!CapNearlyHolds
  <1>1. Archive!EvidenceInit <=> Drafts!EvidenceInit
    BY DEF
      Archive!EvidenceInit, Archive!Row, Archive!Gone, Archive!NoPro, Archive!NoWriter,
      Archive!Unknown, Drafts!EvidenceInit, Drafts!Row, Drafts!Gone, Drafts!NoPro,
      Drafts!NoWriter, Drafts!Unknown
  <1>2. Archive!EvidenceNext <=> Drafts!EvidenceNext
    BY DEF
      Archive!EvidenceNext, Archive!Prune, Archive!ConfirmReads, Archive!ConfirmWrites,
      Archive!NextDate, Archive!Collect, Archive!Propose, Archive!Decide, Archive!Gather,
      Archive!ReadTexts, Archive!Look, Archive!AskModel, Archive!Verify, Archive!Store,
      Archive!WriterDies, Archive!Row, Archive!Cited, Archive!Gone, Archive!NoPro,
      Archive!Since, Archive!Kept, Archive!UnderCap, Archive!Remember, Archive!NoWriter,
      Archive!Sourced, Archive!Unknown, Drafts!EvidenceNext, Drafts!Prune,
      Drafts!ConfirmReads, Drafts!ConfirmWrites, Drafts!NextDate, Drafts!Collect,
      Drafts!Propose, Drafts!Decide, Drafts!Gather, Drafts!ReadTexts, Drafts!Look,
      Drafts!AskModel, Drafts!Verify, Drafts!Store, Drafts!WriterDies, Drafts!Row,
      Drafts!Cited, Drafts!Gone, Drafts!NoPro, Drafts!Since, Drafts!Kept, Drafts!UnderCap,
      Drafts!Remember, Drafts!NoWriter, Drafts!Sourced, Drafts!Unknown
  <1>3. Archive!CitedStays <=> Drafts!CitedStays
    BY DEF
      Archive!CitedStays, Archive!Kept, Archive!Row, Drafts!CitedStays, Drafts!Kept,
      Drafts!Row
  <1>4. Archive!CapNearlyHolds <=> Drafts!CapNearlyHolds
    <2>1. Archive!Cardinality(Stories) = Drafts!Cardinality(Stories)  BY SameSizes
    <2>2. QED  BY <2>1 DEF Archive!CapNearlyHolds, Drafts!CapNearlyHolds
  <1>. QED  BY <1>1, <1>2, <1>3, <1>4

\* The proposals of one transaction are in one order, whichever instance says it.
LEMMA SameSequence ==
  ASSUME NEW S
  PROVE  Plan!SetToSeq(S) = Drafts!SetToSeq(S) /\ Plan!Cardinality(S) = Drafts!Cardinality(S)
  <1>1. Plan!Cardinality(S) = Drafts!Cardinality(S)  BY DEF Plan!Cardinality, Drafts!Cardinality
  <1>2. Plan!SetToSeq(S) = Drafts!SetToSeq(S)
    BY <1>1 DEF Plan!SetToSeq, Drafts!SetToSeq, Plan!IsInjective, Drafts!IsInjective
  <1>. QED  BY <1>1, <1>2

LEMMA SamePlan ==
  /\ Plan!PlanInit <=> Drafts!PlanInit
  /\ Plan!PlanNext <=> Drafts!PlanNext
  /\ Plan!NotProposedAgain <=> Drafts!NotProposedAgain
  <1>1. Plan!PlanInit <=> Drafts!PlanInit
    BY DEF Plan!PlanInit, Plan!Planner, Plan!NoPlan, Drafts!PlanInit, Drafts!Planner, Drafts!NoPlan
  <1>2. \A kind, abouts, alone : Plan!Insert(kind, abouts, alone) <=> Drafts!Insert(kind, abouts, alone)
    BY SameSequence DEF Plan!Insert, Plan!Room, Plan!Proposal, Drafts!Insert, Drafts!Room, Drafts!Proposal
  <1>3. Plan!MadeToday = Drafts!MadeToday
    BY SameSequence DEF Plan!MadeToday, Drafts!MadeToday
  <1>4. \A n : Plan!Themed(n) = Drafts!Themed(n)
    BY DEF Plan!Themed, Drafts!Themed
  <1>5. \A c, limit : Plan!Begin(c, limit) <=> Drafts!Begin(c, limit)
    BY DEF
      Plan!Begin, Plan!Fewer, Plan!NoPlan, Plan!Planner, Plan!Themed, Drafts!Begin,
      Drafts!Fewer, Drafts!NoPlan, Drafts!Planner, Drafts!Themed
  <1>6. Plan!TickPlans <=> Drafts!TickPlans
    BY <1>5 DEF
      Plan!TickPlans, Drafts!TickPlans
  <1>7. \A m : Plan!TopUp(m) <=> Drafts!TopUp(m)
    BY <1>5, <1>3 DEF
      Plan!TopUp, Plan!Fewer, Drafts!TopUp, Drafts!Fewer
  <1>8. \A t : (Plan!Told(t) <=> Drafts!Told(t)) /\ (Plan!Titles(t) <=> Drafts!Titles(t))
    BY <1>2 DEF
      Plan!Told, Plan!Titles, Drafts!Told, Drafts!Titles
  <1>9. (Plan!Ask <=> Drafts!Ask) /\ (Plan!DatePasses <=> Drafts!DatePasses)
    BY <1>2 DEF
      Plan!Ask, Plan!DatePasses, Drafts!Ask, Drafts!DatePasses
  <1>10. \A c : Plan!ReadThemes(c) <=> Drafts!ReadThemes(c)
    BY DEF
      Plan!ReadThemes, Plan!Proposed, Drafts!ReadThemes, Drafts!Proposed
  <1>11. \A c : Plan!ProposeTheme(c) <=> Drafts!ProposeTheme(c)
    BY <1>2 DEF
      Plan!ProposeTheme, Drafts!ProposeTheme
  <1>12. \A c : Plan!AfterThemes(c) <=> Drafts!AfterThemes(c)
    BY <1>4 DEF
      Plan!AfterThemes, Plan!NewsLeft, Plan!NoPlan, Drafts!AfterThemes, Drafts!NewsLeft,
      Drafts!NoPlan
  <1>13. \A c : Plan!Score(c) <=> Drafts!Score(c)
    BY DEF
      Plan!Score, Plan!InTheNews, Plan!Proposed, Drafts!Score, Drafts!InTheNews,
      Drafts!Proposed
  <1>14. \A c : Plan!Select(c) <=> Drafts!Select(c)
    BY SameSequence DEF
      Plan!Select, Drafts!Select
  <1>15. \A c : Plan!ProposeStory(c) <=> Drafts!ProposeStory(c)
    BY <1>2 DEF
      Plan!ProposeStory, Drafts!ProposeStory
  <1>16. \A c : Plan!ReadNews(c) <=> Drafts!ReadNews(c)
    BY DEF
      Plan!ReadNews, Plan!Candidates, Plan!InTheNews, Plan!Proposed, Plan!NoPlan,
      Drafts!ReadNews, Drafts!Candidates, Drafts!InTheNews, Drafts!Proposed, Drafts!NoPlan
  <1>17. \A c : Plan!FillIn(c) <=> Drafts!FillIn(c)
    BY <1>2, SameSequence DEF
      Plan!FillIn, Plan!NoPlan, Drafts!FillIn, Drafts!NoPlan
  <1>18. \A c : Plan!PlanDies(c) <=> Drafts!PlanDies(c)
    BY DEF
      Plan!PlanDies, Plan!NoPlan, Drafts!PlanDies, Drafts!NoPlan
  <1>19. Plan!PlanNext <=> Drafts!PlanNext
    BY <1>6, <1>7, <1>8, <1>9, <1>10, <1>11, <1>12, <1>13, <1>14, <1>15, <1>16, <1>17, <1>18
       DEF Plan!PlanNext, Plan!Planner, Drafts!PlanNext, Drafts!Planner
  <1>20. Plan!NotProposedAgain <=> Drafts!NotProposedAgain
    BY DEF Plan!NotProposedAgain, Plan!Planned, Drafts!NotProposedAgain, Drafts!Planned
  <1>. QED  BY <1>1, <1>19, <1>20

LEMMA SameLines ==
  /\ Settings!ProfilesInit <=> Lines!ProfilesInit
  /\ Settings!ProfilesNext <=> Lines!ProfilesNext
  /\ Settings!SavedIsInUse <=> Lines!SavedIsInUse
  /\ Settings!TakenOutStaysOut <=> Lines!TakenOutStaysOut
  <1>1. Settings!ProfilesInit <=> Lines!ProfilesInit
    BY DEF
      Settings!ProfilesInit, Settings!Version, Settings!NoVersion, Settings!NoPage,
      Settings!NoBrief, Settings!DefaultSettings, Settings!Keys, Lines!ProfilesInit,
      Lines!Version, Lines!NoVersion, Lines!NoPage, Lines!NoBrief, Lines!DefaultSettings,
      Lines!Keys
  <1>2. Settings!ProfilesNext <=> Lines!ProfilesNext
    BY DEF
      Settings!ProfilesNext, Settings!Pages, Settings!Analyse, Settings!Edit,
      Settings!ReadForBrief, Settings!SaveBrief, Settings!SaveRest, Settings!SaveMore,
      Settings!StopNewsroom, Settings!OpenAuto, Settings!SaveAuto, Settings!AskBrief,
      Settings!Version, Settings!Approve, Settings!Discard, Settings!DeleteVersion,
      Settings!RemoveTopic, Settings!RestoreTopic, Settings!Free, Settings!TakenOut,
      Settings!Editable, Settings!Waiting, Settings!InUse, Settings!SaveDraft, Settings!Row,
      Settings!DefaultSettings, Settings!Keys, Settings!Retired, Settings!Line,
      Settings!ghosts, Settings!NoBrief, Settings!Saves, Settings!Stored, Settings!SaveAll,
      Settings!NoPage, Settings!Newest, Settings!Approved, Settings!NoVersion,
      Settings!OnScreen, Settings!ChangeTopics, Settings!NextNumber, Settings!Stores,
      Lines!ProfilesNext, Lines!Pages, Lines!Analyse, Lines!Edit, Lines!ReadForBrief,
      Lines!SaveBrief, Lines!SaveRest, Lines!SaveMore, Lines!StopNewsroom, Lines!OpenAuto,
      Lines!SaveAuto, Lines!AskBrief, Lines!Version, Lines!Approve, Lines!Discard,
      Lines!DeleteVersion, Lines!RemoveTopic, Lines!RestoreTopic, Lines!Free,
      Lines!TakenOut, Lines!Editable, Lines!Waiting, Lines!InUse, Lines!SaveDraft,
      Lines!Row, Lines!DefaultSettings, Lines!Keys, Lines!Retired, Lines!Line, Lines!ghosts,
      Lines!NoBrief, Lines!Saves, Lines!Stored, Lines!SaveAll, Lines!NoPage, Lines!Newest,
      Lines!Approved, Lines!NoVersion, Lines!OnScreen, Lines!ChangeTopics, Lines!NextNumber,
      Lines!Stores
  <1>3. Settings!SavedIsInUse <=> Lines!SavedIsInUse
    BY DEF
      Settings!SavedIsInUse, Settings!InUse, Settings!Keys, Settings!Line, Settings!Version,
      Settings!Newest, Lines!SavedIsInUse, Lines!InUse, Lines!Keys, Lines!Line,
      Lines!Version, Lines!Newest
  <1>4. Settings!TakenOutStaysOut <=> Lines!TakenOutStaysOut
    BY DEF
      Settings!TakenOutStaysOut, Settings!Version, Settings!InUse, Settings!Waiting,
      Lines!TakenOutStaysOut, Lines!Version, Lines!InUse, Lines!Waiting
  <1>. QED  BY <1>1, <1>2, <1>3, <1>4

LEMMA SameTopics ==
  /\ Topics!ProfilesNext <=> TopicLines!ProfilesNext
  /\ Topics!ProfilesTypeOK <=> TopicLines!ProfilesTypeOK
  <1>1. Topics!ProfilesNext <=> TopicLines!ProfilesNext
    BY DEF
      Topics!ProfilesNext, Topics!Pages, Topics!Analyse, Topics!Edit, Topics!ReadForBrief,
      Topics!SaveBrief, Topics!SaveRest, Topics!SaveMore, Topics!StopNewsroom,
      Topics!OpenAuto, Topics!SaveAuto, Topics!AskBrief, Topics!Version, Topics!Approve,
      Topics!Discard, Topics!DeleteVersion, Topics!RemoveTopic, Topics!RestoreTopic,
      Topics!Free, Topics!TakenOut, Topics!Editable, Topics!Waiting, Topics!InUse,
      Topics!SaveDraft, Topics!Row, Topics!DefaultSettings, Topics!Keys, Topics!Retired,
      Topics!Line, Topics!ghosts, Topics!NoBrief, Topics!Saves, Topics!Stored,
      Topics!SaveAll, Topics!NoPage, Topics!Newest, Topics!Approved, Topics!NoVersion,
      Topics!OnScreen, Topics!ChangeTopics, Topics!NextNumber, Topics!Stores,
      TopicLines!ProfilesNext, TopicLines!Pages, TopicLines!Analyse, TopicLines!Edit,
      TopicLines!ReadForBrief, TopicLines!SaveBrief, TopicLines!SaveRest,
      TopicLines!SaveMore, TopicLines!StopNewsroom, TopicLines!OpenAuto,
      TopicLines!SaveAuto, TopicLines!AskBrief, TopicLines!Version, TopicLines!Approve,
      TopicLines!Discard, TopicLines!DeleteVersion, TopicLines!RemoveTopic,
      TopicLines!RestoreTopic, TopicLines!Free, TopicLines!TakenOut, TopicLines!Editable,
      TopicLines!Waiting, TopicLines!InUse, TopicLines!SaveDraft, TopicLines!Row,
      TopicLines!DefaultSettings, TopicLines!Keys, TopicLines!Retired, TopicLines!Line,
      TopicLines!ghosts, TopicLines!NoBrief, TopicLines!Saves, TopicLines!Stored,
      TopicLines!SaveAll, TopicLines!NoPage, TopicLines!Newest, TopicLines!Approved,
      TopicLines!NoVersion, TopicLines!OnScreen, TopicLines!ChangeTopics,
      TopicLines!NextNumber, TopicLines!Stores
  <1>2. Topics!ProfilesTypeOK <=> TopicLines!ProfilesTypeOK
    <2>1. Topics!InUse = TopicLines!InUse  BY DEF Topics!InUse, TopicLines!InUse, Topics!Version, TopicLines!Version
    <2>2. Topics!Cardinality(TopicLines!InUse) = TopicLines!Cardinality(TopicLines!InUse)  BY SameSizes
    <2>3. QED
      BY <2>1, <2>2
         DEF Topics!ProfilesTypeOK, Topics!Version, Topics!Keys,
             TopicLines!ProfilesTypeOK, TopicLines!Version, TopicLines!Keys
  <1>. QED  BY <1>1, <1>2

LEMMA SameLine ==
  /\ Settings!ProfilesInit <=> TopicLines!ProfilesInit
  /\ Settings!SavedIsInUse <=> TopicLines!SavedIsInUse
  /\ Settings!TakenOutStaysOut <=> TopicLines!TakenOutStaysOut
  <1>1. Settings!ProfilesInit <=> TopicLines!ProfilesInit
    BY DEF
      Settings!ProfilesInit, Settings!Version, Settings!NoVersion, Settings!NoPage,
      Settings!NoBrief, Settings!DefaultSettings, Settings!Keys, TopicLines!ProfilesInit,
      TopicLines!Version, TopicLines!NoVersion, TopicLines!NoPage, TopicLines!NoBrief,
      TopicLines!DefaultSettings, TopicLines!Keys
  <1>2. Settings!SavedIsInUse <=> TopicLines!SavedIsInUse
    BY DEF
      Settings!SavedIsInUse, Settings!InUse, Settings!Keys, Settings!Line, Settings!Version,
      Settings!Newest, TopicLines!SavedIsInUse, TopicLines!InUse, TopicLines!Keys,
      TopicLines!Line, TopicLines!Version, TopicLines!Newest
  <1>3. Settings!TakenOutStaysOut <=> TopicLines!TakenOutStaysOut
    BY DEF
      Settings!TakenOutStaysOut, Settings!Version, Settings!InUse, Settings!Waiting,
      TopicLines!TakenOutStaysOut, TopicLines!Version, TopicLines!InUse, TopicLines!Waiting
  <1>. QED  BY <1>1, <1>2, <1>3

LEMMA SameAsked ==
  ASSUME NEW S
  PROVE  Newsroom!AskedFor(S) <=> Pieces!AskedFor(S)
  BY DEF Newsroom!AskedFor, Newsroom!Piece, Newsroom!Version, Newsroom!NoDraft, Newsroom!NewJob,
         Newsroom!NoTranslation, Pieces!AskedFor, Pieces!Piece, Pieces!Version, Pieces!NoDraft,
         Pieces!NewJob, Pieces!NoTranslation

-----------------------------------------------------------------------------
(* Whichever part runs, its invariant holds while it does; that of the     *)
(* publishing always does, at rest or not.                                 *)
DeskIInv ==
  /\ IInv
  /\ part = "articles" => Pieces!ArticlesIInv
  /\ part = "text" => Drafts!TextInv /\ Drafts!CoverInv
  /\ part = "settings" => Lines!LineIInv
  /\ part = "topics" => TopicLines!LineIInv
  /\ part = "archive" => Drafts!CitesInv /\ Drafts!Cap
  /\ part = "plan" => Drafts!PlanIInv

\* The constants of the instances are what the proofs of each part ask for.
LEMMA DeskConstants ==
  /\ Pieces!Bounds /\ Drafts!IsFiniteSet(Stories) /\ Stories # {} /\ 2 \in Nat /\ 3 \in Nat
  /\ Drafts!Sites
  <1>1. IsFiniteSet(Stories)
    <2>1. IsFiniteSet({w1}) /\ IsFiniteSet({w2})  BY FS_Singleton
    <2>2. Stories = {w1} \cup {w2}  BY DEF Stories
    <2>3. IsFiniteSet({w1} \cup {w2})  BY <2>1, FS_Union
    <2>4. QED  BY <2>2, <2>3
  <1>2. Drafts!IsFiniteSet(Stories)  BY <1>1, SameSizes
  <1>3. Drafts!Sites
    <2>1. Drafts!IsFiniteSet({"s"})  BY FS_Singleton, SameSizes
    <2>2. QED  BY <2>1 DEF Drafts!Sites
  <1>4. QED  BY <1>2, <1>3 DEF Pieces!Bounds, Stories

LEMMA DeskInitHolds == DeskInit => DeskIInv
  <1> SUFFICES ASSUME DeskInit PROVE DeskIInv  OBVIOUS
  <1>1. IInv  BY InitInv DEF DeskInit
  <1>2. part = "articles" => Pieces!ArticlesIInv
    <2>1. part = "articles" => \E S \in {Stories, Evening} : Newsroom!AskedFor(S)  BY DEF DeskInit
    <2>2. QED  BY <2>1, SameAsked, DeskConstants, Pieces!ArticlesInitHolds
  <1>3. part = "text" => Drafts!TextInv /\ Drafts!CoverInv
    BY SameTexts, Drafts!TextInitHolds, Drafts!CoverInitHolds DEF DeskInit
  <1>4. part = "settings" => Lines!LineIInv  BY SameLines, Lines!LineInitHolds DEF DeskInit
  <1>5. part = "topics" => TopicLines!LineIInv  BY SameLine, TopicLines!LineInitHolds DEF DeskInit
  <1>6. part = "archive" => Drafts!CitesInv /\ Drafts!Cap
    <2>1. part = "archive" => Drafts!EvidenceInit  BY SameArchive DEF DeskInit
    <2>2. Drafts!EvidenceInit => Drafts!Cap  BY DeskConstants, Drafts!CapInitHolds
    <2>3. QED  BY <2>1, <2>2, Drafts!EvidenceInitHolds
  <1>7. part = "plan" => Drafts!PlanIInv
    BY SamePlan, DeskConstants, Drafts!PlanInitHolds DEF DeskInit
  <1>8. QED  BY <1>1, <1>2, <1>3, <1>4, <1>5, <1>6, <1>7 DEF DeskIInv

LEMMA DeskStep == DeskIInv /\ [DeskNext]_<<part, vars, deskVars>> => DeskIInv'
  <1> SUFFICES ASSUME DeskIInv, [DeskNext]_<<part, vars, deskVars>> PROVE DeskIInv'  OBVIOUS
  <1>1. part' = part /\ [Next]_vars  BY DEF DeskNext
  <1>2. IInv'  BY <1>1, InvStep DEF DeskIInv
  <1>3. part = "articles" => Pieces!ArticlesIInv'
    <2>1. part = "articles" => [Pieces!ArticlesNext]_(Pieces!articleVars)
      BY SameArticles DEF DeskNext, deskVars, Pieces!articleVars
    <2>2. QED  BY <2>1, DeskConstants, Pieces!ArticlesStep DEF DeskIInv
  <1>4. part = "text" => Drafts!TextInv' /\ Drafts!CoverInv'
    <2>1. part = "text" => [Drafts!TextNext]_(Drafts!textVars)
      BY SameTexts DEF DeskNext, deskVars, Drafts!textVars
    <2>2. QED  BY <2>1, Drafts!TextStep, Drafts!CoverStep DEF DeskIInv
  <1>5. part = "settings" => Lines!LineIInv'
    <2>1. part = "settings" => [Lines!ProfilesNext]_(Lines!profileVars)
      BY SameLines DEF DeskNext, deskVars, Lines!profileVars
    <2>2. QED  BY <2>1, DeskConstants, Lines!LineStep DEF DeskIInv
  <1>6. part = "topics" => TopicLines!LineIInv'
    <2>1. part = "topics" => [TopicLines!ProfilesNext]_(TopicLines!profileVars)
      BY SameTopics DEF DeskNext, deskVars, TopicLines!profileVars
    <2>2. QED  BY <2>1, DeskConstants, TopicLines!LineStep DEF DeskIInv
  <1>7. part = "archive" => Drafts!CitesInv' /\ Drafts!Cap'
    <2>1. part = "archive" => [Drafts!EvidenceNext]_(Drafts!evidenceVars)
      BY SameArchive DEF DeskNext, deskVars, Drafts!evidenceVars
    <2>2. part = "archive" => Drafts!CitesInv'  BY <2>1, Drafts!EvidenceStep DEF DeskIInv
    <2>3. Drafts!CitesInv => Drafts!Tables  BY DEF Drafts!CitesInv
    <2>4. part = "archive" => Drafts!Cap'  BY <2>1, <2>3, DeskConstants, Drafts!CapStep DEF DeskIInv
    <2>5. QED  BY <2>2, <2>4
  <1>8. part = "plan" => Drafts!PlanIInv'
    <2>1. part = "plan" => [Drafts!PlanNext]_(Drafts!planVars)
      BY SamePlan DEF DeskNext, deskVars, Drafts!planVars
    <2>2. QED  BY <2>1, DeskConstants, Drafts!PlanStep DEF DeskIInv
  <1>9. QED  BY <1>1, <1>2, <1>3, <1>4, <1>5, <1>6, <1>7, <1>8 DEF DeskIInv

LEMMA DeskAlways == DeskSpec => []DeskIInv
  BY DeskInitHolds, DeskStep, PTL DEF DeskSpec

-----------------------------------------------------------------------------
\* Every part of the desk keeps its types, and at most one version of a line
\* is in use, whatever pages, jobs and analyses overlap.
THEOREM DeskTyped == DeskSpec => []DeskTypeOK
  <1>1. DeskIInv => DeskTypeOK
    <2>1. part = "articles" /\ DeskIInv => Newsroom!ArticlesTypeOK
      BY SameArticles, DeskConstants, Pieces!ArticlesTell DEF DeskIInv
    <2>2. part = "topics" /\ DeskIInv => Topics!ProfilesTypeOK
      BY SameTopics, DeskConstants, TopicLines!LineTells DEF DeskIInv
    <2>3. QED  BY <2>1, <2>2 DEF DeskIInv, IInv, DeskTypeOK
  <1>2. QED  BY <1>1, DeskAlways, PTL

\* At the desk too an article of the newsroom goes out only when the
\* editor-in-chief or a person let its text through (autopilot.finish):
\* ArticlesProofs!OnlyPassedGoesOut, for the newsroom that runs here.
THEOREM PassedAtTheDesk == DeskSpec => []PassedGoesOut
  <1>1. DeskIInv => PassedGoesOut
    BY SameArticles, DeskConstants, Pieces!ArticlesTell DEF DeskIInv, PassedGoesOut
  <1>2. QED  BY <1>1, DeskAlways, PTL

\* And with on_problem fix nothing of it waits for a person.
THEOREM NothingWaitsAtTheDesk == DeskSpec => []NothingWaits
  <1>1. DeskIInv => NothingWaits
    BY SameArticles, DeskConstants, Pieces!ArticlesTell DEF DeskIInv, NothingWaits
  <1>2. QED  BY <1>1, DeskAlways, PTL

\* What the owner saves of a line, and takes out of it, stands
\* (HoursProofs!OwnersLineStands), for the pages and for the topics.
THEOREM OwnersWordHeld == DeskSpec => []OwnersWordStands
  <1>1. DeskIInv => OwnersWordStands
    <2>1. part = "settings" /\ DeskIInv => Settings!SavedIsInUse /\ Settings!TakenOutStaysOut
      BY SameLines, DeskConstants, Lines!LineTells DEF DeskIInv
    <2>2. part = "topics" /\ DeskIInv => Settings!SavedIsInUse /\ Settings!TakenOutStaysOut
      BY SameLine, DeskConstants, TopicLines!LineTells DEF DeskIInv
    <2>3. QED  BY <2>1, <2>2 DEF OwnersWordStands
  <1>2. QED  BY <1>1, DeskAlways, PTL

\* The body published is what the checked sentences say, and a translation
\* shows the draft's cover (DraftsProofs), for the draft that runs here.
THEOREM ShownAsWritten == DeskSpec => []WhatIsShown
  <1>1. Drafts!TextInv => Drafts!BodyIsTheSentences  BY DEF Drafts!TextInv
  <1>2. DeskIInv => WhatIsShown
    BY <1>1, SameTexts, Drafts!CoverTells DEF DeskIInv, WhatIsShown
  <1>3. QED  BY <1>2, DeskAlways, PTL

\* What is cited stays in the archive, and the day's cap of searches is passed
\* by few (DraftsProofs), for the archive and the two articles that run here.
THEOREM EvidenceHeld == DeskSpec => []EvidenceStands
  <1>1. Drafts!CitesInv => Drafts!CitedStays  BY DEF Drafts!CitesInv
  <1>2. Drafts!Cap => Drafts!CapNearlyHolds  BY DeskConstants, Drafts!CapTells
  <1>3. DeskIInv => EvidenceStands
    BY <1>1, <1>2, SameArchive DEF DeskIInv, EvidenceStands
  <1>4. QED  BY <1>3, DeskAlways, PTL

\* A story or a theme proposed by a planner that had the site to itself is not
\* proposed by another such one within NOT_AGAIN days (DraftsProofs!ProposedOnce),
\* on the three sites that run here.
THEOREM ProposedAtTheDesk == DeskSpec => []NotProposedAgain
  <1>1. DeskIInv => NotProposedAgain
    BY SamePlan, Drafts!PlanTells DEF DeskIInv, NotProposedAgain
  <1>2. QED  BY <1>1, DeskAlways, PTL

\* What publishing promises, at the desk: the theorems above, where another
\* part of it may run instead.
THEOREM PublishingAtTheDesk ==
    ~DecisionsRace /\ ~ChangesOverlap =>
      (DeskSpec => [](OnlineIsApproved /\ NotRepeated /\ PublishedIsOnline))
  <1> SUFFICES ASSUME ~DecisionsRace, ~ChangesOverlap
               PROVE  DeskSpec => [](OnlineIsApproved /\ NotRepeated /\ PublishedIsOnline)
    OBVIOUS
  <1>1. DeskInit => DeskIInv /\ Once /\ Kept
    BY DeskInitHolds, OnceInit, KeptInit DEF DeskInit
  <1>2. ASSUME DeskIInv, Once, Kept, [DeskNext]_<<part, vars, deskVars>> PROVE DeskIInv' /\ Once' /\ Kept'
    <2>1. [Next]_vars /\ IInv  BY <1>2 DEF DeskNext, DeskIInv
    <2>2. QED  BY <1>2, <2>1, DeskStep, OnceInv, KeptStep
  <1>3. DeskIInv /\ Once /\ Kept => OnlineIsApproved /\ NotRepeated /\ PublishedIsOnline
    BY ApprovedShown, OnceShown, KeptShown DEF DeskIInv
  <1>4. QED  BY <1>1, <1>2, <1>3, PTL DEF DeskSpec
=============================================================================
