------------------------------ MODULE Sources -------------------------------
(***************************************************************************)
(* The sources of a newsroom and of the archive it reads.  Discovery finds *)
(* feeds, rates what they publish and keeps them; hourly rounds read those *)
(* a newsroom follows; the nightly maintenance suspends the ones that fail *)
(* or went silent, tries the suspended ones again and looks once more at   *)
(* the newsroom's own; people decide on single ones meanwhile.  Rounds,    *)
(* maintenances and discoveries fetch between their transactions, so each  *)
(* acts on rows it read before.                                            *)
(***************************************************************************)
EXTENDS Integers, FiniteSets

CONSTANTS Feed,
          Round,       \* the collections that may run together
          Discovery,   \* the discoveries that may run together
          AutoOn,      \* the automatic newsroom is on
          PlanSources, \* active sources the plan includes
          ErrorLimit, OutageMin, RetryDays, StaleDays,
          MaxDecisions, MaxChanges  \* bounds of the exploration

VARIABLES says,      \* what a read of each feed gives now
          arch,      \* the archive's row of each feed
          own,       \* the newsroom's row of each feed
          round,     \* the collections under way
          nightly,   \* the maintenance of the archive under way
          again,     \* the maintenance of the newsroom under way: rows as they were read
          finder,    \* the discoveries under way
          decided,   \* the status a person last gave each source
          overrun,   \* sources whose re-evaluation was under way as a person decided
          decisions, changes  \* so far

sourceVars == <<says, arch, own, round, nightly, again, finder, decided, overrun, decisions, changes>>
world == <<says, changes>>
people == <<decided, overrun, decisions>>

\* CoreTrouble: the failure is the Core's, not the source's.
Answer == {"news", "silent", "down", "CoreTrouble"}
NoRow == [status |-> "none", why |-> "", by |-> FALSE, rated |-> FALSE, age |-> 0,
          errors |-> 0, error |-> "", quiet |-> 0]
New(status) == [NoRow EXCEPT !.status = status]
NoRound == [on |-> FALSE, read |-> {}, left |-> {}, failed |-> {}]
Asleep == [done |-> FALSE, due |-> {}]
Reread == [done |-> FALSE, due |-> <<>>]
NoFinder == [on |-> FALSE, existing |-> {}, left |-> {}, byHand |-> FALSE, found |-> "none", at |-> "none"]

SourcesInit ==
  /\ says = [f \in Feed |-> "news"] /\ changes = 0
  /\ arch = [f \in Feed |-> NoRow] /\ own = [f \in Feed |-> NoRow]
  /\ round = [r \in Round |-> NoRound]
  /\ nightly = Asleep /\ again = Reread
  /\ finder = [d \in Discovery |-> NoFinder]
  /\ decided = [f \in Feed |-> "none"] /\ overrun = {} /\ decisions = 0

Active(rows) == {f \in Feed : rows[f].status = "active"}
Room == Cardinality(Active(own)) < PlanSources
(* repo.set_source_status of an automatic change; `age` runs from the last *)
(* evaluation or, before the first, from the last change of status.        *)
Aged(row) == [row EXCEPT !.age = IF row.rated THEN @ ELSE 0]
SetStatus(row, status, why) ==
  IF row.status = status THEN row ELSE [Aged(row) EXCEPT !.status = status, !.why = why, !.by = FALSE]
Evaluated(row) == [row EXCEPT !.rated = TRUE, !.age = 0]

-----------------------------------------------------------------------------
(* discover: the rows that are there are read, then each new candidate is  *)
(* fetched and rated; the plan's number is read in a transaction and the   *)
(* source inserted in the next.                                            *)
DiscoverBegins(d) ==
  /\ ~finder[d].on /\ \E f \in Feed : own[f].status = "none"
  /\ \E byHand \in BOOLEAN : finder' = [finder EXCEPT ![d] =
       [NoFinder EXCEPT !.on = TRUE, !.byHand = byHand, !.existing = {f \in Feed : own[f].status # "none"},
                        !.left = {f \in Feed : own[f].status = "none"}]]
  /\ UNCHANGED <<world, arch, own, round, nightly, again, people>>

(* rate: nothing is known of what a feed publishes but that it is readable;*)
(* a person's choice enters active, the automatic newsroom takes candidates*)
Rated(d, verdict) ==
  IF finder[d].byHand \/ (AutoOn /\ verdict = "candidate") THEN "active" ELSE verdict
Try(d, f) ==
  /\ f \in finder[d].left /\ finder[d].at = "none"
  /\ IF says[f] \in {"down", "CoreTrouble"}
     THEN finder' = [finder EXCEPT ![d].left = @ \ {f}]
     ELSE \E verdict \in {"active", "candidate", "rejected"} :
            LET held == Rated(d, verdict) = "active" /\ ~Room
            IN finder' = [finder EXCEPT ![d].at = f, ![d].left = @ \ {f},
                                        ![d].found = IF held THEN "candidate" ELSE Rated(d, verdict)]
  /\ UNCHANGED <<world, arch, own, round, nightly, again, people>>

(* upsert_source, archive_source: a row that appeared meanwhile keeps its  *)
(* status; the archive's row is created with the first follower.           *)
Upsert(d, f) ==
  /\ f = finder[d].at
  /\ own' = [own EXCEPT ![f] = Evaluated(IF @.status = "none" THEN New(finder[d].found) ELSE @)]
  /\ arch' = [arch EXCEPT ![f] = IF @.status = "none" THEN New("active") ELSE @]
  /\ finder' = [finder EXCEPT ![d].at = "none", ![d].found = "none"]
  /\ UNCHANGED <<world, round, nightly, again, people>>

(* The automatic newsroom takes on the candidates that wait, in the plan.  *)
TakenOn(S) == /\ S \subseteq {f \in Feed : own[f].status = "candidate"}
              /\ \/ S = {f \in Feed : own[f].status = "candidate"}
                 \/ Cardinality(Active(own) \cup S) >= PlanSources
              /\ S = {} \/ Cardinality(Active(own) \cup S) <= PlanSources
DiscoverEnds(d) ==
  /\ finder[d].on /\ finder[d].left = {} /\ finder[d].at = "none"
  /\ \E S \in SUBSET Feed :
       /\ IF AutoOn /\ ~finder[d].byHand THEN TakenOn(S) ELSE S = {}
       /\ own' = [f \in Feed |-> IF f \in S THEN SetStatus(own[f], "active", "taken on") ELSE own[f]]
  /\ finder' = [finder EXCEPT ![d] = NoFinder]
  /\ UNCHANGED <<world, arch, round, nightly, again, people>>

-----------------------------------------------------------------------------
(* rescue_sources: suspended for failures whose last was the Core's fault. *)
Rescued(row) ==
  IF row.status = "suspended" /\ ~row.by /\ row.why = "failed" /\ row.error = "CoreTrouble"
  THEN [row EXCEPT !.status = "active", !.why = "", !.errors = 0] ELSE row

(* collect_archive: the active sources somebody follows, one after the     *)
(* other; the failures are recorded at the end, unless most failed at once.*)
CollectBegins(r) ==
  /\ ~round[r].on
  /\ arch' = [f \in Feed |-> Rescued(arch[f])]
  /\ LET followed == Active(arch') \cap Active(own)
     IN round' = [round EXCEPT ![r] = [NoRound EXCEPT !.on = TRUE, !.read = followed, !.left = followed]]
  /\ UNCHANGED <<world, own, nightly, again, finder, people>>
Read(r, f) ==
  /\ f \in round[r].left
  /\ IF says[f] \in {"news", "silent"}
     THEN /\ arch' = [arch EXCEPT ![f].errors = 0, ![f].error = "", ![f].quiet = IF says[f] = "news" THEN 0 ELSE @]
          /\ round' = [round EXCEPT ![r].left = @ \ {f}]
     ELSE /\ round' = [round EXCEPT ![r].left = @ \ {f}, ![r].failed = @ \cup {<<f, says[f]>>}]
          /\ UNCHANGED arch
  /\ UNCHANGED <<world, own, nightly, again, finder, people>>

Counted(r) == {f \in Feed : <<f, "down">> \in round[r].failed}
Outage(r) == Cardinality(round[r].read) >= OutageMin /\ 2 * Cardinality(Counted(r)) > Cardinality(round[r].read)
CollectEnds(r) ==
  /\ round[r].on /\ round[r].left = {}
  /\ arch' = [f \in Feed |->
       IF \E e \in Answer : <<f, e>> \in round[r].failed
       THEN [arch[f] EXCEPT !.error = CHOOSE e \in Answer : <<f, e>> \in round[r].failed,
                            !.errors = IF f \in Counted(r) /\ ~Outage(r) /\ @ < ErrorLimit THEN @ + 1 ELSE @]
       ELSE arch[f]]
  /\ round' = [round EXCEPT ![r] = NoRound]
  /\ UNCHANGED <<world, own, nightly, again, finder, people>>

-----------------------------------------------------------------------------
(* maintain_archive: first the suspensions, then what was suspended before *)
(* and has waited long enough is fetched.                                  *)
Kept(row) ==
  CASE row.status # "active" -> row
    [] row.errors >= ErrorLimit -> SetStatus(row, "suspended", "failed")
    [] row.errors < ErrorLimit /\ row.quiet >= StaleDays -> SetStatus(row, "suspended", "silent")
    [] OTHER -> row
DueAgain(row) ==
  row.status = "suspended" /\ ~row.by /\ row.age >= (IF row.why = "failed" THEN 1 ELSE RetryDays)
MaintainArchive ==
  /\ ~nightly.done
  /\ arch' = [f \in Feed |-> Kept(arch[f])]
  /\ nightly' = [done |-> TRUE, due |-> {f \in Feed : DueAgain(arch[f])}]
  /\ UNCHANGED <<world, own, round, again, finder, people>>
\* A slip: the news the archive has already decides, not those just fetched.
FreshInArchive(f) == arch[f].quiet < StaleDays
Fresh(f) == says[f] = "news"
TryAgain(f) ==
  /\ f \in nightly.due
  /\ nightly' = [nightly EXCEPT !.due = @ \ {f}]
  /\ CASE says[f] = "CoreTrouble" -> UNCHANGED arch
       [] says[f] = "down" -> arch' = [arch EXCEPT ![f] = Evaluated(@)]
       [] OTHER -> LET read == [Evaluated(arch[f]) EXCEPT !.errors = 0]
                   IN arch' = [arch EXCEPT ![f] = IF Fresh(f) THEN SetStatus(read, "active", "") ELSE read]
  /\ UNCHANGED <<world, own, round, again, finder, people>>

(* maintain: searches give way to a better one, the sources that drifted   *)
(* off topic are suspended, and the suspended and candidate ones are rated *)
(* again, from the rows as read.                                           *)
\* A slip: what a person decided is looked at again too.
LooksAtAll(row) == row.status \in {"suspended", "candidate"} /\ row.age >= RetryDays
LooksAgain(row) == row.status \in {"suspended", "candidate"} /\ ~row.by /\ row.age >= RetryDays
Suspended(rows, S, why) == [f \in Feed |-> IF f \in S THEN SetStatus(rows[f], "suspended", why) ELSE rows[f]]
MaintainNewsroom ==
  /\ ~again.done
  /\ \E replaced \in SUBSET {f \in Feed : own[f].status \in {"active", "candidate"} /\ ~own[f].by} :
       LET rows == Suspended(own, replaced, "replaced")
       IN /\ \E offTopic \in SUBSET {f \in Active(rows) : ~rows[f].by} : own' = Suspended(rows, offTopic, "off topic")
          /\ again' = [done |-> TRUE, due |-> [f \in {g \in Feed : LooksAgain(rows[g])} |-> rows[f].status]]
  /\ UNCHANGED <<world, arch, round, nightly, finder, people>>
Reevaluate(f) ==
  /\ f \in DOMAIN again.due
  /\ again' = [again EXCEPT !.due = [g \in DOMAIN @ \ {f} |-> @[g]]]
  /\ \E verdict \in {"active", "candidate", "rejected"} :
       LET old == Evaluated(own[f])
           new == CASE says[f] = "CoreTrouble" -> own[f]
                    [] says[f] = "down" -> old
                    [] OTHER -> IF verdict = "active" /\ Room THEN SetStatus(old, "active", "re-evaluated")
                                ELSE IF again.due[f] = "candidate" /\ verdict = "rejected"
                                     THEN SetStatus(old, "rejected", "re-evaluated") ELSE old
       IN own' = [own EXCEPT ![f] = new]
  /\ UNCHANGED <<world, arch, round, nightly, finder, people>>

-----------------------------------------------------------------------------
(* A person decides, on the page (within the plan) or through the API.     *)
PersonSets(f, status) ==
  /\ own[f].status # "none" /\ decisions < MaxDecisions /\ decisions' = decisions + 1
  /\ own' = [own EXCEPT ![f] = [Aged(@) EXCEPT !.status = status, !.why = "", !.by = TRUE]]
  /\ decided' = [decided EXCEPT ![f] = status]
  /\ overrun' = IF f \in DOMAIN again.due THEN overrun \cup {f} ELSE overrun \ {f}
  /\ UNCHANGED <<world, arch, round, nightly, again, finder>>
OnPage(f, status) == (status = "active" => Room) /\ PersonSets(f, status)
ThroughApi(f, status) == PersonSets(f, status)

Change(f) ==
  /\ changes < MaxChanges /\ changes' = changes + 1
  /\ \E a \in Answer \ {says[f]} : says' = [says EXCEPT ![f] = a]
  /\ UNCHANGED <<arch, own, round, nightly, again, finder, people>>

Older(row) == [row EXCEPT !.age = IF @ < RetryDays THEN @ + 1 ELSE @, !.quiet = IF @ < StaleDays THEN @ + 1 ELSE @]
NextDay ==
  /\ nightly.due = {} /\ DOMAIN again.due = {}  \* a bound: a maintenance ends in its day
  /\ arch' = [f \in Feed |-> IF arch[f].status = "none" THEN NoRow ELSE Older(arch[f])]
  /\ own' = [f \in Feed |-> IF own[f].status = "none" THEN NoRow ELSE [Older(own[f]) EXCEPT !.quiet = 0]]
  /\ nightly' = [nightly EXCEPT !.done = FALSE] /\ again' = [again EXCEPT !.done = FALSE]
  /\ UNCHANGED <<world, round, finder, people>>

SourcesNext ==
  \/ \E d \in Discovery : DiscoverBegins(d) \/ DiscoverEnds(d) \/ \E f \in Feed : Try(d, f) \/ Upsert(d, f)
  \/ \E r \in Round : CollectBegins(r) \/ CollectEnds(r) \/ \E f \in Feed : Read(r, f)
  \/ MaintainArchive \/ MaintainNewsroom \/ NextDay
  \/ \E f \in Feed : \/ TryAgain(f) \/ Reevaluate(f) \/ Change(f)
                     \/ \E status \in {"active", "suspended", "rejected"} : OnPage(f, status) \/ ThroughApi(f, status)

SourcesSpec == SourcesInit /\ [][SourcesNext]_sourceVars

(* The clock goes on, the worker runs the nightly maintenance and ends it. *)
NightsGoOn == /\ WF_sourceVars(NextDay) /\ WF_sourceVars(MaintainArchive)
              /\ \A f \in Feed : WF_sourceVars(TryAgain(f)) /\ WF_sourceVars(Reevaluate(f))

-----------------------------------------------------------------------------
(* The status a person gave a source stands until a person gives another,  *)
(* whatever discoveries, rounds and maintenances do; only a re-evaluation  *)
(* that was under way as it was decided may undo it.                       *)
DecisionStands == \A f \in Feed : decided[f] # "none" /\ f \notin overrun => own[f].status = decided[f] /\ own[f].by

(* "A site down for a day is not a dead feed": a source that publishes and *)
(* answers again goes back to work, whatever it was suspended for.         *)
ComesBack ==
  \A f \in Feed : <>[](says[f] = "news" /\ arch[f].status # "none") => []<>(arch[f].status = "active")
=============================================================================
