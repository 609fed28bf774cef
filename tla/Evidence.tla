------------------------------ MODULE Evidence ------------------------------
(***************************************************************************)
(* What an article rests on: the items of the archive, the proposals and   *)
(* the drafts that cite them, the texts and documents read for them.       *)
(* Collections add items and the nightly maintenance deletes old ones      *)
(* while articles are written: each reads what it may cite in one          *)
(* transaction, spends minutes with the sites and the model, and stores    *)
(* its sentences with their sources in another.  Beside it the newsroom's  *)
(* round asks the model which proposals tell one event (same_event).       *)
(***************************************************************************)
EXTENDS Integers, FiniteSets

CONSTANTS Item,       \* news
          Doc,        \* original documents: an item stored as a copy of the news that led to it
          Pro,        \* proposals
          NoItem,
          Retention,  \* EDITOR_RETENTION_DAYS, and CONTEXT_DAYS
          EventDays,  \* EVENT_DAYS
          PerDay,     \* PER_DAY: model calls a day to look for primary sources
          LastDate, MaxLooks  \* bounds of the exploration

VARIABLES today,
          item,    \* each item: the day it was collected (0: none), what it copies, whether it was read
          pro,     \* each proposal with its basis, and what its drafts' sentences cite
          writer,  \* the job that writes its article
          asked,   \* same_event.confirm: what it read on each proposal
          calls    \* the day's calls to look for primary sources

evidenceVars == <<today, item, pro, writer, asked, calls>>

Row == Item \cup Doc
Gone == [at |-> 0, copy |-> NoItem, read |-> FALSE]
(* basis.primary: whether it was looked for, and the documents found.      *)
Unknown == [known |-> FALSE, found |-> {}]
NoPro == [status |-> "none", cites |-> {}, same |-> {}, checked |-> FALSE, primary |-> Unknown, sentences |-> {}, looks |-> 0]
NoWriter == [step |-> "idle", main |-> {}, ids |-> {}]

EvidenceInit ==
  /\ today = 1 /\ calls = 0
  /\ item = [i \in Row |-> Gone] /\ pro = [p \in Pro |-> NoPro]
  /\ writer = [p \in Pro |-> NoWriter] /\ asked = [p \in {} |-> NoPro]

Kept == {i \in Row : item[i].at > 0}
Since(days) == {i \in Kept : item[i].at >= today - days /\ item[i].copy = NoItem}

-----------------------------------------------------------------------------
(* store_items: a new item, or a copy of one that is no copy itself.        *)
Collect(i) ==
  /\ item[i].at = 0
  /\ \E copy \in {NoItem} \cup {j \in Kept : item[j].copy = NoItem} :
       item' = [item EXCEPT ![i] = [at |-> today, copy |-> copy, read |-> FALSE]]
  /\ UNCHANGED <<today, pro, writer, asked, calls>>

(* tenant_data.prune, once a night: what is old and neither cited nor       *)
(* copied by what stays.                                                   *)
\* A slip: what the sentences of the drafts cite is not looked at.
CitedByProposals == (UNION {pro[p].cites : p \in Pro}) \cup {item[i].copy : i \in Kept}
Cited == (UNION {pro[p].cites \cup pro[p].sentences : p \in Pro}) \cup {item[i].copy : i \in Kept}
Prune ==
  /\ item' = [i \in Row |-> IF item[i].at < today - Retention /\ i \notin Cited THEN Gone ELSE item[i]]
  /\ UNCHANGED <<today, pro, writer, asked, calls>>

(* A planner's proposal, or an article asked for (requested.ask: accepted  *)
(* at once): the items are read, and cited when the model answered.        *)
Propose(p) ==
  /\ pro[p].status = "none"
  /\ \E cites \in SUBSET Since(Retention), status \in {"proposed", "accepted"} :
       cites # {} /\ pro' = [pro EXCEPT ![p].status = status, ![p].cites = cites]
  /\ UNCHANGED <<today, item, writer, asked, calls>>

Decide(p) ==
  /\ pro[p].status = "proposed"
  /\ \E s \in {"accepted", "rejected"} : pro' = [pro EXCEPT ![p].status = s]
  /\ UNCHANGED <<today, item, writer, asked, calls>>

(* same_event.confirm: the open proposals not checked yet; whatever became *)
(* of them meanwhile, their whole basis is written back.                   *)
ConfirmReads ==
  LET rows == {p \in Pro : pro[p].status = "proposed" /\ ~pro[p].checked}
  IN /\ asked = [p \in {} |-> NoPro] /\ rows # {}
     /\ asked' = [p \in rows |-> pro[p]]
     /\ UNCHANGED <<today, item, pro, writer, calls>>
ConfirmWrites ==
  /\ DOMAIN asked # {} /\ asked' = [p \in {} |-> NoPro]
  /\ \/ \E found \in SUBSET Since(EventDays) :
          pro' = [p \in Pro |->
            IF p \in DOMAIN asked THEN [pro[p] EXCEPT !.checked = TRUE, !.same = found \ asked[p].cites, !.primary = asked[p].primary]
            ELSE pro[p]]
     \/ UNCHANGED pro  \* the model failed: checked again in the next round
  /\ UNCHANGED <<today, item, writer, calls>>

-----------------------------------------------------------------------------
(* write_draft *)

(* What it may cite: the cited items of the event, the reports of the same *)
(* event and earlier news for context.                                     *)
Gather(p) ==
  /\ pro[p].status \in {"accepted", "drafted"} /\ writer[p].step = "idle"
  /\ \E main \in SUBSET pro[p].cites, more \in SUBSET Since(Retention) :
       /\ main # {}
       /\ writer' = [writer EXCEPT ![p] = [step |-> "read", main |-> main, ids |-> (main \cup more \cup pro[p].same) \cap Kept]]
  /\ UNCHANGED <<today, item, pro, asked, calls>>

(* fetch_contents and read_documents: the texts not read yet, read once for*)
(* everyone, and the documents the main news link, each known already or   *)
(* stored as a copy of the news.                                           *)
ReadTexts(p) ==
  LET w == writer[p]
      unread == {i \in w.ids \cap Kept : ~item[i].read}
  IN /\ w.step = "read"
     /\ \E docs \in SUBSET Doc :
          /\ \A d \in docs : d \in Kept \/ (unread \cap w.main) # {}
          /\ \E lead \in [docs \ Kept -> unread \cap w.main] :
               item' = [i \in Row |-> IF i \in docs \ Kept THEN [at |-> today, copy |-> lead[i], read |-> TRUE]
                                      ELSE IF i \in unread THEN [item[i] EXCEPT !.read = TRUE] ELSE item[i]]
          /\ writer' = [writer EXCEPT ![p].step = IF docs = {} THEN "look" ELSE "write", ![p].ids = @ \cup docs]
     /\ UNCHANGED <<today, pro, asked, calls>>

(* primary.look: a rewriting reuses what is remembered; within the day's   *)
(* cap the model is asked what is missing, then to check the pages found.  *)
UnderCap == calls + 2 <= PerDay
Look(p) ==
  /\ writer[p].step = "look"
  /\ writer' = [writer EXCEPT ![p].step = IF ~pro[p].primary.known /\ UnderCap THEN "ask" ELSE "write",
                             ![p].ids = @ \cup (pro[p].primary.found \cap Kept)]
  /\ UNCHANGED <<today, item, pro, asked, calls>>
Remember(p, docs) == pro' = [pro EXCEPT ![p].primary = [known |-> TRUE, found |-> docs], ![p].looks = @ + 1]
AskModel(p) ==
  /\ writer[p].step = "ask" /\ pro[p].looks < MaxLooks
  /\ calls' = calls + 1
  /\ \/ writer' = [writer EXCEPT ![p].step = "verify"] /\ UNCHANGED pro
     \/ /\ writer' = [writer EXCEPT ![p].step = "write"]
        /\ (UNCHANGED pro \/ Remember(p, {}))  \* no answer: nothing is remembered
  /\ UNCHANGED <<today, item, asked>>
Verify(p) ==
  /\ writer[p].step = "verify" /\ calls' = calls + 1
  /\ \E docs \in SUBSET Doc, lead \in writer[p].main :
       /\ item' = [i \in Row |-> IF i \in docs \ Kept THEN [at |-> today, copy |-> lead, read |-> TRUE] ELSE item[i]]
       /\ Remember(p, docs)
       /\ writer' = [writer EXCEPT ![p].step = "write", ![p].ids = @ \cup docs]
  /\ UNCHANGED <<today, asked>>

(* The article is stored, each sentence with what it cites of what was     *)
(* read; an item deleted meanwhile makes the transaction fail, as a model  *)
(* without an answer or news too thin do.                                  *)
Sourced(p) == {ids \in SUBSET writer[p].ids : ids # {}}
Store(p) ==
  /\ writer[p].step = "write"
  /\ writer' = [writer EXCEPT ![p] = NoWriter]
  /\ \/ \E ids \in Sourced(p) :
          ids \subseteq Kept /\ pro' = [pro EXCEPT ![p].status = "drafted", ![p].sentences = @ \cup ids]
     \/ UNCHANGED pro
  /\ UNCHANGED <<today, item, asked, calls>>

(* The worker dies and the job is run again. *)
WriterDies(p) ==
  /\ writer[p].step # "idle" /\ writer' = [writer EXCEPT ![p] = NoWriter]
  /\ UNCHANGED <<today, item, pro, asked, calls>>

NextDate == today < LastDate /\ today' = today + 1 /\ calls' = 0 /\ UNCHANGED <<item, pro, writer, asked>>

EvidenceNext ==
  \/ Prune \/ ConfirmReads \/ ConfirmWrites \/ NextDate
  \/ \E i \in Item : Collect(i)
  \/ \E p \in Pro : \/ Propose(p) \/ Decide(p) \/ Gather(p) \/ ReadTexts(p) \/ Look(p)
                    \/ AskModel(p) \/ Verify(p) \/ Store(p) \/ WriterDies(p)

EvidenceSpec == EvidenceInit /\ [][EvidenceNext]_evidenceVars

-----------------------------------------------------------------------------
(* Every item a proposal or a sentence cites is still in the archive with  *)
(* the news it is a copy of, whatever is pruned while articles are written.*)
CitedStays ==
  /\ \A p \in Pro : pro[p].cites \cup pro[p].sentences \subseteq Kept
  /\ \A i \in Kept : item[i].copy \in Kept \cup {NoItem}

(* "The work has a daily cap": articles written together look at the calls *)
(* made and not at those under way, so each beside the first may pass the  *)
(* cap by its two calls, and by no more.                                   *)
CapNearlyHolds == calls <= PerDay + 2 * (Cardinality(Pro) - 1)
=============================================================================
