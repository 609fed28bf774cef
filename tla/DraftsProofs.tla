---------------------------- MODULE DraftsProofs ----------------------------
(***************************************************************************)
(* What is proposed, what a draft says and what it rests on, for any news, *)
(* documents, themes, proposals, sentences and wordings.                   *)
(***************************************************************************)
EXTENDS Evidence, Texts, Plans, TLAPS, FiniteSetTheorems

(***************************************************************************)
(* The text and the cover of a draft (module Texts).  An editor whose      *)
(* reading nobody wrote over holds the rows as they are: what it writes on *)
(* them leaves them saying what it leaves in the body.                     *)
(***************************************************************************)
EditorRow == {r \in [open : BOOLEAN, gen : Nat, text : [Slot -> Wording \cup {"-"}], crossed : BOOLEAN] :
                r.open => r.text \in [Slot -> Wording]}
TextsTyped ==
  /\ rows \in [gen : Nat, text : [Slot -> Wording]]
  /\ body \in [Slot -> Wording]
  /\ draft \in [status : {"draft", "needs_review", "approved", "rejected"}, by : {"nobody", "person"}, crossed : BOOLEAN]
  /\ at \in [Editor -> EditorRow]

\* Read and not written over since.
ReadAsIs(e) == at[e].open /\ ~at[e].crossed => at[e].gen = rows.gen /\ at[e].text = rows.text
TextInv == /\ TextsTyped /\ BodyIsTheSentences
           /\ ~draft.crossed => \A e \in Editor : ReadAsIs(e)

LEMMA TextInitHolds == TextInit => TextInv
  <1> SUFFICES ASSUME TextInit PROVE TextInv  OBVIOUS
  <1>1. PICK text \in [Slot -> Wording] :
          /\ rows = [gen |-> 0, text |-> text] /\ body = text
          /\ draft = [status |-> IF Flagged(text) THEN "needs_review" ELSE "draft", by |-> "nobody", crossed |-> FALSE]
    BY DEF TextInit
  <1>2. Away \in EditorRow /\ ~Away.open  BY DEF Away, EditorRow
  <1>3. at = [e \in Editor |-> Away]  BY DEF TextInit
  <1>4. TextsTyped  BY <1>1, <1>2, <1>3 DEF TextsTyped
  <1>5. QED  BY <1>1, <1>2, <1>3, <1>4 DEF TextInv, BodyIsTheSentences, ReadAsIs

\* Sentences written on the rows they were read from are what the rows say.
LEMMA WrittenOnTheRows ==
  ASSUME TextsTyped, NEW read \in EditorRow, NEW text \in [Slot -> Wording]
  PROVE  /\ Rewritten(read, text) \in [Slot -> Wording]
         /\ read.gen = rows.gen /\ read.text = rows.text => Rewritten(read, text) = text
  <1>1. rows.text \in [Slot -> Wording]  BY DEF TextsTyped
  <1>2. \A i \in Slot : (IF read.gen = rows.gen /\ text[i] # read.text[i] THEN text[i] ELSE rows.text[i]) \in Wording
    BY <1>1
  <1>3. ASSUME read.gen = rows.gen, read.text = rows.text
        PROVE  \A i \in Slot : (IF read.gen = rows.gen /\ text[i] # read.text[i] THEN text[i] ELSE rows.text[i]) = text[i]
    BY <1>3
  <1>4. QED  BY <1>2, <1>3 DEF Rewritten

\* Whoever writes leaves the body what the rows say, unless it wrote over
\* somebody; and all the others, if they had read the draft, are written over.
LEMMA LeavesStep ==
  ASSUME TextInv, NEW e \in Editor, at[e].open, NEW text \in [Slot -> Wording],
         Leaves(e, text), rows' \in [gen : Nat, text : [Slot -> Wording]],
         ReadAsIs(e) => rows'.text = text \/ at[e].crossed
  PROVE  TextInv'
  <1>1. body' = text  BY DEF Leaves
  <1>2. at' = [o \in Editor |-> IF o = e THEN Away ELSE [at[o] EXCEPT !.crossed = @ \/ at[o].open]]
    BY DEF Leaves
  <1>3. \A o \in Editor : at'[o] \in EditorRow /\ (at'[o].open => at'[o].crossed)
    <2> SUFFICES ASSUME NEW o \in Editor PROVE at'[o] \in EditorRow /\ (at'[o].open => at'[o].crossed)
      OBVIOUS
    <2>1. at[o] \in EditorRow  BY DEF TextInv, TextsTyped
    <2>2. Away \in EditorRow /\ ~Away.open  BY DEF Away, EditorRow
    <2>3. CASE o = e  BY <1>2, <2>2, <2>3
    <2>4. CASE o # e
      <3> DEFINE new == [at[o] EXCEPT !.crossed = at[o].crossed \/ at[o].open]
      <3>1. new \in EditorRow  BY <2>1 DEF EditorRow
      <3>2. new.open = at[o].open /\ new.crossed = (at[o].crossed \/ at[o].open)  BY <2>1 DEF EditorRow
      <3>3. at'[o] = new  BY <1>2, <2>4
      <3>4. QED  BY <3>1, <3>2, <3>3, Zenon
    <2>5. QED  BY <2>3, <2>4
  <1>4. draft' \in [status : {"draft", "needs_review", "approved", "rejected"}, by : {"nobody", "person"}, crossed : BOOLEAN]
    <2>1. (draft.crossed \/ at[e].crossed) \in BOOLEAN  OBVIOUS
    <2>2. QED  BY <2>1 DEF Leaves
  <1>5. draft'.crossed = (draft.crossed \/ at[e].crossed)  BY DEF Leaves
  <1>6. at' \in [Editor -> EditorRow]  BY <1>2, <1>3
  <1>7. TextsTyped'  BY <1>1, <1>4, <1>6 DEF TextsTyped
  <1>8. BodyIsTheSentences'  BY <1>1, <1>5 DEF TextInv, BodyIsTheSentences
  <1>9. QED  BY <1>3, <1>7, <1>8 DEF TextInv, ReadAsIs

LEMMA SaveFieldsStep == ASSUME TextInv, SaveFields PROVE TextInv'
  <1>1. PICK text \in [Slot -> Wording] :
          rows' = [rows EXCEPT !.text = Rewritten(at["fields"], text)] /\ Leaves("fields", text)
    BY DEF SaveFields
  <1>2. TextsTyped /\ at["fields"] \in EditorRow /\ at["fields"].open /\ "fields" \in Editor
    BY DEF TextInv, TextsTyped, Editor, SaveFields
  <1>3. /\ Rewritten(at["fields"], text) \in [Slot -> Wording]
        /\ at["fields"].gen = rows.gen /\ at["fields"].text = rows.text => Rewritten(at["fields"], text) = text
    BY <1>2, WrittenOnTheRows
  <1>4. rows' \in [gen : Nat, text : [Slot -> Wording]] /\ rows'.text = Rewritten(at["fields"], text)
    BY <1>1, <1>2, <1>3 DEF TextsTyped
  <1>5. ReadAsIs("fields") => rows'.text = text \/ at["fields"].crossed  BY <1>2, <1>3, <1>4 DEF ReadAsIs
  <1>6. QED  BY <1>1, <1>2, <1>4, <1>5, LeavesStep


LEMMA RewordStep == ASSUME TextInv, Reword PROVE TextInv'
  <1>1. PICK text \in [Slot -> Wording \ Bad] :
          LET new == [i \in Slot |-> IF at["reword"].text[i] \in Bad THEN text[i] ELSE at["reword"].text[i]]
          IN rows' = [rows EXCEPT !.text = Rewritten(at["reword"], new)] /\ Leaves("reword", new)
    BY DEF Reword
  <1> DEFINE new == [i \in Slot |-> IF at["reword"].text[i] \in Bad THEN text[i] ELSE at["reword"].text[i]]
  <1>2. TextsTyped /\ at["reword"] \in EditorRow /\ at["reword"].open /\ "reword" \in Editor
    BY DEF TextInv, TextsTyped, Editor, Reword
  <1>3. new \in [Slot -> Wording]  BY <1>2 DEF EditorRow
  <1>4. rows' = [rows EXCEPT !.text = Rewritten(at["reword"], new)] /\ Leaves("reword", new)  BY <1>1
  <1> HIDE DEF new
  <1>5. /\ Rewritten(at["reword"], new) \in [Slot -> Wording]
        /\ at["reword"].gen = rows.gen /\ at["reword"].text = rows.text => Rewritten(at["reword"], new) = new
    BY <1>2, <1>3, WrittenOnTheRows
  <1>6. rows' \in [gen : Nat, text : [Slot -> Wording]] /\ rows'.text = Rewritten(at["reword"], new)
    BY <1>2, <1>4, <1>5 DEF TextsTyped
  <1>7. ReadAsIs("reword") => rows'.text = new \/ at["reword"].crossed  BY <1>2, <1>5, <1>6 DEF ReadAsIs
  <1>8. QED  BY <1>2, <1>3, <1>4, <1>6, <1>7, LeavesStep

LEMMA SaveFreeStep == ASSUME TextInv, SaveFree PROVE TextInv'
  <1>1. PICK text \in [Slot -> Wording] : rows' = [gen |-> rows.gen + 1, text |-> text] /\ Leaves("free", text)
    BY DEF SaveFree
  <1>2. rows' \in [gen : Nat, text : [Slot -> Wording]] /\ rows'.text = text
    BY <1>1 DEF TextInv, TextsTyped
  <1>3. at["free"].open /\ "free" \in Editor  BY DEF SaveFree, Editor
  <1>4. QED  BY <1>1, <1>2, <1>3, LeavesStep

LEMMA OpensStep == ASSUME TextInv, NEW e \in Editor, Opens(e) PROVE TextInv'
  <1> DEFINE new == [open |-> TRUE, gen |-> rows.gen, text |-> rows.text, crossed |-> FALSE]
  <1>1. at' = [at EXCEPT ![e] = new] /\ UNCHANGED <<rows, body, draft>>  BY DEF Opens
  <1>2. new \in EditorRow  BY DEF TextInv, TextsTyped, EditorRow
  <1>3. new.gen = rows.gen /\ new.text = rows.text  OBVIOUS
  <1> HIDE DEF new
  <1>4. TextsTyped'  BY <1>1, <1>2 DEF TextInv, TextsTyped
  <1>5. \A o \in Editor : at'[o] = IF o = e THEN new ELSE at[o]  BY <1>1 DEF TextInv, TextsTyped
  <1>6. QED  BY <1>1, <1>3, <1>4, <1>5 DEF TextInv, BodyIsTheSentences, ReadAsIs

LEMMA PutAwayStep == ASSUME TextInv, NotReworded PROVE TextInv'
  <1>1. at' = [at EXCEPT !["reword"] = Away] /\ UNCHANGED <<rows, body, draft>>  BY DEF NotReworded
  <1>2. Away \in EditorRow /\ ~Away.open  BY DEF Away, EditorRow
  <1>3. TextsTyped'  BY <1>1, <1>2 DEF TextInv, TextsTyped
  <1>4. \A o \in Editor : at'[o] = IF o = "reword" THEN Away ELSE at[o]  BY <1>1 DEF TextInv, TextsTyped
  <1>5. QED  BY <1>1, <1>2, <1>3, <1>4 DEF TextInv, BodyIsTheSentences, ReadAsIs

\* A decision leaves the text as it is, and so do the covers.
LEMMA SameTextStep ==
  ASSUME TextInv, UNCHANGED <<rows, body, at>>,
         draft' = draft \/ \E s \in {"approved", "rejected"} : draft' = [draft EXCEPT !.status = s, !.by = "person"]
  PROVE  TextInv'
  <1>1. /\ draft' \in [status : {"draft", "needs_review", "approved", "rejected"}, by : {"nobody", "person"}, crossed : BOOLEAN]
        /\ draft'.crossed = draft.crossed
    BY DEF TextInv, TextsTyped
  <1>2. QED  BY <1>1 DEF TextInv, TextsTyped, BodyIsTheSentences, ReadAsIs

LEMMA TextStep == TextInv /\ [TextNext]_textVars => TextInv'
  <1> SUFFICES ASSUME TextInv, [TextNext]_textVars PROVE TextInv'  OBVIOUS
  <1>1. CASE UNCHANGED textVars  BY <1>1, SameTextStep DEF textVars
  <1>2. CASE DecideDraft  BY <1>2, SameTextStep DEF DecideDraft
  <1>3. CASE Draw \/ CopyCovers \/ RemoveCover \/ ReadForTranslation \/ StoreTranslation
    BY <1>3, SameTextStep DEF Draw, CopyCovers, RemoveCover, ReadForTranslation, StoreTranslation, texts
  <1>4. QED
    BY <1>1, <1>2, <1>3, SaveFieldsStep, RewordStep, PutAwayStep, SaveFreeStep, OpensStep DEF TextNext

(***************************************************************************)
(* What is published is what the sentences say, whoever writes in either   *)
(* form, unless it saved over what another saved since it read the draft   *)
(* (drafts.edit, edit_text and reword).                                    *)
(***************************************************************************)
THEOREM PublishedIsTheSentences == TextSpec => []BodyIsTheSentences
  <1>1. TextInv => BodyIsTheSentences  BY DEF TextInv
  <1>2. QED  BY <1>1, TextInitHolds, TextStep, PTL DEF TextSpec

-----------------------------------------------------------------------------
(***************************************************************************)
(* The cover.  Until a person takes one away, a draft without a cover has  *)
(* a translation without one.                                              *)
(***************************************************************************)
CoverInv == /\ SameCover
            /\ cover \in [draft : Nat, translation : Nat]
            /\ picture \in [job : {"idle", "copy"}, drawn : Nat, translation : {"none", "writing", "written"}, removed : BOOLEAN]
            /\ ~picture.removed /\ cover.draft = 0 => cover.translation = 0

LEMMA CoverInitHolds == TextInit => CoverInv
  BY DEF TextInit, CoverInv, SameCover
LEMMA CoverTells == CoverInv => SameCover
  BY DEF CoverInv

LEMMA CoverStep == CoverInv /\ [TextNext]_textVars => CoverInv'
  <1> SUFFICES ASSUME CoverInv, [TextNext]_textVars PROVE CoverInv'  OBVIOUS
  <1> USE DEF CoverInv, SameCover, images
  <1>1. CASE UNCHANGED images  BY <1>1
  <1>2. CASE Draw
    <2>1. picture.drawn + 1 \in Nat /\ picture.drawn + 1 # 0  OBVIOUS
    <2>2. cover' \in [draft : Nat, translation : Nat] /\ cover'.draft # 0  BY <1>2, <2>1 DEF Draw
    <2>3. /\ picture' \in [job : {"idle", "copy"}, drawn : Nat, translation : {"none", "writing", "written"}, removed : BOOLEAN]
          /\ picture'.job = "copy"
      BY <1>2, <2>1 DEF Draw
    <2>4. QED  BY <2>2, <2>3
  <1>3. CASE CopyCovers  BY <1>3 DEF CopyCovers, Copied
  <1>4. CASE RemoveCover  BY <1>4 DEF RemoveCover
  <1>5. CASE ReadForTranslation  BY <1>5 DEF ReadForTranslation
  <1>6. CASE StoreTranslation  BY <1>6 DEF StoreTranslation, Copied
  <1>7. CASE SaveFields  BY <1>1, <1>7 DEF SaveFields, Leaves
  <1>8. CASE Reword  BY <1>1, <1>8 DEF Reword, Leaves
  <1>9. CASE SaveFree  BY <1>1, <1>9 DEF SaveFree, Leaves
  <1>10. CASE NotReworded \/ DecideDraft \/ \E e \in Editor : Opens(e)
    BY <1>1, <1>10 DEF NotReworded, DecideDraft, Opens
  <1>11. CASE UNCHANGED textVars  BY <1>1, <1>11 DEF textVars
  <1>12. QED
    BY <1>2, <1>3, <1>4, <1>5, <1>6, <1>7, <1>8, <1>9, <1>10, <1>11 DEF TextNext

(***************************************************************************)
(* A translation has its original's cover, drawn before it or after it,    *)
(* unless a person took one away or the image job still has to give it     *)
(* (images.make, translate).                                               *)
(***************************************************************************)
THEOREM TranslationHasTheCover == TextSpec => []SameCover
  <1>1. QED  BY CoverInitHolds, CoverStep, CoverTells, PTL DEF TextSpec
-----------------------------------------------------------------------------
(***************************************************************************)
(* What the drafts cite (module Evidence).  What a writer took as its main *)
(* news its proposal cites, so whatever it stores as a copy of them points *)
(* at an item that stays; the nightly deletion leaves what is cited and    *)
(* what is copied.                                                         *)
(***************************************************************************)
ItemRow == [at : Nat, copy : Row \cup {NoItem}, read : BOOLEAN]
ProRow == [status : {"none", "proposed", "accepted", "rejected", "drafted"}, cites : SUBSET Row, same : SUBSET Row,
           checked : BOOLEAN, primary : [known : BOOLEAN, found : SUBSET Doc], sentences : SUBSET Row, looks : Nat]
WriterRow == [step : {"idle", "read", "look", "ask", "verify", "write"}, main : SUBSET Row, ids : SUBSET Row]
Tables ==
  /\ today \in Nat \ {0} /\ item \in [Row -> ItemRow] /\ pro \in [Pro -> ProRow]
  /\ writer \in [Pro -> WriterRow]
  /\ DOMAIN asked \subseteq Pro /\ asked \in [DOMAIN asked -> ProRow]
MainIsCited(p) == /\ writer[p].main \subseteq pro[p].cites
                  /\ pro[p].status = "none" => writer[p].main = {}
CitesInv == Tables /\ CitedStays /\ \A p \in Pro : MainIsCited(p)

LEMMA NewRows == Gone \in ItemRow /\ ~(Gone.at > 0) /\ NoPro \in ProRow /\ NoWriter \in WriterRow
  BY DEF Gone, ItemRow, NoPro, Unknown, ProRow, NoWriter, WriterRow

LEMMA EvidenceInitHolds == EvidenceInit => CitesInv
  <1> SUFFICES ASSUME EvidenceInit PROVE CitesInv  OBVIOUS
  <1>1. Tables  BY NewRows DEF EvidenceInit, Tables
  <1>2. Kept = {}  BY NewRows DEF Kept, EvidenceInit
  <1>3. \A p \in Pro : pro[p].cites = {} /\ pro[p].sentences = {} /\ writer[p].main = {}
    BY DEF EvidenceInit, NoPro, NoWriter
  <1>4. QED  BY <1>1, <1>2, <1>3 DEF CitesInv, CitedStays, MainIsCited

LEMMA KeptIsRows == Kept \subseteq Row /\ \A days : Since(days) \subseteq Kept
  BY DEF Kept, Since

\* The archive only grows by items that are no copy or copies of what it has.
LEMMA ArchiveGrows ==
  ASSUME CitesInv, item' \in [Row -> ItemRow],
         \A i \in Kept : item'[i].at > 0 /\ item'[i].copy = item[i].copy,
         \A i \in Row \ Kept : item'[i].at > 0 => item'[i].copy \in Kept \cup {NoItem}
  PROVE  Kept \subseteq Kept' /\ \A i \in Kept' : item'[i].copy \in Kept' \cup {NoItem}
  <1>1. Kept \subseteq Kept'  BY DEF Kept
  <1>2. ASSUME NEW i \in Kept' PROVE item'[i].copy \in Kept \cup {NoItem}
    <2>1. i \in Row /\ item'[i].at > 0  BY DEF Kept
    <2>2. CASE i \in Kept  BY <2>2 DEF CitesInv, CitedStays
    <2>3. CASE i \notin Kept  BY <2>1, <2>3
    <2>4. QED  BY <2>2, <2>3
  <1>3. QED  BY <1>1, <1>2

\* A writer goes on with the main news it has, or a new one with cited news.
LEMMA WriterMoves ==
  ASSUME CitesInv, UNCHANGED <<today, asked>>, NEW p \in Pro, NEW w \in WriterRow,
         writer' = [writer EXCEPT ![p] = w], pro' \in [Pro -> ProRow],
         w.main = writer[p].main \/ w.main = {} \/ (w.main \subseteq pro[p].cites /\ pro[p].status # "none"),
         \A q \in Pro : pro'[q].cites = pro[q].cites /\ (pro[q].status # "none" => pro'[q].status # "none")
  PROVE  writer' \in [Pro -> WriterRow] /\ \A q \in Pro : MainIsCited(q)'
  <1>1. \A q \in Pro : writer'[q] = IF q = p THEN w ELSE writer[q]  BY DEF CitesInv, Tables
  <1>2. writer' \in [Pro -> WriterRow]  BY DEF CitesInv, Tables
  <1>3. ASSUME NEW q \in Pro PROVE MainIsCited(q)'
    <2>1. MainIsCited(q)  BY DEF CitesInv
    <2>2. writer'[q].main = writer[q].main \/ writer'[q].main = {}
          \/ (writer'[q].main \subseteq pro[q].cites /\ pro[q].status # "none")
      BY <1>1
    <2>3. QED  BY <2>1, <2>2 DEF MainIsCited
  <1>4. QED  BY <1>2, <1>3

LEMMA CollectStep == ASSUME CitesInv, NEW i \in Item, Collect(i) PROVE CitesInv'
  <1>1. PICK copy \in {NoItem} \cup {j \in Kept : item[j].copy = NoItem} :
          item' = [item EXCEPT ![i] = [at |-> today, copy |-> copy, read |-> FALSE]]
    BY DEF Collect
  <1>2. i \in Row /\ item[i].at = 0 /\ UNCHANGED <<today, pro, writer, asked>>  BY DEF Collect, Row
  <1> DEFINE new == [at |-> today, copy |-> copy, read |-> FALSE]
  <1>3. new \in ItemRow /\ new.copy \in Kept \cup {NoItem}
    BY KeptIsRows DEF ItemRow, CitesInv, Tables
  <1>4. item' = [item EXCEPT ![i] = new]  BY <1>1
  <1> HIDE DEF new
  <1>5. item' \in [Row -> ItemRow] /\ \A j \in Row : item'[j] = IF j = i THEN new ELSE item[j]
    BY <1>2, <1>3, <1>4 DEF CitesInv, Tables
  <1>6. i \notin Kept  BY <1>2 DEF Kept
  <1>7. Kept \subseteq Kept' /\ \A j \in Kept' : item'[j].copy \in Kept' \cup {NoItem}
    <2>1. \A j \in Kept : item'[j].at > 0 /\ item'[j].copy = item[j].copy  BY <1>5, <1>6 DEF Kept
    <2>2. \A j \in Row \ Kept : item'[j].at > 0 => item'[j].copy \in Kept \cup {NoItem}
      BY <1>3, <1>5 DEF Kept
    <2>3. QED  BY <1>5, <2>1, <2>2, ArchiveGrows
  <1>8. Tables'  BY <1>2, <1>5 DEF CitesInv, Tables
  <1>9. QED  BY <1>2, <1>7, <1>8 DEF CitesInv, CitedStays, MainIsCited

\* The nightly deletion.
LEMMA PruneStep == ASSUME CitesInv, Prune PROVE CitesInv'
  <1>1. \A i \in Row : item'[i] = IF item[i].at < today - Retention /\ i \notin Cited THEN Gone ELSE item[i]
    BY DEF Prune
  <1>2. item' \in [Row -> ItemRow]  BY NewRows DEF Prune, CitesInv, Tables
  <1>3. Kept' \subseteq Kept /\ \A i \in Kept' : item'[i] = item[i]  BY <1>1, NewRows DEF Kept
  <1>4. Kept \cap Cited \subseteq Kept'  BY <1>1 DEF Kept
  <1>5. \A p \in Pro : pro[p].cites \cup pro[p].sentences \subseteq Kept \cap Cited
    BY DEF CitesInv, CitedStays, Cited
  <1>6. ASSUME NEW i \in Kept' PROVE item'[i].copy \in Kept' \cup {NoItem}
    <2>1. i \in Kept /\ item'[i] = item[i]  BY <1>3
    <2>2. item[i].copy \in Cited
      <3>1. item[i].copy \in {item[j].copy : j \in Kept}  BY <2>1
      <3>2. QED  BY <3>1 DEF Cited
    <2>3. item[i].copy \in Kept \cup {NoItem}  BY <2>1 DEF CitesInv, CitedStays
    <2>4. QED  BY <1>4, <2>1, <2>2, <2>3
  <1>7. UNCHANGED <<today, pro, writer, asked>>  BY DEF Prune
  <1>8. Tables'  BY <1>2, <1>7 DEF CitesInv, Tables
  <1>9. QED  BY <1>4, <1>5, <1>6, <1>7, <1>8 DEF CitesInv, CitedStays, MainIsCited

\* One proposal's row is written, and the archive stays as it is.
LEMMA ProposalWritten ==
  ASSUME CitesInv, UNCHANGED <<today, item, writer, asked>>, NEW p \in Pro, NEW row \in ProRow,
         pro' = [pro EXCEPT ![p] = row], row.cites \cup row.sentences \subseteq Kept,
         writer[p].main \subseteq row.cites, row.status # "none"
  PROVE  CitesInv'
  <1>1. \A q \in Pro : pro'[q] = IF q = p THEN row ELSE pro[q]  BY DEF CitesInv, Tables
  <1>2. Tables'  BY DEF CitesInv, Tables
  <1>3. Kept' = Kept /\ \A i \in Kept : item'[i] = item[i]  BY DEF Kept
  <1>4. CitedStays'  BY <1>1, <1>3 DEF CitesInv, CitedStays
  <1>5. ASSUME NEW q \in Pro PROVE MainIsCited(q)'
    BY <1>1 DEF CitesInv, MainIsCited
  <1>6. QED  BY <1>2, <1>4, <1>5 DEF CitesInv

LEMMA ProposeStep == ASSUME CitesInv, NEW p \in Pro, Propose(p) PROVE CitesInv'
  <1>1. PICK cites \in SUBSET Since(Retention), status \in {"proposed", "accepted"} :
          pro' = [pro EXCEPT ![p].status = status, ![p].cites = cites]
    BY DEF Propose
  <1>2. pro[p] \in ProRow /\ pro \in [Pro -> ProRow]  BY DEF CitesInv, Tables
  <1> DEFINE new == [pro[p] EXCEPT !.status = status, !.cites = cites]
  <1>3. /\ new \in ProRow /\ new.cites = cites /\ new.sentences = pro[p].sentences /\ new.status = status
    BY <1>2, KeptIsRows DEF ProRow
  <1>4. pro' = [pro EXCEPT ![p] = new]  BY <1>1, <1>2
  <1>5. writer[p].main = {}  BY DEF Propose, CitesInv, MainIsCited
  <1>6. cites \cup pro[p].sentences \subseteq Kept  BY KeptIsRows DEF CitesInv, CitedStays
  <1> HIDE DEF new
  <1>7. UNCHANGED <<today, item, writer, asked>>  BY DEF Propose
  <1>8. QED  BY <1>3, <1>4, <1>5, <1>6, <1>7, ProposalWritten

LEMMA DecideStep == ASSUME CitesInv, NEW p \in Pro, Decide(p) PROVE CitesInv'
  <1>1. PICK s \in {"accepted", "rejected"} : pro' = [pro EXCEPT ![p].status = s]  BY DEF Decide
  <1>2. pro[p] \in ProRow /\ pro \in [Pro -> ProRow]  BY DEF CitesInv, Tables
  <1> DEFINE new == [pro[p] EXCEPT !.status = s]
  <1>3. new \in ProRow /\ new.cites = pro[p].cites /\ new.sentences = pro[p].sentences /\ new.status = s
    BY <1>2 DEF ProRow
  <1>4. pro' = [pro EXCEPT ![p] = new]  BY <1>1, <1>2
  <1> HIDE DEF new
  <1>5. writer[p].main \subseteq pro[p].cites /\ pro[p].cites \cup pro[p].sentences \subseteq Kept
    BY DEF CitesInv, MainIsCited, CitedStays
  <1>6. UNCHANGED <<today, item, writer, asked>>  BY DEF Decide
  <1>7. QED  BY <1>3, <1>4, <1>5, <1>6, ProposalWritten

(* same_event.confirm *)
LEMMA ConfirmReadsStep == ASSUME CitesInv, ConfirmReads PROVE CitesInv'
  <1> DEFINE rs == {p \in Pro : pro[p].status = "proposed" /\ ~pro[p].checked}
  <1>1. asked' = [p \in rs |-> pro[p]] /\ UNCHANGED <<today, item, pro, writer>>  BY DEF ConfirmReads
  <1>2. rs \subseteq Pro  OBVIOUS
  <1> HIDE DEF rs
  <1>3. DOMAIN asked' = rs /\ asked' \in [rs -> ProRow]  BY <1>1, <1>2 DEF CitesInv, Tables
  <1>4. Tables'  BY <1>1, <1>2, <1>3 DEF CitesInv, Tables
  <1>5. QED  BY <1>1, <1>4 DEF CitesInv, CitedStays, MainIsCited, Kept

LEMMA ConfirmWritesStep == ASSUME CitesInv, ConfirmWrites PROVE CitesInv'
  <1>1. /\ asked' = [p \in {} |-> NoPro] /\ UNCHANGED <<today, item, writer>>
        /\ pro' = pro \/ \E found \in SUBSET Since(EventDays) :
             pro' = [p \in Pro |->
               IF p \in DOMAIN asked
               THEN [pro[p] EXCEPT !.checked = TRUE, !.same = found \ asked[p].cites, !.primary = asked[p].primary]
               ELSE pro[p]]
    BY DEF ConfirmWrites
  <1>2. DOMAIN asked' = {} /\ asked' \in [{} -> ProRow]  BY <1>1
  <1>3. /\ pro' \in [Pro -> ProRow]
        /\ \A p \in Pro : /\ pro'[p].cites = pro[p].cites /\ pro'[p].sentences = pro[p].sentences
                          /\ pro'[p].status = pro[p].status
    <2>1. CASE pro' = pro  BY <2>1 DEF CitesInv, Tables
    <2>2. ASSUME NEW found \in SUBSET Since(EventDays),
                 pro' = [p \in Pro |->
                   IF p \in DOMAIN asked
                   THEN [pro[p] EXCEPT !.checked = TRUE, !.same = found \ asked[p].cites, !.primary = asked[p].primary]
                   ELSE pro[p]]
          PROVE  \A p \in Pro : /\ pro'[p] \in ProRow
                                /\ pro'[p].cites = pro[p].cites /\ pro'[p].sentences = pro[p].sentences
                                /\ pro'[p].status = pro[p].status
      <3> SUFFICES ASSUME NEW p \in Pro
                   PROVE  /\ pro'[p] \in ProRow
                          /\ pro'[p].cites = pro[p].cites /\ pro'[p].sentences = pro[p].sentences
                          /\ pro'[p].status = pro[p].status
        OBVIOUS
      <3>1. pro[p] \in ProRow  BY DEF CitesInv, Tables
      <3>2. CASE p \notin DOMAIN asked  BY <2>2, <3>1, <3>2
      <3>3. CASE p \in DOMAIN asked
        <4> DEFINE new == [pro[p] EXCEPT !.checked = TRUE, !.same = found \ asked[p].cites, !.primary = asked[p].primary]
        <4>1. asked[p] \in ProRow  BY <3>3 DEF CitesInv, Tables
        <4>2. asked[p].primary \in [known : BOOLEAN, found : SUBSET Doc]  BY <4>1 DEF ProRow
        <4>3. found \ asked[p].cites \in SUBSET Row  BY KeptIsRows
        <4>4. new \in ProRow  BY <3>1, <4>2, <4>3 DEF ProRow
        <4>5. new.cites = pro[p].cites /\ new.sentences = pro[p].sentences /\ new.status = pro[p].status
          BY <3>1 DEF ProRow
        <4>6. pro'[p] = new  BY <2>2, <3>3
        <4> HIDE DEF new
        <4>7. QED  BY <4>4, <4>5, <4>6
      <3>4. QED  BY <3>2, <3>3
    <2>3. QED  BY <1>1, <2>1, <2>2
  <1>4. Tables'  BY <1>1, <1>2, <1>3 DEF CitesInv, Tables
  <1>5. Kept' = Kept /\ \A i \in Kept : item'[i] = item[i]  BY <1>1 DEF Kept
  <1>6. CitedStays'  BY <1>3, <1>5 DEF CitesInv, CitedStays
  <1>7. ASSUME NEW p \in Pro PROVE MainIsCited(p)'  BY <1>1, <1>3 DEF CitesInv, MainIsCited
  <1>8. QED  BY <1>4, <1>6, <1>7 DEF CitesInv

-----------------------------------------------------------------------------
(* write_draft *)

\* A step of one writer that leaves the archive and the proposals alone.
LEMMA OnlyTheWriter ==
  ASSUME CitesInv, UNCHANGED <<today, item, pro, asked>>, NEW p \in Pro, NEW w \in WriterRow,
         writer' = [writer EXCEPT ![p] = w],
         w.main = writer[p].main \/ w.main = {} \/ (w.main \subseteq pro[p].cites /\ pro[p].status # "none")
  PROVE  CitesInv'
  <1>1. /\ pro' \in [Pro -> ProRow]
        /\ \A q \in Pro : pro'[q].cites = pro[q].cites /\ (pro[q].status # "none" => pro'[q].status # "none")
    BY DEF CitesInv, Tables
  <1>2. writer' \in [Pro -> WriterRow] /\ \A q \in Pro : MainIsCited(q)'  BY <1>1, WriterMoves
  <1>3. Tables'  BY <1>2 DEF CitesInv, Tables
  <1>4. CitedStays'  BY DEF CitesInv, CitedStays, Kept
  <1>5. QED  BY <1>2, <1>3, <1>4 DEF CitesInv

LEMMA GatherStep == ASSUME CitesInv, NEW p \in Pro, Gather(p) PROVE CitesInv'
  <1>1. PICK main \in SUBSET pro[p].cites, more \in SUBSET Since(Retention) :
          writer' = [writer EXCEPT ![p] = [step |-> "read", main |-> main, ids |-> (main \cup more \cup pro[p].same) \cap Kept]]
    BY DEF Gather
  <1> DEFINE w == [step |-> "read", main |-> main, ids |-> (main \cup more \cup pro[p].same) \cap Kept]
  <1>2. pro[p].cites \subseteq Row  BY DEF CitesInv, Tables, ProRow
  <1>3. w \in WriterRow /\ w.main = main  BY <1>2, KeptIsRows DEF WriterRow
  <1>4. writer' = [writer EXCEPT ![p] = w]  BY <1>1
  <1> HIDE DEF w
  <1>5. UNCHANGED <<today, item, pro, asked>> /\ pro[p].status # "none"  BY DEF Gather
  <1>6. QED  BY <1>3, <1>4, <1>5, OnlyTheWriter

LEMMA LookStep == ASSUME CitesInv, NEW p \in Pro, Look(p) PROVE CitesInv'
  <1> DEFINE step == IF ~pro[p].primary.known /\ UnderCap THEN "ask" ELSE "write"
             ids == writer[p].ids \cup (pro[p].primary.found \cap Kept)
             w == [writer[p] EXCEPT !.step = step, !.ids = ids]
  <1>1. writer \in [Pro -> WriterRow] /\ writer[p] \in WriterRow  BY DEF CitesInv, Tables
  <1>2. ids \in SUBSET Row /\ step \in {"ask", "write"}  BY <1>1, KeptIsRows DEF WriterRow
  <1>3. writer' = [writer EXCEPT ![p] = w]  BY <1>1 DEF Look
  <1> HIDE DEF step, ids
  <1>4. w \in WriterRow /\ w.main = writer[p].main  BY <1>1, <1>2 DEF WriterRow
  <1> HIDE DEF w
  <1>5. UNCHANGED <<today, item, pro, asked>>  BY DEF Look
  <1>6. QED  BY <1>3, <1>4, <1>5, OnlyTheWriter

LEMMA WriterDiesStep == ASSUME CitesInv, NEW p \in Pro, WriterDies(p) PROVE CitesInv'
  <1>1. writer' = [writer EXCEPT ![p] = NoWriter] /\ UNCHANGED <<today, item, pro, asked>>  BY DEF WriterDies
  <1>2. NoWriter.main = {}  BY DEF NoWriter
  <1>3. QED  BY <1>1, <1>2, NewRows, OnlyTheWriter

\* The proposal remembers its documents, or gets its article.
LEMMA RememberedRow ==
  ASSUME CitesInv, NEW p \in Pro, NEW docs \in SUBSET Doc, Remember(p, docs)
  PROVE  /\ pro' \in [Pro -> ProRow]
         /\ \A q \in Pro : /\ pro'[q].cites = pro[q].cites /\ pro'[q].sentences = pro[q].sentences
                           /\ pro'[q].status = pro[q].status
  <1>1. pro \in [Pro -> ProRow] /\ pro[p] \in ProRow  BY DEF CitesInv, Tables
  <1> DEFINE new == [pro[p] EXCEPT !.primary = [known |-> TRUE, found |-> docs], !.looks = @ + 1]
  <1>2. [known |-> TRUE, found |-> docs] \in [known : BOOLEAN, found : SUBSET Doc] /\ pro[p].looks + 1 \in Nat
    BY <1>1 DEF ProRow
  <1>3. new \in ProRow  BY <1>1, <1>2 DEF ProRow
  <1>4. new.cites = pro[p].cites /\ new.sentences = pro[p].sentences /\ new.status = pro[p].status
    BY <1>1 DEF ProRow
  <1>5. pro' = [pro EXCEPT ![p] = new]  BY <1>1 DEF Remember
  <1> HIDE DEF new
  <1>6. \A q \in Pro : pro'[q] = IF q = p THEN new ELSE pro[q]  BY <1>1, <1>5
  <1>7. pro' \in [Pro -> ProRow]  BY <1>1, <1>3, <1>5
  <1>8. QED  BY <1>4, <1>6, <1>7

LEMMA AskModelStep == ASSUME CitesInv, NEW p \in Pro, AskModel(p) PROVE CitesInv'
  <1>1. /\ UNCHANGED <<today, item, asked>>
        /\ \E s \in {"verify", "write"} : writer' = [writer EXCEPT ![p].step = s]
        /\ pro' = pro \/ Remember(p, {})
    BY DEF AskModel
  <1>2. PICK s \in {"verify", "write"} : writer' = [writer EXCEPT ![p].step = s]  BY <1>1
  <1> DEFINE w == [writer[p] EXCEPT !.step = s]
  <1>3. writer \in [Pro -> WriterRow] /\ writer[p] \in WriterRow  BY DEF CitesInv, Tables
  <1>4. w \in WriterRow /\ w.main = writer[p].main /\ writer' = [writer EXCEPT ![p] = w]
    BY <1>2, <1>3 DEF WriterRow
  <1> HIDE DEF w
  <1>5. /\ pro' \in [Pro -> ProRow]
        /\ \A q \in Pro : /\ pro'[q].cites = pro[q].cites /\ pro'[q].sentences = pro[q].sentences
                          /\ pro'[q].status = pro[q].status
    <2>1. CASE pro' = pro  BY <2>1 DEF CitesInv, Tables
    <2>2. CASE Remember(p, {})  BY <2>2, RememberedRow
    <2>3. QED  BY <1>1, <2>1, <2>2
  <1>6. writer' \in [Pro -> WriterRow] /\ \A q \in Pro : MainIsCited(q)'
    BY <1>1, <1>4, <1>5, WriterMoves
  <1>7. Tables'  BY <1>1, <1>5, <1>6 DEF CitesInv, Tables
  <1>8. Kept' = Kept /\ \A i \in Kept : item'[i] = item[i]  BY <1>1 DEF Kept
  <1>9. CitedStays'  BY <1>5, <1>8 DEF CitesInv, CitedStays
  <1>10. QED  BY <1>6, <1>7, <1>9 DEF CitesInv

LEMMA StoreStep == ASSUME CitesInv, NEW p \in Pro, Store(p) PROVE CitesInv'
  <1>1. writer' = [writer EXCEPT ![p] = NoWriter] /\ UNCHANGED <<today, item, asked>>  BY DEF Store
  <1>2. NoWriter.main = {}  BY DEF NoWriter
  <1>3. CASE pro' = pro  BY <1>1, <1>2, <1>3, NewRows, OnlyTheWriter
  <1>4. ASSUME NEW ids \in Sourced(p), ids \subseteq Kept,
               pro' = [pro EXCEPT ![p].status = "drafted", ![p].sentences = @ \cup ids]
        PROVE  CitesInv'
    <2> DEFINE new == [pro[p] EXCEPT !.status = "drafted", !.sentences = @ \cup ids]
    <2>1. pro \in [Pro -> ProRow] /\ pro[p] \in ProRow  BY DEF CitesInv, Tables
    <2>2. pro[p].sentences \cup ids \in SUBSET Row  BY <1>4, <2>1, KeptIsRows DEF ProRow
    <2>3. /\ new \in ProRow /\ new.cites = pro[p].cites /\ new.sentences = pro[p].sentences \cup ids
          /\ new.status = "drafted"
      BY <2>1, <2>2 DEF ProRow
    <2>4. pro' = [pro EXCEPT ![p] = new]  BY <1>4, <2>1
    <2> HIDE DEF new
    <2>5. pro' \in [Pro -> ProRow] /\ \A q \in Pro : pro'[q] = IF q = p THEN new ELSE pro[q]
      BY <2>1, <2>3, <2>4
    <2>6. \A q \in Pro : pro'[q].cites = pro[q].cites /\ (pro[q].status # "none" => pro'[q].status # "none")
      BY <2>3, <2>5
    <2>7. writer' \in [Pro -> WriterRow] /\ \A q \in Pro : MainIsCited(q)'
      BY <1>1, <1>2, <2>5, <2>6, NewRows, WriterMoves
    <2>8. Tables'  BY <1>1, <2>5, <2>7 DEF CitesInv, Tables
    <2>9. Kept' = Kept /\ \A i \in Kept : item'[i] = item[i]  BY <1>1 DEF Kept
    <2>10. CitedStays'  BY <1>4, <2>3, <2>5, <2>9 DEF CitesInv, CitedStays
    <2>11. QED  BY <2>7, <2>8, <2>10 DEF CitesInv
  <1>5. QED  BY <1>3, <1>4 DEF Store

\* Texts are read for everyone, and documents stored as copies of cited news.
LEMMA ReadTextsStep == ASSUME CitesInv, NEW p \in Pro, ReadTexts(p) PROVE CitesInv'
  <1> DEFINE unread == {i \in writer[p].ids \cap Kept : ~item[i].read}
  <1>1. PICK docs \in SUBSET Doc :
          /\ \E lead \in [docs \ Kept -> unread \cap writer[p].main] :
               item' = [i \in Row |-> IF i \in docs \ Kept THEN [at |-> today, copy |-> lead[i], read |-> TRUE]
                                      ELSE IF i \in unread THEN [item[i] EXCEPT !.read = TRUE] ELSE item[i]]
          /\ writer' = [writer EXCEPT ![p].step = IF docs = {} THEN "look" ELSE "write", ![p].ids = @ \cup docs]
    BY DEF ReadTexts
  <1>2. PICK lead \in [docs \ Kept -> unread \cap writer[p].main] :
          item' = [i \in Row |-> IF i \in docs \ Kept THEN [at |-> today, copy |-> lead[i], read |-> TRUE]
                                 ELSE IF i \in unread THEN [item[i] EXCEPT !.read = TRUE] ELSE item[i]]
    BY <1>1
  <1>3. unread \subseteq Kept  OBVIOUS
  <1> HIDE DEF unread
  <1>4. UNCHANGED <<today, pro, asked>>  BY DEF ReadTexts
  <1>5. /\ item \in [Row -> ItemRow] /\ today \in Nat \ {0} /\ writer \in [Pro -> WriterRow] /\ writer[p] \in WriterRow
        /\ Kept \subseteq Row /\ docs \subseteq Row
    BY KeptIsRows DEF CitesInv, Tables, Row
  <1>6. \A i \in docs \ Kept : lead[i] \in Kept  BY <1>2, <1>3
  <1>7. ASSUME NEW i \in Row
        PROVE  /\ item'[i] \in ItemRow
               /\ i \in Kept => item'[i].at > 0 /\ item'[i].copy = item[i].copy
               /\ i \notin Kept => item'[i] = item[i] \/ item'[i].copy \in Kept
    <2>1. CASE i \in docs \ Kept
      <3> DEFINE new == [at |-> today, copy |-> lead[i], read |-> TRUE]
      <3>1. new \in ItemRow /\ new.copy \in Kept  BY <1>5, <1>6, <2>1 DEF ItemRow
      <3>2. item'[i] = new  BY <1>2, <2>1
      <3> HIDE DEF new
      <3>3. QED  BY <2>1, <3>1, <3>2
    <2>2. CASE i \notin docs \ Kept /\ i \in unread
      <3> DEFINE new == [item[i] EXCEPT !.read = TRUE]
      <3>1. item[i] \in ItemRow /\ item[i].at > 0 /\ i \in Kept  BY <1>3, <1>5, <2>2 DEF Kept
      <3>2. new \in ItemRow /\ new.at = item[i].at /\ new.copy = item[i].copy  BY <3>1 DEF ItemRow
      <3>3. item'[i] = new  BY <1>2, <2>2
      <3> HIDE DEF new
      <3>4. QED  BY <3>1, <3>2, <3>3
    <2>3. CASE i \notin docs \ Kept /\ i \notin unread
      <3>1. item'[i] = item[i]  BY <1>2, <2>3
      <3>2. QED  BY <1>5, <3>1 DEF Kept
    <2>4. QED  BY <2>1, <2>2, <2>3
  <1>8. item' \in [Row -> ItemRow]
    <2>1. DOMAIN item' = Row /\ item' = [i \in Row |-> item'[i]]  BY <1>2
    <2>2. QED  BY <1>7, <2>1
  <1>9. Kept \subseteq Kept' /\ \A i \in Kept' : item'[i].copy \in Kept' \cup {NoItem}
    <2>1. \A i \in Kept : item'[i].at > 0 /\ item'[i].copy = item[i].copy  BY <1>5, <1>7
    <2>2. \A i \in Row \ Kept : item'[i].at > 0 => item'[i].copy \in Kept \cup {NoItem}
      <3>1. \A i \in Row \ Kept : ~(item[i].at > 0)  BY DEF Kept
      <3>2. QED  BY <1>7, <3>1
    <2>3. QED  BY <1>8, <2>1, <2>2, ArchiveGrows
  <1> DEFINE step == IF docs = {} THEN "look" ELSE "write"
             w == [writer[p] EXCEPT !.step = step, !.ids = @ \cup docs]
  <1>10. step \in {"look", "write"} /\ writer[p].ids \cup docs \in SUBSET Row  BY <1>5 DEF WriterRow
  <1>11. writer' = [writer EXCEPT ![p] = w]  BY <1>1, <1>5
  <1> HIDE DEF step
  <1>12. w \in WriterRow /\ w.main = writer[p].main  BY <1>5, <1>10 DEF WriterRow
  <1> HIDE DEF w
  <1>13. /\ pro' \in [Pro -> ProRow]
         /\ \A q \in Pro : pro'[q].cites = pro[q].cites /\ (pro[q].status # "none" => pro'[q].status # "none")
    BY <1>4 DEF CitesInv, Tables
  <1>14. writer' \in [Pro -> WriterRow] /\ \A q \in Pro : MainIsCited(q)'
    BY <1>4, <1>11, <1>12, <1>13, WriterMoves
  <1>15. Tables'  BY <1>4, <1>8, <1>14 DEF CitesInv, Tables
  <1>16. CitedStays'  BY <1>4, <1>9 DEF CitesInv, CitedStays
  <1>17. QED  BY <1>14, <1>15, <1>16 DEF CitesInv

\* The pages found are stored as copies of one of the main news, which stays.
LEMMA VerifyStep == ASSUME CitesInv, NEW p \in Pro, Verify(p) PROVE CitesInv'
  <1>1. PICK docs \in SUBSET Doc, lead \in writer[p].main :
          /\ item' = [i \in Row |-> IF i \in docs \ Kept THEN [at |-> today, copy |-> lead, read |-> TRUE] ELSE item[i]]
          /\ Remember(p, docs)
          /\ writer' = [writer EXCEPT ![p].step = "write", ![p].ids = @ \cup docs]
    BY DEF Verify
  <1>2. UNCHANGED <<today, asked>>  BY DEF Verify
  <1>3. /\ item \in [Row -> ItemRow] /\ today \in Nat \ {0} /\ writer \in [Pro -> WriterRow] /\ writer[p] \in WriterRow
        /\ Kept \subseteq Row /\ docs \subseteq Row
    BY KeptIsRows DEF CitesInv, Tables, Row
  <1>4. lead \in Kept  BY <1>1 DEF CitesInv, MainIsCited, CitedStays
  <1> DEFINE new == [at |-> today, copy |-> lead, read |-> TRUE]
  <1>5. new \in ItemRow /\ new.copy = lead  BY <1>3, <1>4 DEF ItemRow
  <1>6. item' = [i \in Row |-> IF i \in docs \ Kept THEN new ELSE item[i]]  BY <1>1
  <1> HIDE DEF new
  <1>7. item' \in [Row -> ItemRow]  BY <1>3, <1>5, <1>6
  <1>8. Kept \subseteq Kept' /\ \A i \in Kept' : item'[i].copy \in Kept' \cup {NoItem}
    <2>1. \A i \in Kept : item'[i].at > 0 /\ item'[i].copy = item[i].copy  BY <1>3, <1>6 DEF Kept
    <2>2. \A i \in Row \ Kept : item'[i].at > 0 => item'[i].copy \in Kept \cup {NoItem}
      BY <1>4, <1>5, <1>6 DEF Kept
    <2>3. QED  BY <1>7, <2>1, <2>2, ArchiveGrows
  <1>9. /\ pro' \in [Pro -> ProRow]
        /\ \A q \in Pro : /\ pro'[q].cites = pro[q].cites /\ pro'[q].sentences = pro[q].sentences
                          /\ pro'[q].status = pro[q].status
    BY <1>1, RememberedRow
  <1> DEFINE w == [writer[p] EXCEPT !.step = "write", !.ids = @ \cup docs]
  <1>10. writer[p].ids \cup docs \in SUBSET Row  BY <1>3 DEF WriterRow
  <1>11. writer' = [writer EXCEPT ![p] = w]  BY <1>1, <1>3
  <1>12. w \in WriterRow /\ w.main = writer[p].main  BY <1>3, <1>10 DEF WriterRow
  <1> HIDE DEF w
  <1>13. writer' \in [Pro -> WriterRow] /\ \A q \in Pro : MainIsCited(q)'
    BY <1>2, <1>9, <1>11, <1>12, WriterMoves
  <1>14. Tables'  BY <1>2, <1>7, <1>9, <1>13 DEF CitesInv, Tables
  <1>15. CitedStays'  BY <1>8, <1>9 DEF CitesInv, CitedStays
  <1>16. QED  BY <1>13, <1>14, <1>15 DEF CitesInv

LEMMA EvidenceStep == CitesInv /\ [EvidenceNext]_evidenceVars => CitesInv'
  <1> SUFFICES ASSUME CitesInv, [EvidenceNext]_evidenceVars PROVE CitesInv'  OBVIOUS
  <1>1. CASE NextDate
    <2>1. today' \in Nat \ {0} /\ UNCHANGED <<item, pro, writer, asked>>  BY <1>1 DEF NextDate, CitesInv, Tables
    <2>2. QED  BY <2>1 DEF CitesInv, Tables, CitedStays, MainIsCited, Kept
  <1>2. CASE UNCHANGED evidenceVars
    BY <1>2 DEF evidenceVars, CitesInv, Tables, CitedStays, MainIsCited, Kept
  <1>3. QED
    BY <1>1, <1>2, PruneStep, ConfirmReadsStep, ConfirmWritesStep, CollectStep, ProposeStep, DecideStep, GatherStep,
       ReadTextsStep, LookStep, AskModelStep, VerifyStep, StoreStep, WriterDiesStep
    DEF EvidenceNext

(***************************************************************************)
(* Every item a proposal or a sentence cites is still in the archive with  *)
(* the news it is a copy of, whatever the nightly deletion removes while   *)
(* articles are written (tenant_data.prune, drafts.write_draft, primary).  *)
(***************************************************************************)
THEOREM CitedIsKept == EvidenceSpec => []CitedStays
  <1>1. CitesInv => CitedStays  BY DEF CitesInv
  <1>2. QED  BY <1>1, EvidenceInitHolds, EvidenceStep, PTL DEF EvidenceSpec

-----------------------------------------------------------------------------
(***************************************************************************)
(* The day's cap of searches.  A writer that is let through has two calls  *)
(* to make: those made and those still to be made stay within the cap and  *)
(* two for every writer beside the one that looked last.                   *)
(***************************************************************************)
ToAsk == {p \in Pro : writer[p].step = "ask"}
ToCall == {p \in Pro : writer[p].step \in {"ask", "verify"}}
Cap == /\ calls \in Nat
       /\ calls + Cardinality(ToAsk) + Cardinality(ToCall) <= PerDay + 2 * (Cardinality(Pro) - 1)

LEMMA Callers ==
  ASSUME IsFiniteSet(Pro)
  PROVE  /\ IsFiniteSet(ToAsk) /\ IsFiniteSet(ToCall) /\ Cardinality(ToAsk) \in Nat /\ Cardinality(ToCall) \in Nat
         /\ IsFiniteSet(ToAsk') /\ IsFiniteSet(ToCall') /\ Cardinality(ToAsk') \in Nat /\ Cardinality(ToCall') \in Nat
         /\ Cardinality(Pro) \in Nat
  <1>1. ToAsk \subseteq Pro /\ ToCall \subseteq Pro /\ ToAsk' \subseteq Pro /\ ToCall' \subseteq Pro
    BY DEF ToAsk, ToCall
  <1>2. \A S \in SUBSET Pro : IsFiniteSet(S) /\ Cardinality(S) \in Nat  BY FS_Subset, FS_CardinalityType
  <1>3. QED  BY <1>1, <1>2, FS_CardinalityType

\* One element less.
LEMMA OneLess ==
  ASSUME NEW S, NEW T, IsFiniteSet(S), T \subseteq S, NEW x \in S, x \notin T
  PROVE  Cardinality(T) <= Cardinality(S) - 1
  <1>1. T \subseteq S \ {x}  OBVIOUS
  <1>2. IsFiniteSet(S \ {x}) /\ Cardinality(S \ {x}) = Cardinality(S) - 1  BY FS_RemoveElement
  <1>3. Cardinality(T) <= Cardinality(S \ {x})  BY <1>1, <1>2, FS_Subset
  <1>4. QED  BY <1>2, <1>3

\* Nobody else asks: the calls that are left are not more than those made.
LEMMA NoMoreCalls ==
  ASSUME Cap, IsFiniteSet(Pro), PerDay \in Nat, ToAsk' \subseteq ToAsk, ToCall' \subseteq ToCall, calls' \in Nat,
         calls' <= calls \/ (calls' = calls + 1 /\ (ToAsk' # ToAsk \/ ToCall' # ToCall))
  PROVE  Cap'
  <1>1. /\ Cardinality(ToAsk) \in Nat /\ Cardinality(ToCall) \in Nat /\ Cardinality(Pro) \in Nat
        /\ Cardinality(ToAsk') \in Nat /\ Cardinality(ToCall') \in Nat
    BY Callers
  <1>2. Cardinality(ToAsk') <= Cardinality(ToAsk) /\ Cardinality(ToCall') <= Cardinality(ToCall)
    BY Callers, FS_Subset
  <1>3. ToAsk' # ToAsk => Cardinality(ToAsk') <= Cardinality(ToAsk) - 1
    <2> SUFFICES ASSUME ToAsk' # ToAsk PROVE Cardinality(ToAsk') <= Cardinality(ToAsk) - 1  OBVIOUS
    <2>1. PICK p \in ToAsk : p \notin ToAsk'  OBVIOUS
    <2>2. QED  BY <2>1, Callers, OneLess
  <1>4. ToCall' # ToCall => Cardinality(ToCall') <= Cardinality(ToCall) - 1
    <2> SUFFICES ASSUME ToCall' # ToCall PROVE Cardinality(ToCall') <= Cardinality(ToCall) - 1  OBVIOUS
    <2>1. PICK p \in ToCall : p \notin ToCall'  OBVIOUS
    <2>2. QED  BY <2>1, Callers, OneLess
  <1>5. calls \in Nat /\ calls + Cardinality(ToAsk) + Cardinality(ToCall) <= PerDay + 2 * (Cardinality(Pro) - 1)
    BY DEF Cap
  <1> HIDE DEF ToAsk, ToCall
  <1>6. calls' + Cardinality(ToAsk') + Cardinality(ToCall') <= PerDay + 2 * (Cardinality(Pro) - 1)
    BY <1>1, <1>2, <1>3, <1>4, <1>5
  <1>7. QED  BY <1>6 DEF Cap

\* What a step of one writer does to those sets.
LEMMA OneWriterCalls ==
  ASSUME NEW p \in Pro, NEW s, writer'[p].step = s, \A q \in Pro : q # p => writer'[q].step = writer[q].step
  PROVE  /\ s # "ask" => ToAsk' = ToAsk \ {p}
         /\ s \notin {"ask", "verify"} => ToCall' = ToCall \ {p}
         /\ s = "ask" => ToAsk' = ToAsk \cup {p} /\ ToCall' = ToCall \cup {p}
         /\ s = "verify" /\ p \in ToCall => ToCall' = ToCall
  BY DEF ToAsk, ToCall

LEMMA OneWriterMoves ==
  ASSUME Tables, NEW p \in Pro, NEW w, writer' = [writer EXCEPT ![p] = w]
  PROVE  writer'[p] = w /\ \A q \in Pro : q # p => writer'[q] = writer[q]
  BY DEF Tables

\* The writer that is let through finds the calls made within the cap, and
\* at most two to be made by each of the others.
LEMMA LookCalls == ASSUME Cap, Tables, IsFiniteSet(Pro), PerDay \in Nat, NEW p \in Pro, Look(p) PROVE Cap'
  <1> DEFINE step == IF ~pro[p].primary.known /\ UnderCap THEN "ask" ELSE "write"
             w == [writer[p] EXCEPT !.step = step, !.ids = @ \cup (pro[p].primary.found \cap Kept)]
  <1>1. writer \in [Pro -> WriterRow] /\ writer[p] \in WriterRow  BY DEF Tables
  <1>2. writer' = [writer EXCEPT ![p] = w]  BY <1>1 DEF Look
  <1>3. w.step = step  BY <1>1 DEF WriterRow
  <1>4. calls' = calls /\ writer[p].step = "look" /\ calls \in Nat  BY DEF Look, Cap
  <1>10. (step = "ask" => UnderCap) /\ step \in {"ask", "write"}  OBVIOUS
  <1> HIDE DEF step, w
  <1>5. writer'[p].step = step /\ \A q \in Pro : q # p => writer'[q].step = writer[q].step
    BY <1>2, <1>3, OneWriterMoves
  <1>6. CASE step = "write"
    <2>1. ToAsk' \subseteq ToAsk /\ ToCall' \subseteq ToCall  BY <1>5, <1>6, OneWriterCalls
    <2>2. QED  BY <1>4, <2>1, NoMoreCalls
  <1>7. CASE step = "ask"
    <2>1. calls + 2 <= PerDay  BY <1>7, <1>10 DEF UnderCap
    <2>2. ToAsk' = ToAsk \cup {p} /\ ToCall' = ToCall \cup {p}  BY <1>5, <1>7, OneWriterCalls
    <2>3. p \notin ToAsk /\ p \notin ToCall /\ ToAsk \subseteq Pro /\ ToCall \subseteq Pro
      BY <1>4 DEF ToAsk, ToCall
    <2>4. /\ Cardinality(ToAsk) \in Nat /\ Cardinality(ToCall) \in Nat /\ Cardinality(Pro) \in Nat
      BY Callers
    <2>5. Cardinality(ToAsk) <= Cardinality(Pro) - 1 /\ Cardinality(ToCall) <= Cardinality(Pro) - 1
      BY <2>3, OneLess
    <2>6. Cardinality(ToAsk') = Cardinality(ToAsk) + 1 /\ Cardinality(ToCall') = Cardinality(ToCall) + 1
      BY <2>2, <2>3, Callers, FS_AddElement
    <2>7. calls + Cardinality(ToAsk') + Cardinality(ToCall') <= PerDay + 2 * (Cardinality(Pro) - 1)
      BY <1>4, <2>1, <2>4, <2>5, <2>6
    <2>8. QED  BY <1>4, <2>7 DEF Cap
  <1>8. QED  BY <1>6, <1>7, <1>10

LEMMA AskModelCalls == ASSUME Cap, Tables, IsFiniteSet(Pro), PerDay \in Nat, NEW p \in Pro, AskModel(p) PROVE Cap'
  <1>1. PICK s \in {"verify", "write"} : writer' = [writer EXCEPT ![p].step = s]  BY DEF AskModel
  <1> DEFINE w == [writer[p] EXCEPT !.step = s]
  <1>2. writer \in [Pro -> WriterRow] /\ writer[p] \in WriterRow  BY DEF Tables
  <1>3. w.step = s /\ writer' = [writer EXCEPT ![p] = w]  BY <1>1, <1>2 DEF WriterRow
  <1> HIDE DEF w
  <1>4. writer'[p].step = s /\ \A q \in Pro : q # p => writer'[q].step = writer[q].step
    BY <1>3, OneWriterMoves
  <1>5. calls' = calls + 1 /\ calls \in Nat /\ p \in ToAsk /\ p \in ToCall  BY DEF AskModel, Cap, ToAsk, ToCall
  <1>6. ToAsk' = ToAsk \ {p} /\ (ToCall' = ToCall \/ ToCall' = ToCall \ {p})
    BY <1>4, <1>5, OneWriterCalls
  <1>7. ToAsk' \subseteq ToAsk /\ ToCall' \subseteq ToCall /\ ToAsk' # ToAsk /\ calls' \in Nat  BY <1>5, <1>6
  <1>8. QED  BY <1>5, <1>7, NoMoreCalls

LEMMA VerifyCalls == ASSUME Cap, Tables, IsFiniteSet(Pro), PerDay \in Nat, NEW p \in Pro, Verify(p) PROVE Cap'
  <1>1. PICK docs \in SUBSET Doc : writer' = [writer EXCEPT ![p].step = "write", ![p].ids = @ \cup docs]
    BY DEF Verify
  <1> DEFINE w == [writer[p] EXCEPT !.step = "write", !.ids = @ \cup docs]
  <1>2. writer \in [Pro -> WriterRow] /\ writer[p] \in WriterRow  BY DEF Tables
  <1>3. w.step = "write" /\ writer' = [writer EXCEPT ![p] = w]  BY <1>1, <1>2 DEF WriterRow
  <1> HIDE DEF w
  <1>4. writer'[p].step = "write" /\ \A q \in Pro : q # p => writer'[q].step = writer[q].step
    BY <1>3, OneWriterMoves
  <1>5. calls' = calls + 1 /\ calls \in Nat /\ p \in ToCall  BY DEF Verify, Cap, ToCall
  <1>6. ToAsk' = ToAsk \ {p} /\ ToCall' = ToCall \ {p}  BY <1>4, OneWriterCalls
  <1>7. ToAsk' \subseteq ToAsk /\ ToCall' \subseteq ToCall /\ ToCall' # ToCall /\ calls' \in Nat  BY <1>5, <1>6
  <1>8. QED  BY <1>5, <1>7, NoMoreCalls

\* The other steps make no call and let nobody through.
LEMMA NobodyCallsMore ==
  ASSUME Cap, IsFiniteSet(Pro), PerDay \in Nat, calls' = calls \/ calls' = 0,
         \A q \in Pro : writer'[q].step = writer[q].step \/ writer'[q].step \notin {"ask", "verify"}
  PROVE  Cap'
  <1>1. ToAsk' \subseteq ToAsk /\ ToCall' \subseteq ToCall  BY DEF ToAsk, ToCall
  <1>2. calls \in Nat  BY DEF Cap
  <1>3. calls' \in Nat /\ calls' <= calls  BY <1>2
  <1>4. QED  BY <1>1, <1>3, NoMoreCalls

LEMMA CapStep ==
  ASSUME Cap, Tables, IsFiniteSet(Pro), PerDay \in Nat, [EvidenceNext]_evidenceVars
  PROVE  Cap'
  <1>1. CASE UNCHANGED <<calls, writer>>  BY <1>1, NobodyCallsMore
  <1>2. ASSUME NEW p \in Pro, Gather(p) \/ ReadTexts(p) \/ Store(p) \/ WriterDies(p) PROVE Cap'
    <2>1. writer \in [Pro -> WriterRow] /\ writer[p] \in WriterRow  BY DEF Tables
    <2>2. calls' = calls  BY <1>2 DEF Gather, ReadTexts, Store, WriterDies
    <2>3. \A q \in Pro : q # p => writer'[q] = writer[q]
      BY <1>2, <2>1 DEF Gather, ReadTexts, Store, WriterDies
    <2>4. writer'[p].step \in {"read", "look", "write", "idle"}
      <3>1. CASE Gather(p)
        <4>1. PICK w : w.step = "read" /\ writer' = [writer EXCEPT ![p] = w]  BY <3>1 DEF Gather
        <4>2. QED  BY <2>1, <4>1
      <3>2. CASE ReadTexts(p)
        <4>1. PICK docs \in SUBSET Doc :
                writer' = [writer EXCEPT ![p].step = IF docs = {} THEN "look" ELSE "write", ![p].ids = @ \cup docs]
          BY <3>2 DEF ReadTexts
        <4>2. QED  BY <2>1, <4>1 DEF WriterRow
      <3>3. CASE Store(p) \/ WriterDies(p)
        <4>1. writer' = [writer EXCEPT ![p] = NoWriter]  BY <3>3 DEF Store, WriterDies
        <4>2. QED  BY <2>1, <4>1 DEF NoWriter
      <3>4. QED  BY <1>2, <3>1, <3>2, <3>3
    <2>5. QED  BY <2>2, <2>3, <2>4, NobodyCallsMore
  <1>3. CASE NextDate  BY <1>3, NobodyCallsMore DEF NextDate
  <1>4. CASE Prune \/ ConfirmReads \/ ConfirmWrites  BY <1>1, <1>4 DEF Prune, ConfirmReads, ConfirmWrites
  <1>5. ASSUME NEW i \in Item, Collect(i) PROVE Cap'  BY <1>1, <1>5 DEF Collect
  <1>6. ASSUME NEW p \in Pro, Propose(p) \/ Decide(p) PROVE Cap'  BY <1>1, <1>6 DEF Propose, Decide
  <1>7. CASE UNCHANGED evidenceVars  BY <1>1, <1>7 DEF evidenceVars
  <1>8. QED
    BY <1>2, <1>3, <1>4, <1>5, <1>6, <1>7, LookCalls, AskModelCalls, VerifyCalls DEF EvidenceNext

LEMMA CapInitHolds ==
  ASSUME IsFiniteSet(Pro), Pro # {}, PerDay \in Nat, EvidenceInit
  PROVE  Cap
  <1>1. ToAsk = {} /\ ToCall = {} /\ calls = 0  BY DEF EvidenceInit, ToAsk, ToCall, NoWriter
  <1>2. Cardinality(Pro) >= 1
    <2>1. Cardinality(Pro) \in Nat /\ Cardinality(Pro) # 0  BY FS_CardinalityType, FS_EmptySet
    <2>2. QED  BY <2>1
  <1>3. Cardinality(ToAsk) = 0 /\ Cardinality(ToCall) = 0  BY <1>1, FS_EmptySet
  <1>4. Cardinality(Pro) \in Nat  BY FS_CardinalityType
  <1>5. QED  BY <1>1, <1>2, <1>3, <1>4 DEF Cap

LEMMA CapTells ==
  ASSUME Cap, IsFiniteSet(Pro), PerDay \in Nat
  PROVE  CapNearlyHolds
  <1>1. Cardinality(ToAsk) \in Nat /\ Cardinality(ToCall) \in Nat /\ Cardinality(Pro) \in Nat  BY Callers
  <1>2. QED  BY <1>1 DEF Cap, CapNearlyHolds

(***************************************************************************)
(* Articles written together pass the day's cap of searches by no more     *)
(* than the two calls of each beside the first, for any number of them     *)
(* (primary.look: it counts the calls made, not those under way).          *)
(***************************************************************************)
THEOREM CapPassedByFew ==
  IsFiniteSet(Pro) /\ Pro # {} /\ PerDay \in Nat => (EvidenceSpec => []CapNearlyHolds)
  <1> SUFFICES ASSUME IsFiniteSet(Pro), Pro # {}, PerDay \in Nat PROVE EvidenceSpec => []CapNearlyHolds  OBVIOUS
  <1>1. EvidenceInit => Cap  BY CapInitHolds
  <1>2. CitesInv /\ Cap /\ [EvidenceNext]_evidenceVars => Cap'  BY CapStep DEF CitesInv
  <1>3. Cap => CapNearlyHolds  BY CapTells
  <1>4. QED  BY <1>1, <1>2, <1>3, EvidenceInitHolds, EvidenceStep, PTL DEF EvidenceSpec

-----------------------------------------------------------------------------
(***************************************************************************)
(* The proposals of a site (module Plans).  A planner that has the site to *)
(* itself is the only one at work, and what it may still propose was not   *)
(* proposed by another such planner in the last days.                      *)
(***************************************************************************)
Sites ==
  /\ IsFiniteSet(Story) /\ NotAgain \in Nat /\ OnlyPerDay \in Nat /\ RoundMost \in Nat
  /\ PlanCfg \subseteq [mode : {"news", "evergreen", "mixed"}, perDay : Nat, only : BOOLEAN]

Subject == Story \cup Theme \cup {"asked"}
ProposalRow == [kind : Kinds, about : Subject, born : Nat, alone : BOOLEAN]
PlanRow == [step : {"idle", "themes", "theme", "score", "select", "stories", "fill"}, limit : Int, left : Int,
            from : SUBSET (Story \cup Theme), made : Int, alone : BOOLEAN]
OfStories == {"score", "select", "stories", "fill"}

PlansTyped ==
  /\ date \in Nat /\ setup \in PlanCfg
  /\ props \in Seq(ProposalRow) /\ plan \in [Planner -> PlanRow]
  /\ \A c \in Planner : plan[c].step \in OfStories => plan[c].from \subseteq Story

BornBefore == \A i \in DOMAIN props : props[i].born <= date

Alone(c) == plan[c].step # "idle" /\ plan[c].alone
OneAlone == \A c, o \in Planner : Alone(c) /\ o # c => plan[o].step = "idle"

\* Proposed by a planner that was alone.
Sole(i) == Planned(i) /\ props[i].alone
LongAgo(about) == \A i \in DOMAIN props : Sole(i) /\ props[i].about = about => props[i].born < date - NotAgain
StillNew == \A c \in Planner : Alone(c) => \A about \in plan[c].from : LongAgo(about)

PlanIInv == PlansTyped /\ BornBefore /\ OneAlone /\ StillNew /\ NotProposedAgain

-----------------------------------------------------------------------------
\* The proposals of one transaction, each on a subject of its own, come after
\* those there are.
LEMMA InOrder ==
  ASSUME NEW S, IsFiniteSet(S)
  PROVE  SetToSeq(S) \in [1..Cardinality(S) -> S] /\ IsInjective(SetToSeq(S)) /\ Cardinality(S) \in Nat
<1>1. Cardinality(S) \in Nat
  BY FS_CardinalityType
<1>2. \E f : f \in Bijection(1..Cardinality(S), S)
  BY <1>1, FS_NatBijection, FS_CountingElements, FS_CardinalityType DEF ExistsBijection
<1>3. \E f \in [1..Cardinality(S) -> S] : IsInjective(f)
  BY <1>2 DEF Bijection, Injection, IsInjective
<1>. QED
  BY <1>1, <1>3 DEF SetToSeq

\* What the proposals of a transaction leave as it was, and add.
Added(kind, abouts, alone) ==
  /\ props' \in Seq(ProposalRow)
  /\ \A i \in DOMAIN props : i \in DOMAIN props' /\ props'[i] = props[i]
  /\ \A i \in DOMAIN props' \ DOMAIN props :
       props'[i].kind = kind /\ props'[i].about \in abouts /\ props'[i].born = date /\ props'[i].alone = alone
  /\ \A i, j \in DOMAIN props' \ DOMAIN props : i # j => props'[i].about # props'[j].about

LEMMA Inserted ==
  ASSUME PlansTyped, NEW kind \in Kinds, NEW abouts \in SUBSET Subject, IsFiniteSet(abouts), NEW alone \in BOOLEAN,
         Insert(kind, abouts, alone)
  PROVE  Added(kind, abouts, alone)
<1>. DEFINE all == {Proposal(kind, a, alone) : a \in abouts}
            s == SetToSeq(all)
<1>1. IsFiniteSet(all)
  <2>. DEFINE f == [a \in abouts |-> Proposal(kind, a, alone)]
  <2>1. f \in Surjection(abouts, all)
    BY DEF Surjection
  <2>. QED
    BY <2>1, FS_Surjection
<1>2. \A r \in all : /\ r \in ProposalRow /\ r.kind = kind /\ r.about \in abouts /\ r.born = date /\ r.alone = alone
                     /\ r = Proposal(kind, r.about, alone)
  BY DEF PlansTyped, Proposal, ProposalRow
<1>3. \A r, q \in all : r # q => r.about # q.about
  BY <1>2
<1>. HIDE DEF all
<1>4. s \in [1..Cardinality(all) -> all] /\ IsInjective(s) /\ Cardinality(all) \in Nat
  BY <1>1, InOrder
<1>. HIDE DEF s
<1>5. s \in Seq(all) /\ Len(s) = Cardinality(all) /\ DOMAIN s = 1..Len(s)
  BY <1>4
<1>6. all \subseteq ProposalRow
  BY <1>2
<1>7. s \in Seq(ProposalRow)
  BY <1>5, <1>6
<1>8. props' = props \o s /\ props \in Seq(ProposalRow)
  BY DEF Insert, PlansTyped, s, all
<1>9. /\ props' \in Seq(ProposalRow) /\ Len(props') = Len(props) + Len(s) /\ Len(props) \in Nat /\ Len(s) \in Nat
      /\ DOMAIN props = 1..Len(props) /\ DOMAIN props' = 1..Len(props')
      /\ \A i \in 1..Len(props) : props'[i] = props[i]
      /\ \A i \in 1..Len(props') : i > Len(props) => props'[i] = s[i - Len(props)]
  BY <1>7, <1>8
<1>10. \A i \in DOMAIN props' \ DOMAIN props :
         /\ i \in Nat /\ i - Len(props) \in 1..Len(s) /\ props'[i] = s[i - Len(props)] /\ props'[i] \in all
  <2>. SUFFICES ASSUME NEW i \in DOMAIN props' \ DOMAIN props
       PROVE  /\ i \in Nat /\ i - Len(props) \in 1..Len(s) /\ props'[i] = s[i - Len(props)] /\ props'[i] \in all
    OBVIOUS
  <2>1. i \in Nat /\ i > Len(props) /\ i <= Len(props) + Len(s)
    BY <1>9
  <2>2. i - Len(props) \in 1..Len(s) /\ props'[i] = s[i - Len(props)]
    BY <1>9, <2>1
  <2>. QED
    BY <1>5, <2>1, <2>2
<1>11. \A i, j \in DOMAIN props' \ DOMAIN props : i # j => props'[i] # props'[j]
  <2>. SUFFICES ASSUME NEW i \in DOMAIN props' \ DOMAIN props, NEW j \in DOMAIN props' \ DOMAIN props, i # j
       PROVE  props'[i] # props'[j]
    OBVIOUS
  <2>1. i - Len(props) # j - Len(props)
    BY <1>9, <1>10
  <2>2. s[i - Len(props)] # s[j - Len(props)]
    BY <1>4, <1>5, <1>10, <2>1 DEF IsInjective
  <2>. QED
    BY <1>10, <2>2
<1>. QED
  BY <1>2, <1>3, <1>9, <1>10, <1>11 DEF Added

\* A planner proposes what no other did lately, alone or not.
LEMMA ProposedApart ==
  ASSUME PlanIInv, Sites, NEW kind, NEW abouts, NEW alone, Added(kind, abouts, alone), date' = date,
         alone /\ kind \in {"theme", "topic", "news"} => \A a \in abouts : LongAgo(a)
  PROVE  NotProposedAgain' /\ BornBefore'
<1>1. date \in Nat /\ NotAgain \in Nat /\ \A i \in DOMAIN props : props[i].born \in Nat /\ props[i].born <= date
  <2>1. \A i \in DOMAIN props : props[i] \in ProposalRow
    BY DEF PlanIInv, PlansTyped
  <2>. QED
    BY <2>1 DEF PlanIInv, PlansTyped, ProposalRow, BornBefore, Sites
<1>2. BornBefore'
  BY <1>1 DEF Added, BornBefore
<1>. DEFINE new == DOMAIN props' \ DOMAIN props
<1>3. \A i \in new, j \in DOMAIN props :
        /\ props'[i].kind \in {"theme", "topic", "news"} /\ props[j].kind \in {"theme", "topic", "news"}
        /\ props'[i].alone /\ props[j].alone /\ props'[i].about = props[j].about
        => props[j].born < date - NotAgain
  BY DEF Added, LongAgo, Sole, Planned
<1>. DEFINE Clash(i, j) == /\ props'[i].kind \in {"theme", "topic", "news"} /\ props'[j].kind \in {"theme", "topic", "news"}
                           /\ props'[i].alone /\ props'[j].alone /\ props'[i].about = props'[j].about
<1>4. ASSUME NEW i \in DOMAIN props', NEW j \in DOMAIN props', i # j, Clash(i, j)
      PROVE  props'[i].born - props'[j].born \notin (-NotAgain)..NotAgain
  <2>1. CASE i \in new /\ j \in new
    BY <1>4, <2>1 DEF Added
  <2>2. CASE i \in new /\ j \notin new
    <3>1. j \in DOMAIN props /\ props'[j] = props[j] /\ props'[i].born = date
      BY <2>2 DEF Added
    <3>2. props[j].born < date - NotAgain
      BY <1>3, <1>4, <2>2, <3>1
    <3>. QED
      BY <1>1, <3>1, <3>2
  <2>3. CASE i \notin new /\ j \in new
    <3>1. i \in DOMAIN props /\ props'[i] = props[i] /\ props'[j].born = date
      BY <2>3 DEF Added
    <3>2. props[i].born < date - NotAgain
      BY <1>3, <1>4, <2>3, <3>1
    <3>. QED
      BY <1>1, <3>1, <3>2
  <2>4. CASE i \notin new /\ j \notin new
    <3>1. i \in DOMAIN props /\ j \in DOMAIN props /\ props'[i] = props[i] /\ props'[j] = props[j]
      BY <2>4 DEF Added
    <3>. QED
      BY <1>4, <3>1 DEF PlanIInv, NotProposedAgain, Planned
  <2>. QED
    BY <2>1, <2>2, <2>3, <2>4
<1>. QED
  BY <1>2, <1>4 DEF NotProposedAgain, Planned

LEMMA PlanInitHolds ==
  ASSUME Sites, PlanInit
  PROVE  PlanIInv
<1>1. NoPlan \in PlanRow /\ NoPlan.step = "idle"
  BY DEF NoPlan, PlanRow
<1>2. props = <<>> /\ date = 1 /\ setup \in PlanCfg /\ \A c \in Planner : plan[c] = NoPlan
  BY DEF PlanInit
<1>3. props \in Seq(ProposalRow) /\ DOMAIN props = {}
  BY <1>2
<1>4. plan \in [Planner -> PlanRow]
  BY <1>1 DEF PlanInit
<1>5. PlansTyped
  BY <1>1, <1>2, <1>3, <1>4 DEF PlansTyped, OfStories
<1>6. BornBefore /\ NotProposedAgain
  BY <1>3 DEF BornBefore, NotProposedAgain
<1>. QED
  BY <1>1, <1>2, <1>5, <1>6 DEF PlanIInv, OneAlone, StillNew, Alone

\* A planner goes on, with nothing written: what it takes up is new to the site.
LEMMA PlannerMoves ==
  ASSUME PlanIInv, UNCHANGED <<date, setup, props>>, NEW c \in Planner, NEW r \in PlanRow,
         plan' = [plan EXCEPT ![c] = r], plan[c].step # "idle", r.step \in OfStories => r.from \subseteq Story,
         r.step # "idle" => r.alone = plan[c].alone /\ \A a \in r.from : LongAgo(a) \/ a \in plan[c].from
  PROVE  PlanIInv'
<1>1. plan' \in [Planner -> PlanRow] /\ plan'[c] = r /\ \A o \in Planner \ {c} : plan'[o] = plan[o]
  BY DEF PlanIInv, PlansTyped
<1>2. PlansTyped'
  BY <1>1 DEF PlanIInv, PlansTyped
<1>3. BornBefore' /\ NotProposedAgain' /\ \A a : LongAgo(a)' <=> LongAgo(a)
  BY DEF PlanIInv, BornBefore, NotProposedAgain, Planned, LongAgo, Sole
<1>4. \A o \in Planner : /\ Alone(o)' => Alone(o)
                         /\ plan'[o].step # "idle" => plan[o].step # "idle"
  BY <1>1 DEF Alone
<1>5. OneAlone'
  BY <1>1, <1>4 DEF PlanIInv, OneAlone, Alone
<1>6. \A o \in Planner : Alone(o)' => \A a \in plan'[o].from : LongAgo(a)
  <2>. SUFFICES ASSUME NEW o \in Planner, Alone(o)', NEW a \in plan'[o].from
       PROVE  LongAgo(a)
    OBVIOUS
  <2>1. Alone(o)
    BY <1>4
  <2>2. CASE o = c
    BY <1>1, <2>1, <2>2 DEF PlanIInv, StillNew, Alone
  <2>3. CASE o # c
    BY <1>1, <2>1, <2>3 DEF PlanIInv, StillNew
  <2>. QED
    BY <2>2, <2>3
<1>7. StillNew'
  BY <1>3, <1>6 DEF StillNew
<1>. QED
  BY <1>2, <1>3, <1>5, <1>7 DEF PlanIInv

\* It writes proposals on what it took up, and goes on with the rest.
LEMMA PlannerProposes ==
  ASSUME PlanIInv, Sites, UNCHANGED <<date, setup>>, NEW c \in Planner, NEW r \in PlanRow,
         plan' = [plan EXCEPT ![c] = r], plan[c].step # "idle", r.step \in OfStories => r.from \subseteq Story,
         NEW kind, NEW abouts \in SUBSET plan[c].from, Added(kind, abouts, plan[c].alone),
         r.step # "idle" => r.alone = plan[c].alone /\ r.from \subseteq plan[c].from \ abouts
  PROVE  PlanIInv'
<1>1. plan' \in [Planner -> PlanRow] /\ plan'[c] = r /\ \A o \in Planner \ {c} : plan'[o] = plan[o]
  BY DEF PlanIInv, PlansTyped
<1>2. PlansTyped'
  BY <1>1 DEF PlanIInv, PlansTyped, Added
<1>3. plan[c].alone => \A a \in plan[c].from : LongAgo(a)
  BY DEF PlanIInv, StillNew, Alone
<1>4. NotProposedAgain' /\ BornBefore'
  BY <1>3, ProposedApart
<1>5. \A o \in Planner : /\ Alone(o)' => Alone(o)
                         /\ plan'[o].step # "idle" => plan[o].step # "idle"
  BY <1>1 DEF Alone
<1>6. OneAlone'
  BY <1>1, <1>5 DEF PlanIInv, OneAlone, Alone
<1>7. \A o \in Planner : Alone(o)' => o = c
  BY <1>5 DEF PlanIInv, OneAlone
<1>8. \A a : LongAgo(a) /\ a \notin abouts => LongAgo(a)'
  <2>. SUFFICES ASSUME NEW a, LongAgo(a), a \notin abouts, NEW i \in DOMAIN props', Sole(i)', props'[i].about = a
       PROVE  props'[i].born < date - NotAgain
    BY DEF LongAgo
  <2>1. i \in DOMAIN props
    BY DEF Added
  <2>2. props'[i] = props[i]
    BY <2>1 DEF Added
  <2>3. Sole(i)
    BY <2>2 DEF Sole, Planned
  <2>. QED
    BY <2>1, <2>2, <2>3 DEF LongAgo
<1>9. Alone(c)' => \A a \in plan'[c].from : LongAgo(a)'
  BY <1>1, <1>3, <1>8 DEF Alone
<1>10. StillNew'
  BY <1>7, <1>9 DEF StillNew
<1>. QED
  BY <1>2, <1>4, <1>6, <1>10 DEF PlanIInv

\* What people ask for is not a planner's.
LEMMA PersonAsks ==
  ASSUME PlanIInv, Sites, UNCHANGED <<date, setup, plan>>, NEW kind, NEW abouts, Added(kind, abouts, FALSE)
  PROVE  PlanIInv'
<1>1. NotProposedAgain' /\ BornBefore'
  BY ProposedApart
<1>2. PlansTyped' /\ OneAlone'
  BY DEF PlanIInv, PlansTyped, Added, OneAlone, Alone
<1>3. \A a : LongAgo(a) => LongAgo(a)'
  <2>. SUFFICES ASSUME NEW a, LongAgo(a), NEW i \in DOMAIN props', Sole(i)', props'[i].about = a
       PROVE  props'[i].born < date - NotAgain
    BY DEF LongAgo
  <2>1. i \in DOMAIN props
    BY DEF Added, Sole
  <2>2. props'[i] = props[i]
    BY <2>1 DEF Added
  <2>3. Sole(i)
    BY <2>2 DEF Sole, Planned
  <2>. QED
    BY <2>1, <2>2, <2>3 DEF LongAgo
<1>4. StillNew'
  BY <1>3 DEF PlanIInv, StillNew, Alone
<1>. QED
  BY <1>1, <1>2, <1>4 DEF PlanIInv

\* A planner begins: with another at work neither is alone.
LEMMA BeginStep ==
  ASSUME PlanIInv, NEW c \in Planner, NEW limit \in Int, Sites, Begin(c, limit)
  PROVE  PlanIInv'
<1>. DEFINE others == {o \in Planner \ {c} : plan[o].step # "idle"}
<1>1. PICK n \in Int : n = IF setup.only THEN Fewer(limit, OnlyPerDay) ELSE limit
  BY DEF Sites, Fewer
<1>2. PICK m \in Int : m = Themed(n)
  <2>1. setup.mode \in {"news", "evergreen", "mixed"}
    BY DEF PlanIInv, PlansTyped, Sites
  <2>2. n \in Int /\ (n + 1) \div 2 \in Int /\ n \div 2 \in Int
    OBVIOUS
  <2>3. Themed(n) \in Int
    BY <2>1, <2>2 DEF Themed
  <2>. QED
    BY <2>3
<1>3. PICK alone \in BOOLEAN : alone = (others = {})
  OBVIOUS
<1>4. plan[c].step = "idle" /\ UNCHANGED <<date, setup, told, props>>
      /\ plan' = [o \in Planner |->
          IF o = c THEN [NoPlan EXCEPT !.step = "themes", !.limit = n, !.left = m, !.alone = alone]
          ELSE [plan[o] EXCEPT !.alone = @ /\ plan[o].step = "idle"]]
  BY <1>1, <1>2, <1>3 DEF Begin
<1>5. /\ plan'[c] \in PlanRow /\ plan'[c].step = "themes" /\ plan'[c].alone = alone /\ plan'[c].from = {}
  <2>1. NoPlan \in PlanRow /\ NoPlan.from = {}
    BY DEF NoPlan, PlanRow
  <2>2. plan'[c] = [NoPlan EXCEPT !.step = "themes", !.limit = n, !.left = m, !.alone = alone]
    BY <1>4
  <2>. QED
    BY <2>1, <2>2 DEF PlanRow
<1>6. ASSUME NEW o \in Planner \ {c}
      PROVE  /\ plan'[o] \in PlanRow /\ plan'[o].step = plan[o].step /\ plan'[o].from = plan[o].from
             /\ plan[o].step # "idle" => ~plan'[o].alone
  <2>1. plan[o] \in PlanRow /\ plan'[o] = [plan[o] EXCEPT !.alone = plan[o].alone /\ plan[o].step = "idle"]
    BY <1>4 DEF PlanIInv, PlansTyped
  <2>2. PICK b \in BOOLEAN : b = (plan[o].alone /\ plan[o].step = "idle")
    OBVIOUS
  <2>3. plan'[o] = [plan[o] EXCEPT !.alone = b]
    BY <2>1, <2>2
  <2>4. plan'[o] \in PlanRow /\ plan'[o].step = plan[o].step /\ plan'[o].from = plan[o].from /\ plan'[o].alone = b
    BY <2>1, <2>3 DEF PlanRow
  <2>. QED
    BY <2>2, <2>4
<1>7. plan' \in [Planner -> PlanRow]
  BY <1>4, <1>5, <1>6
<1>8. PlansTyped'
  BY <1>4, <1>5, <1>6, <1>7 DEF PlanIInv, PlansTyped, OfStories
<1>9. BornBefore' /\ NotProposedAgain'
  BY <1>4 DEF PlanIInv, BornBefore, NotProposedAgain, Planned
<1>10. \A o \in Planner : Alone(o)' => o = c /\ others = {}
  BY <1>3, <1>5, <1>6 DEF Alone
<1>11. OneAlone'
  BY <1>6, <1>10 DEF OneAlone
<1>12. StillNew'
  BY <1>5, <1>10 DEF StillNew
<1>. QED
  BY <1>8, <1>9, <1>11, <1>12 DEF PlanIInv

LEMMA DatePassesStep ==
  ASSUME PlanIInv, Sites, DatePasses
  PROVE  PlanIInv'
<1>1. date \in Nat /\ date' = date + 1 /\ NotAgain \in Nat /\ UNCHANGED <<setup, told, props, plan>>
  BY DEF PlanIInv, PlansTyped, Sites, DatePasses
<1>2. \A i \in DOMAIN props : props[i].born \in Nat
  <2>1. \A i \in DOMAIN props : props[i] \in ProposalRow
    BY DEF PlanIInv, PlansTyped
  <2>. QED
    BY <2>1 DEF ProposalRow
<1>3. PlansTyped' /\ OneAlone' /\ NotProposedAgain'
  BY <1>1 DEF PlanIInv, PlansTyped, OneAlone, Alone, NotProposedAgain, Planned
<1>4. BornBefore'
  BY <1>1, <1>2 DEF PlanIInv, BornBefore
<1>5. \A a : LongAgo(a) => LongAgo(a)'
  BY <1>1, <1>2 DEF LongAgo, Sole, Planned
<1>6. StillNew'
  BY <1>1, <1>5 DEF PlanIInv, StillNew, Alone
<1>. QED
  BY <1>3, <1>4, <1>6 DEF PlanIInv

\* What the site has left of its day is a number.
LEMMA DayCounted ==
  ASSUME PlanIInv
  PROVE  MadeToday \in Nat
<1>. DEFINE today_s == {i \in DOMAIN props : props[i].born = date}
<1>1. DOMAIN props = 1..Len(props) /\ Len(props) \in Nat
  BY DEF PlanIInv, PlansTyped
<1>2. IsFiniteSet(DOMAIN props)
  BY <1>1, FS_Interval
<1>3. IsFiniteSet(today_s)
  BY <1>2, FS_Subset
<1>. QED
  BY <1>3, FS_CardinalityType DEF MadeToday

LEMMA PlannerStep ==
  ASSUME PlanIInv, Sites, NEW c \in Planner,
         \/ ReadThemes(c) \/ ProposeTheme(c) \/ AfterThemes(c) \/ Score(c) \/ Select(c)
         \/ ProposeStory(c) \/ ReadNews(c) \/ FillIn(c) \/ PlanDies(c)
  PROVE  PlanIInv'
<1>1. /\ plan \in [Planner -> PlanRow] /\ plan[c] \in PlanRow /\ plan[c].from \subseteq Story \cup Theme
      /\ plan[c].left \in Int /\ plan[c].made \in Int /\ plan[c].limit \in Int /\ plan[c].alone \in BOOLEAN
      /\ plan[c].step \in OfStories => plan[c].from \subseteq Story
  BY DEF PlanIInv, PlansTyped, PlanRow
<1>2. \A a : a \notin Proposed => LongAgo(a)
  <2>1. \A i \in DOMAIN props : props[i].born \in Nat
    <3>1. \A i \in DOMAIN props : props[i] \in ProposalRow
      BY DEF PlanIInv, PlansTyped
    <3>. QED
      BY <3>1 DEF ProposalRow
  <2>2. date \in Nat /\ NotAgain \in Nat
    BY DEF PlanIInv, PlansTyped, Sites
  <2>. QED
    BY <2>1, <2>2 DEF Proposed, LongAgo
<1>3. InTheNews \subseteq Story
  BY DEF InTheNews
<1>4. NoPlan \in PlanRow /\ NoPlan.step = "idle" /\ NoPlan.from = {}
  BY DEF NoPlan, PlanRow
<1>5. \A S \in SUBSET Subject : \A a \in S : IsFiniteSet({a})
  BY FS_Singleton
<1>6. CASE ReadThemes(c)
  <2>. DEFINE from == IF plan[c].left > 0 THEN Theme \ Proposed ELSE {}
              r == [plan[c] EXCEPT !.step = "theme", !.from = from]
  <2>1. from \in SUBSET (Story \cup Theme) /\ \A a \in from : LongAgo(a)
    BY <1>2
  <2>2. r \in PlanRow /\ r.step = "theme" /\ r.from = from /\ r.alone = plan[c].alone
    BY <1>1, <2>1 DEF PlanRow
  <2>3. plan' = [plan EXCEPT ![c] = r] /\ plan[c].step # "idle" /\ UNCHANGED <<date, setup, props>>
    BY <1>1, <1>6 DEF ReadThemes
  <2>. HIDE DEF r, from
  <2>4. "theme" \notin OfStories
    BY DEF OfStories
  <2>. QED
    BY <2>1, <2>2, <2>3, <2>4, PlannerMoves
<1>7. CASE ProposeTheme(c)
  <2>1. PICK th \in plan[c].from :
          \/ /\ Insert("theme", {th}, plan[c].alone)
             /\ plan' = [plan EXCEPT ![c].from = @ \ {th}, ![c].left = @ - 1, ![c].made = @ + 1]
          \/ plan' = [plan EXCEPT ![c].from = @ \ {th}] /\ UNCHANGED props
    BY <1>7 DEF ProposeTheme
  <2>2. plan[c].step = "theme" /\ UNCHANGED <<date, setup, told>>
    BY <1>7 DEF ProposeTheme
  <2>3. "theme" \notin OfStories
    BY DEF OfStories
  <2>4. CASE /\ Insert("theme", {th}, plan[c].alone)
             /\ plan' = [plan EXCEPT ![c].from = @ \ {th}, ![c].left = @ - 1, ![c].made = @ + 1]
    <3>. DEFINE r == [plan[c] EXCEPT !.from = plan[c].from \ {th}, !.left = plan[c].left - 1, !.made = plan[c].made + 1]
    <3>1. r \in PlanRow /\ r.step = "theme" /\ r.from = plan[c].from \ {th} /\ r.alone = plan[c].alone
      <4>1. plan[c].left - 1 \in Int /\ plan[c].made + 1 \in Int /\ plan[c].from \ {th} \in SUBSET (Story \cup Theme)
        BY <1>1
      <4>2. \A m, n \in Int, S \in SUBSET (Story \cup Theme) :
              [plan[c] EXCEPT !.from = S, !.left = m, !.made = n] \in PlanRow
        BY <1>1 DEF PlanRow
      <4>3. r \in PlanRow
        BY <4>1, <4>2
      <4>. QED
        BY <1>1, <2>2, <4>3 DEF PlanRow
    <3>2. plan' = [plan EXCEPT ![c] = r]
      BY <1>1, <2>4
    <3>. HIDE DEF r
    <3>3. {th} \in SUBSET Subject /\ {th} \in SUBSET plan[c].from /\ IsFiniteSet({th}) /\ "theme" \in Kinds
      BY <1>1, <1>5 DEF Subject, Kinds
    <3>4. Added("theme", {th}, plan[c].alone)
      BY <1>1, <2>4, <3>3, Inserted DEF PlanIInv
    <3>. QED
      BY <2>2, <2>3, <3>1, <3>2, <3>3, <3>4, PlannerProposes
  <2>5. CASE plan' = [plan EXCEPT ![c].from = @ \ {th}] /\ UNCHANGED props
    <3>. DEFINE r == [plan[c] EXCEPT !.from = plan[c].from \ {th}]
    <3>1. r \in PlanRow /\ r.step = "theme" /\ r.from = plan[c].from \ {th} /\ r.alone = plan[c].alone
      BY <1>1, <2>2 DEF PlanRow
    <3>2. plan' = [plan EXCEPT ![c] = r]
      BY <1>1, <2>5
    <3>. HIDE DEF r
    <3>. QED
      BY <2>2, <2>3, <2>5, <3>1, <3>2, PlannerMoves
  <2>. QED
    BY <2>1, <2>4, <2>5
<1>8. CASE AfterThemes(c)
  <2>1. plan[c].step = "theme" /\ UNCHANGED <<date, setup, props>>
    BY <1>8 DEF AfterThemes
  <2>2. CASE NewsLeft(c) <= 0
    <3>1. plan' = [plan EXCEPT ![c] = NoPlan]
      BY <1>8, <2>2 DEF AfterThemes
    <3>. QED
      BY <1>4, <2>1, <3>1, PlannerMoves
  <2>3. CASE ~(NewsLeft(c) <= 0)
    <3>1. NewsLeft(c) \in Int
      <4>1. setup.mode \in {"news", "evergreen", "mixed"}
        BY DEF PlanIInv, PlansTyped, Sites
      <4>2. PICK n \in Int : n = plan[c].limit
        BY <1>1
      <4>3. (n + 1) \div 2 \in Int /\ n \div 2 \in Int
        OBVIOUS
      <4>4. Themed(n) \in Int
        BY <4>1, <4>2, <4>3 DEF Themed
      <4>5. n - Themed(n) \in Int /\ n - plan[c].made \in Int
        BY <1>1, <4>4
      <4>. QED
        BY <4>2, <4>5 DEF NewsLeft
    <3>. DEFINE r == [NoPlan EXCEPT !.step = "score", !.left = NewsLeft(c), !.alone = plan[c].alone]
    <3>2. r \in PlanRow /\ r.step = "score" /\ r.from = {} /\ r.alone = plan[c].alone
      BY <1>1, <1>4, <3>1 DEF PlanRow
    <3>3. plan' = [plan EXCEPT ![c] = r]
      BY <1>8, <2>3 DEF AfterThemes
    <3>. HIDE DEF r
    <3>. QED
      BY <2>1, <3>2, <3>3, PlannerMoves
  <2>. QED
    BY <2>2, <2>3
<1>9. CASE Score(c)
  <2>. DEFINE from == InTheNews \ Proposed
              r == [plan[c] EXCEPT !.step = "select", !.from = from]
  <2>1. from \in SUBSET Story /\ \A a \in from : LongAgo(a)
    BY <1>2, <1>3
  <2>2. r \in PlanRow /\ r.step = "select" /\ r.from = from /\ r.alone = plan[c].alone
    BY <1>1, <2>1 DEF PlanRow
  <2>3. plan' = [plan EXCEPT ![c] = r] /\ plan[c].step # "idle" /\ UNCHANGED <<date, setup, props>>
    BY <1>1, <1>9 DEF Score
  <2>. HIDE DEF r, from
  <2>. QED
    BY <2>1, <2>2, <2>3, PlannerMoves
<1>10. CASE Select(c)
  <2>1. PICK work \in SUBSET plan[c].from : plan' = [plan EXCEPT ![c].step = "stories", ![c].from = work]
    BY <1>10 DEF Select
  <2>. DEFINE r == [plan[c] EXCEPT !.step = "stories", !.from = work]
  <2>2. plan[c].step = "select" /\ UNCHANGED <<date, setup, props>> /\ work \subseteq Story
    BY <1>1, <1>10 DEF Select, OfStories
  <2>3. r \in PlanRow /\ r.step = "stories" /\ r.from = work /\ r.alone = plan[c].alone
    BY <1>1, <2>2 DEF PlanRow
  <2>4. plan' = [plan EXCEPT ![c] = r]
    BY <1>1, <2>1
  <2>. HIDE DEF r
  <2>. QED
    BY <2>2, <2>3, <2>4, PlannerMoves
<1>11. CASE ProposeStory(c)
  <2>1. PICK t \in plan[c].from : /\ Insert("topic", {t}, plan[c].alone)
                                  /\ plan' = [plan EXCEPT ![c].from = @ \ {t}, ![c].left = @ - 1]
    BY <1>11 DEF ProposeStory
  <2>. DEFINE r == [plan[c] EXCEPT !.from = plan[c].from \ {t}, !.left = plan[c].left - 1]
  <2>2. plan[c].step = "stories" /\ UNCHANGED <<date, setup, told>> /\ plan[c].from \subseteq Story
    BY <1>1, <1>11 DEF ProposeStory, OfStories
  <2>3. r \in PlanRow /\ r.step = "stories" /\ r.from = plan[c].from \ {t} /\ r.alone = plan[c].alone
    <3>1. plan[c].left - 1 \in Int /\ plan[c].from \ {t} \in SUBSET (Story \cup Theme)
      BY <1>1
    <3>2. \A n \in Int, S \in SUBSET (Story \cup Theme) : [plan[c] EXCEPT !.from = S, !.left = n] \in PlanRow
      BY <1>1 DEF PlanRow
    <3>3. r \in PlanRow
      BY <3>1, <3>2
    <3>. QED
      BY <1>1, <2>2, <3>3 DEF PlanRow
  <2>4. plan' = [plan EXCEPT ![c] = r]
    BY <1>1, <2>1
  <2>. HIDE DEF r
  <2>5. {t} \in SUBSET Subject /\ {t} \in SUBSET plan[c].from /\ IsFiniteSet({t}) /\ "topic" \in Kinds
    BY <1>1, <1>5 DEF Subject, Kinds
  <2>6. Added("topic", {t}, plan[c].alone)
    BY <1>1, <2>1, <2>5, Inserted DEF PlanIInv
  <2>. QED
    BY <2>2, <2>3, <2>4, <2>5, <2>6, PlannerProposes
<1>12. CASE ReadNews(c)
  <2>1. plan[c].step = "stories" /\ UNCHANGED <<date, setup, props>>
    BY <1>12 DEF ReadNews
  <2>2. CASE plan[c].left <= 0 \/ Candidates = {}
    <3>1. plan' = [plan EXCEPT ![c] = NoPlan]
      BY <1>12, <2>2 DEF ReadNews
    <3>. QED
      BY <1>4, <2>1, <3>1, PlannerMoves
  <2>3. CASE ~(plan[c].left <= 0 \/ Candidates = {})
    <3>. DEFINE r == [plan[c] EXCEPT !.step = "fill", !.from = Candidates]
    <3>1. Candidates \subseteq Story /\ \A a \in Candidates : LongAgo(a)
      BY <1>2, <1>3 DEF Candidates
    <3>2. r \in PlanRow /\ r.step = "fill" /\ r.from = Candidates /\ r.alone = plan[c].alone
      BY <1>1, <3>1 DEF PlanRow
    <3>3. plan' = [plan EXCEPT ![c] = r]
      BY <1>1, <1>12, <2>3 DEF ReadNews
    <3>. HIDE DEF r
    <3>. QED
      BY <2>1, <3>1, <3>2, <3>3, PlannerMoves
  <2>. QED
    BY <2>2, <2>3
<1>13. CASE FillIn(c)
  <2>1. PICK chosen \in SUBSET plan[c].from : Insert("news", chosen, plan[c].alone)
    BY <1>13 DEF FillIn
  <2>2. plan[c].step = "fill" /\ UNCHANGED <<date, setup, told>> /\ plan' = [plan EXCEPT ![c] = NoPlan]
    BY <1>13 DEF FillIn
  <2>3. chosen \subseteq Story /\ chosen \in SUBSET Subject /\ "news" \in Kinds
    BY <1>1, <2>2 DEF OfStories, Subject, Kinds
  <2>4. IsFiniteSet(chosen)
    BY <2>3, FS_Subset DEF Sites
  <2>5. Added("news", chosen, plan[c].alone)
    BY <1>1, <2>1, <2>3, <2>4, Inserted DEF PlanIInv
  <2>. QED
    BY <1>4, <2>2, <2>5, PlannerProposes
<1>14. CASE PlanDies(c)
  <2>1. plan' = [plan EXCEPT ![c] = NoPlan] /\ plan[c].step # "idle" /\ UNCHANGED <<date, setup, props>>
    BY <1>14 DEF PlanDies
  <2>. QED
    BY <1>4, <2>1, PlannerMoves
<1>. QED
  BY <1>6, <1>7, <1>8, <1>9, <1>10, <1>11, <1>12, <1>13, <1>14

LEMMA PlanStep ==
  ASSUME Sites, PlanIInv, [PlanNext]_planVars
  PROVE  PlanIInv'
<1>1. setup.perDay \in Nat /\ RoundMost \in Nat /\ OnlyPerDay \in Nat
  BY DEF PlanIInv, PlansTyped, Sites
<1>2. CASE TickPlans
  <2>1. PICK limit \in Int : Begin("tick", limit)
    BY <1>1, <1>2 DEF TickPlans
  <2>. QED
    BY <2>1, BeginStep DEF Planner
<1>3. CASE \E manual \in BOOLEAN : TopUp(manual)
  <2>1. PICK manual \in BOOLEAN : TopUp(manual)
    BY <1>3
  <2>2. PICK perDay \in Int : perDay = IF setup.only THEN Fewer(setup.perDay, OnlyPerDay) ELSE setup.perDay
    BY <1>1 DEF Fewer
  <2>3. PICK left \in Int : left = IF manual /\ ~setup.only THEN perDay ELSE perDay - MadeToday
    BY DayCounted
  <2>4. Begin("person", left)
    BY <2>1, <2>2, <2>3 DEF TopUp
  <2>. QED
    BY <2>4, BeginStep DEF Planner
<1>4. CASE Ask
  <2>1. "asked" \in Subject /\ IsFiniteSet({"asked"}) /\ "request" \in Kinds
    BY FS_Singleton DEF Subject, Kinds
  <2>2. Added("request", {"asked"}, FALSE)
    BY <1>4, <2>1, Inserted DEF Ask, PlanIInv
  <2>. QED
    BY <1>4, <2>2, PersonAsks DEF Ask
<1>5. CASE \E t \in Story : Titles(t)
  <2>1. PICK t \in Story : Titles(t)
    BY <1>5
  <2>2. t \in Subject /\ IsFiniteSet({t}) /\ "titles" \in Kinds
    BY FS_Singleton DEF Subject, Kinds
  <2>3. Added("titles", {t}, FALSE)
    BY <2>1, <2>2, Inserted DEF Titles, PlanIInv
  <2>. QED
    BY <2>1, <2>3, PersonAsks DEF Titles
<1>6. CASE (\E t \in Story : Told(t)) \/ UNCHANGED planVars
  <2>1. UNCHANGED <<date, setup, props, plan>>
    BY <1>6 DEF Told, planVars
  <2>. QED
    BY <2>1 DEF PlanIInv, PlansTyped, BornBefore, OneAlone, StillNew, Alone, LongAgo, Sole, Planned, NotProposedAgain
<1>. QED
  BY <1>2, <1>3, <1>4, <1>5, <1>6, PlannerStep, DatePassesStep DEF PlanNext

LEMMA PlanTells == PlanIInv => NotProposedAgain
BY DEF PlanIInv

\* "A story proposed to the site is not proposed again for this long"
\* (proposals.plan, picks.fill, evergreen.themes): a story or a theme that a
\* planner alone with the site proposed is not proposed by another such one
\* within NOT_AGAIN days, on any site, whatever news, titles, decisions of
\* people and crashes come between.
THEOREM ProposedOnce == Sites => (PlanSpec => []NotProposedAgain)
<1>. SUFFICES ASSUME Sites
     PROVE  PlanSpec => []NotProposedAgain
  OBVIOUS
<1>. QED
  BY PlanInitHolds, PlanStep, PlanTells, PTL DEF PlanSpec
=============================================================================
