------------------------------- MODULE Texts --------------------------------
(***************************************************************************)
(* The text of one draft in its two forms, and its cover.  The sentences   *)
(* are rows, each with its sources: what the pages and the translations    *)
(* show; the body is the Markdown that is published.  A person corrects    *)
(* sentence by sentence (edit), another writes the whole anew (edit_text), *)
(* the writer's job rewords copied sentences: each reads the draft in one  *)
(* transaction and writes it in another.  The image job draws the cover    *)
(* and gives it to the translations, which copy it when they are written.  *)
(***************************************************************************)
EXTENDS Integers

CONSTANTS Slot,      \* the sentences of the draft
          Wording,   \* what a sentence may say
          Bad,       \* those among them that fail a check (a number not in the sources, a copy)
          MaxSaves, MaxDraws  \* bounds of the exploration

VARIABLES rows,    \* the sentences: `gen` tells apart rows written anew (they have new ids)
          body,    \* the text published
          draft,   \* status, flags and who decided
          at,      \* what each editor read
          saves,   \* how many have saved
          cover, picture   \* the cover of the draft and of its translation; the image job, the translation's

textVars == <<rows, body, draft, at, saves, cover, picture>>

Editor == {"fields", "free", "reword"}
Away == [open |-> FALSE, gen |-> 0, text |-> [i \in Slot |-> "-"], crossed |-> FALSE]

(* check: a sentence fails, and the draft with it.                         *)
Flagged(text) == \E i \in Slot : text[i] \in Bad

TextInit ==
  /\ \E text \in [Slot -> Wording] :
       /\ rows = [gen |-> 0, text |-> text] /\ body = text
       /\ draft = [status |-> IF Flagged(text) THEN "needs_review" ELSE "draft", by |-> "nobody", crossed |-> FALSE]
  /\ at = [e \in Editor |-> Away] /\ saves = 0
  /\ cover = [draft |-> 0, translation |-> 0]
  /\ picture = [job |-> "idle", drawn |-> 0, translation |-> "none", removed |-> FALSE]

images == <<cover, picture>>
texts == <<rows, body, draft, at, saves>>

-----------------------------------------------------------------------------
(* edit, edit_text and reword read the draft: its rows by their ids.       *)
Opens(e) ==
  /\ ~at[e].open /\ saves < MaxSaves
  /\ e = "reword" => Flagged(rows.text)
  /\ at' = [at EXCEPT ![e] = [open |-> TRUE, gen |-> rows.gen, text |-> rows.text, crossed |-> FALSE]]
  /\ UNCHANGED <<rows, body, draft, saves, images>>

(* Who writes leaves the whole body, what the checks say of it, and takes  *)
(* the decision back.  `crossed`: somebody saved since the text was read.  *)
Leaves(e, text) ==
  /\ body' = text
  /\ draft' = [status |-> IF Flagged(text) THEN "needs_review" ELSE "draft", by |-> "nobody",
               crossed |-> draft.crossed \/ at[e].crossed]
  /\ at' = [o \in Editor |-> IF o = e THEN Away ELSE [at[o] EXCEPT !.crossed = @ \/ at[o].open]]
  /\ saves' = saves + 1
  /\ UNCHANGED images

\* A slip: only the flagged sentences are written on their rows.
RewrittenBad(read, text) ==
  [i \in Slot |-> IF read.gen = rows.gen /\ read.text[i] \in Bad THEN text[i] ELSE rows.text[i]]
(* edit: the sentences that changed are written on the rows that were read,*)
(* if they are still there.                                                *)
Rewritten(read, text) ==
  [i \in Slot |-> IF read.gen = rows.gen /\ text[i] # read.text[i] THEN text[i] ELSE rows.text[i]]
SaveFields ==
  /\ at["fields"].open
  /\ \E text \in [Slot -> Wording] :
       rows' = [rows EXCEPT !.text = Rewritten(at["fields"], text)] /\ Leaves("fields", text)

(* reword: the flagged sentences only, when the model's say the same.       *)
Reword ==
  /\ at["reword"].open
  /\ \E text \in [Slot -> Wording \ Bad] :
       LET new == [i \in Slot |-> IF at["reword"].text[i] \in Bad THEN text[i] ELSE at["reword"].text[i]]
       IN rows' = [rows EXCEPT !.text = Rewritten(at["reword"], new)] /\ Leaves("reword", new)
NotReworded ==
  /\ at["reword"].open /\ at' = [at EXCEPT !["reword"] = Away]
  /\ UNCHANGED <<rows, body, draft, saves, images>>

(* edit_text: every row is deleted and written anew.                       *)
SaveFree ==
  /\ at["free"].open
  /\ \E text \in [Slot -> Wording] : rows' = [gen |-> rows.gen + 1, text |-> text] /\ Leaves("free", text)

(* drafts.decide *)
DecideDraft ==
  /\ draft.status \in {"draft", "needs_review"}
  /\ \E s \in {"approved", "rejected"} : draft' = [draft EXCEPT !.status = s, !.by = "person"]
  /\ UNCHANGED <<rows, body, at, saves, images>>

-----------------------------------------------------------------------------
(* images.make, the image job: the new cover replaces the one there was;   *)
(* then, in a transaction of its own, the translations take it.  A crash   *)
(* in between has it drawn again.                                          *)
Draw ==
  /\ picture.drawn < MaxDraws
  /\ cover' = [cover EXCEPT !.draft = picture.drawn + 1]
  /\ picture' = [picture EXCEPT !.drawn = @ + 1, !.job = "copy"]
  /\ UNCHANGED texts

Copied(c) == IF c.draft = 0 THEN c ELSE [c EXCEPT !.translation = c.draft]
CopyCovers ==
  /\ picture.job = "copy"
  /\ cover' = IF picture.translation = "written" THEN Copied(cover) ELSE cover
  /\ picture' = [picture EXCEPT !.job = "idle"]
  /\ UNCHANGED texts

(* ui_image_delete: this draft's cover only.                               *)
RemoveCover ==
  /\ cover.draft # 0 /\ cover' = [cover EXCEPT !.draft = 0]
  /\ picture' = [picture EXCEPT !.removed = TRUE]
  /\ UNCHANGED texts

(* translate: reads the sentences and the cover's words, then stores the   *)
(* translation with the cover its original has then.                       *)
ReadForTranslation ==
  /\ picture.translation = "none"
  /\ picture' = [picture EXCEPT !.translation = "writing"]
  /\ UNCHANGED <<cover, texts>>
StoreTranslation ==
  /\ picture.translation = "writing"
  /\ picture' = [picture EXCEPT !.translation = "written"]
  /\ cover' = Copied(cover)
  /\ UNCHANGED texts

TextNext ==
  \/ SaveFields \/ Reword \/ NotReworded \/ SaveFree \/ DecideDraft
  \/ Draw \/ CopyCovers \/ RemoveCover \/ ReadForTranslation \/ StoreTranslation
  \/ \E e \in Editor : Opens(e)

TextSpec == TextInit /\ [][TextNext]_textVars

-----------------------------------------------------------------------------
(* What is published is what the sentences say: whoever writes, in either  *)
(* form, leaves the two the same, unless it saved over what another saved  *)
(* since it read the draft.                                                *)
BodyIsTheSentences == ~draft.crossed => body = rows.text

(* A translation has its original's cover, drawn before it or after it,    *)
(* unless a person took one away or the image job still has to give it.    *)
SameCover ==
  picture.translation = "written" /\ picture.job = "idle" /\ ~picture.removed
    => cover.translation = cover.draft
=============================================================================
