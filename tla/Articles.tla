------------------------------ MODULE Articles ------------------------------
(***************************************************************************)
(* An article of the automatic newsroom, from the accepted proposal to the *)
(* site (work.auto, evening, translation; drafts, autopilot.finish): one   *)
(* job writes it, has it read by the AI editor-in-chief, corrects it where *)
(* it stands, writes it again, approves and publishes it, in transactions  *)
(* with model calls of minutes between them.  Jobs of different proposals  *)
(* run together, and the people of the newsroom work on the same drafts.   *)
(***************************************************************************)
EXTENDS Naturals

CONSTANTS News,       \* accepted proposals, all telling the same story
          Evening,    \* the day's evening analysis, if any
          MaxVersion, \* bound of the exploration: versions of an article
          FixRounds,  \* FIX_ROUNDS: times it is written again
          MaxUpsets   \* bound: crashes and what people do

Piece == News \cup Evening
Version == 1..MaxVersion

VARIABLES on,          \* the automatic newsroom is enabled
          fix,         \* on_problem is fix: nothing waits for a person
          draft,       \* drafts, by proposal and version
          job,         \* the `auto` or `evening` job of each, with what it carries
          translation, \* the translation and its job
          mishaps

articleVars == <<on, fix, draft, job, translation, mishaps>>

\* `vouched`: who let through the text as it is; `sent`: who had, when it was sent.
NoDraft == [status |-> "none", by |-> "nobody", vouched |-> "nobody", held |-> FALSE, sent |-> "none", ofJob |-> FALSE]
NewDraft(s) == [NoDraft EXCEPT !.status = s]
Open == {"draft", "needs_review"}
Stands(row) == row.status \notin {"none", "gone"}
NewJob == [step |-> "queued", v |-> 0, corrected |-> FALSE, plain |-> FALSE, rounds |-> 0, again |-> FALSE]
NoTranslation == [step |-> "none", auto |-> FALSE, of |-> 0, text |-> "nobody", draft |-> NoDraft]

AskedFor(asked) ==
  /\ on = TRUE /\ fix \in BOOLEAN
  /\ draft = [p \in Piece |-> [v \in Version |-> NoDraft]]
  /\ job = [p \in Piece |-> [NewJob EXCEPT !.step = IF p \in asked THEN "queued" ELSE "done"]]
  /\ translation = [p \in Piece |-> NoTranslation]
  /\ mishaps = 0
ArticlesInit == AskedFor(Piece)

Of(p) == draft[p][job[p].v]
Put(p, row) == draft' = [draft EXCEPT ![p][job[p].v] = row]
Step(p, s) == job' = [job EXCEPT ![p].step = s]
\* drafts.decide: one that was decided already stays as it is.
Decided(row, status, by) == IF row.status \in Open THEN [row EXCEPT !.status = status, !.by = by] ELSE row
\* edit and edit_text: the text is checked, and its decision is undone.
Edited(row, s, who) == [row EXCEPT !.status = s, !.by = "nobody", !.vouched = who]
Mishap == mishaps < MaxUpsets /\ mishaps' = mishaps + 1

\* _stop: discarded, or held for a person.
Stop(p, discard) ==
  /\ Put(p, IF discard THEN Decided(Of(p), "rejected", "auto") ELSE [Of(p) EXCEPT !.held = TRUE])
  /\ Step(p, "done")

-----------------------------------------------------------------------------
(* write_draft and evening.write: a version of its own, under the lock of  *)
(* the proposal's versions; no article when its news are too thin.  A      *)
(* failed rewriting leaves the article discarded.                          *)
Written(p) == {v \in Version : draft[p][v].status # "none"}
NextVersion(p) == IF Written(p) = {} THEN 1 ELSE 1 + CHOOSE v \in Written(p) : \A w \in Written(p) : w <= v

Write(p) ==
  /\ job[p].step \in {"queued", "rewrite"}
  /\ \/ /\ NextVersion(p) \in Version /\ draft[p][NextVersion(p)] = NoDraft
        /\ \E s \in Open : draft' = [draft EXCEPT ![p][NextVersion(p)] = [NewDraft(s) EXCEPT !.ofJob = TRUE]]
        /\ job' = [job EXCEPT ![p].step = "start", ![p].v = NextVersion(p), ![p].corrected = FALSE]
     \/ /\ UNCHANGED draft
        /\ \E s \in {"done", "failed"} : Step(p, s)
  /\ UNCHANGED <<on, fix, translation, mishaps>>

(* told_already: another proposal's article of the same story is approved. *)
ToldAlready(p) ==
  p \in News /\ \E q \in News \ {p}, v \in Version : draft[q][v].status = "approved"

(* finish, up to the editor-in-chief: an article of a newsroom that was    *)
(* switched off, or of a story already told, stops; flagged sentences are  *)
(* cut; what the checks find goes to be corrected.                         *)
Start(p) ==
  /\ job[p].step = "start"
  /\ IF ~Stands(Of(p)) THEN Step(p, "failed") /\ UNCHANGED draft
     ELSE IF ~on THEN Stop(p, FALSE)
     ELSE IF ToldAlready(p) THEN Stop(p, fix)
     ELSE \/ Stop(p, fix)     \* a subject to avoid
          \/ Step(p, IF Of(p).status = "needs_review" THEN "mend" ELSE "judge") /\ UNCHANGED draft
          \/ Step(p, "mend") /\ UNCHANGED draft     \* too few outlets cited
          \/ /\ fix
             /\ \E s \in Open : /\ Put(p, Edited(Of(p), s, "nobody"))
                                /\ Step(p, IF s = "needs_review" THEN "mend" ELSE "judge")
  /\ UNCHANGED <<on, fix, translation, mishaps>>

\* What was written since the verdict was asked is not the editor's word.
Passed(row) == IF row.vouched = "person" THEN row ELSE [row EXCEPT !.vouched = "editor"]

(* editor_check: no answer, a repetition, a refusal; or it passes, perhaps *)
(* without a few sentences.                                                *)
Judge(p) ==
  /\ job[p].step = "judge"
  /\ \/ Stop(p, FALSE)
     \/ p \in News /\ Stop(p, fix)
     \/ Step(p, "mend") /\ UNCHANGED draft
     \/ Put(p, IF ~Stands(Of(p)) THEN Of(p) ELSE Passed(Of(p))) /\ Step(p, "send")
     \/ /\ fix /\ Stands(Of(p))
        /\ \E s \in Open : /\ Put(p, Edited(Of(p), s, Passed(Of(p)).vouched))
                           /\ Step(p, IF s = "needs_review" THEN "mend" ELSE "send")
  /\ UNCHANGED <<on, fix, translation, mishaps>>

(* correct, once: the article is corrected where it stands, over what a    *)
(* person wrote meanwhile, and read again.                                 *)
\* A slip: the corrected article goes out without being read again.
CorrectAndGo(p) ==
  /\ job[p].step = "mend" /\ fix /\ ~job[p].corrected /\ Stands(Of(p))
  /\ \E s \in Open : Put(p, Edited(Of(p), s, "nobody"))
  /\ job' = [job EXCEPT ![p].step = "send", ![p].corrected = TRUE]
  /\ UNCHANGED <<on, fix, translation, mishaps>>

Correct(p) ==
  /\ job[p].step = "mend" /\ fix /\ ~job[p].corrected /\ Stands(Of(p))
  /\ \E s \in Open : Put(p, Edited(Of(p), s, "nobody"))
  /\ job' = [job EXCEPT ![p].step = "start", ![p].corrected = TRUE]
  /\ UNCHANGED <<on, fix, translation, mishaps>>

(* The evening analysis takes its name and date as its headline, once.     *)
PlainHeadline(p) ==
  /\ job[p].step = "mend" /\ fix /\ p \in Evening /\ Stands(Of(p)) /\ ~job[p].plain
  /\ \E s \in Open : Put(p, Edited(Of(p), s, "nobody"))
  /\ job' = [job EXCEPT ![p].step = "start", ![p].corrected = TRUE, ![p].plain = TRUE]
  /\ UNCHANGED <<on, fix, translation, mishaps>>

(* What was not corrected waits for a person, or is discarded and written  *)
(* again once; the evening analysis is not discarded in the end.           *)
RoundsSpent(p) == job[p].rounds >= FixRounds

\* A slip: it is written again without the first version being discarded.
GiveUpOrKeep(p) ==
  /\ job[p].step = "mend"
  /\ IF ~fix THEN Stop(p, FALSE)
     ELSE IF RoundsSpent(p) THEN Stop(p, p \in News)
     ELSE /\ UNCHANGED draft
          /\ job' = [job EXCEPT ![p].step = "rewrite", ![p].rounds = @ + 1]
  /\ UNCHANGED <<on, fix, translation, mishaps>>

GiveUpOrRewrite(p) ==
  /\ job[p].step = "mend"
  /\ IF ~fix THEN Stop(p, FALSE)
     ELSE IF RoundsSpent(p) THEN Stop(p, p \in News)
     ELSE /\ Put(p, Decided(Of(p), "rejected", "auto"))
          /\ job' = [job EXCEPT ![p].step = "rewrite", ![p].rounds = @ + 1, ![p].plain = FALSE]
  /\ UNCHANGED <<on, fix, translation, mishaps>>

(* _send, after the cover: the label and the approval, whatever was done   *)
(* to the draft since it was read.                                         *)
Approve(p) ==
  /\ job[p].step = "send"
  /\ IF ~Stands(Of(p)) THEN Step(p, "failed") /\ UNCHANGED draft
     ELSE Put(p, Decided(Of(p), "approved", "auto")) /\ Step(p, "publish")
  /\ UNCHANGED <<on, fix, translation, mishaps>>

(* publishing.request refuses what is not approved, or was asked already;  *)
(* then the translations.                                                  *)
Sent(row) == [row EXCEPT !.sent = row.vouched]
Publish(p) ==
  LET sent == Of(p).status = "approved" /\ Of(p).sent = "none"
  IN /\ job[p].step = "publish"
     /\ IF sent THEN Put(p, Sent(Of(p))) ELSE UNCHANGED draft
     /\ Step(p, IF sent THEN "done" ELSE "failed")
     /\ translation' = IF sent /\ translation[p].step = "none"
                       THEN [translation EXCEPT ![p].step = "queued", ![p].of = job[p].v, ![p].auto = TRUE] ELSE translation
     /\ UNCHANGED <<on, fix, mishaps>>

(* The worker dies: the job starts again with a version of its own (the    *)
(* evening analysis with a proposal of its own, here a version too).       *)
Crash(p) ==
  /\ job[p].step \notin {"queued", "done", "failed"} /\ Mishap
  /\ job' = [job EXCEPT ![p] = [NewJob EXCEPT !.again = TRUE]]
  /\ UNCHANGED <<on, fix, draft, translation>>

-----------------------------------------------------------------------------
(* translate: the original's text is read, and the translation stored      *)
(* after the model answered.                                               *)
ReadOriginal(p) ==
  LET t == translation[p]
  IN /\ t.step = "queued"
     /\ translation' = [translation EXCEPT ![p].step = IF ~Stands(draft[p][t.of]) THEN "failed" ELSE "writing",
                                           ![p].text = draft[p][t.of].vouched]
     /\ UNCHANGED <<on, fix, draft, job, mishaps>>

StoreTranslation(p) ==
  /\ translation[p].step = "writing"
  /\ \/ \E s \in Open :
          translation' = [translation EXCEPT ![p].step = "finish", ![p].draft = [NewDraft(s) EXCEPT !.vouched = translation[p].text]]
     \/ translation' = [translation EXCEPT ![p].step = "failed"]
  /\ UNCHANGED <<on, fix, draft, job, mishaps>>

(* finish_translation, or the translation waits for the director: asked by *)
(* hand it goes out only when the newsroom approved the original (owns).   *)
Owns(p) == on /\ draft[p][translation[p].of].by = "auto"
FinishTranslation(p) ==
  LET t == translation[p]
      row == t.draft
      stops == ~on \/ row.status = "needs_review"
      next == IF ~t.auto /\ ~Owns(p) THEN row
              ELSE IF stops THEN IF on /\ fix THEN Decided(row, "rejected", "auto") ELSE [row EXCEPT !.held = TRUE]
              ELSE Sent(Decided(row, "approved", "auto"))
  IN /\ t.step = "finish"
     /\ translation' = [translation EXCEPT ![p].step = "done", ![p].draft = next]
     /\ UNCHANGED <<on, fix, draft, job, mishaps>>

-----------------------------------------------------------------------------
(* What people do with any draft, at any time. *)

(* ui_edit_draft *)
Edit(p, v) ==
  /\ Stands(draft[p][v]) /\ Mishap
  /\ \E s \in Open : draft' = [draft EXCEPT ![p][v] = Edited(@, s, "person")]
  /\ UNCHANGED <<on, fix, job, translation>>

(* ui_draft_decision: an approval asks for the translations.               *)
Decide(p, v) ==
  /\ draft[p][v].status \in Open /\ Mishap
  /\ \E s \in {"approved", "rejected"} :
       /\ draft' = [draft EXCEPT ![p][v] = [Decided(@, s, "person") EXCEPT !.vouched = "person"]]
       /\ translation' = IF s = "approved" /\ translation[p].step = "none"
                         THEN [translation EXCEPT ![p].step = "queued", ![p].of = v] ELSE translation
  /\ UNCHANGED <<on, fix, job>>

(* ui_redo_draft: another version for the director (job `draft`).          *)
Redo(p) ==
  /\ (\E v \in Version : Stands(draft[p][v])) /\ NextVersion(p) \in Version /\ Mishap
  /\ \E s \in Open : draft' = [draft EXCEPT ![p][NextVersion(p)] = NewDraft(s)]
  /\ UNCHANGED <<on, fix, job, translation>>

(* ui_delete_draft; its row is gone and no other has its id.               *)
Delete(p, v) ==
  /\ Stands(draft[p][v]) /\ draft[p][v].sent = "none" /\ Mishap
  /\ draft' = [draft EXCEPT ![p][v] = [NoDraft EXCEPT !.status = "gone"]]
  /\ UNCHANGED <<on, fix, job, translation>>

(* ui_auto, ui_auto_stop *)
Switch ==
  /\ Mishap /\ on' = ~on
  /\ UNCHANGED <<fix, draft, job, translation>>

JobSteps(p) ==
  \/ Write(p) \/ Start(p) \/ Judge(p) \/ Correct(p) \/ PlainHeadline(p) \/ GiveUpOrRewrite(p)
  \/ Approve(p) \/ Publish(p) \/ Crash(p)
TranslationSteps(p) == ReadOriginal(p) \/ StoreTranslation(p) \/ FinishTranslation(p)
People(p) == Redo(p) \/ \E v \in Version : Edit(p, v) \/ Decide(p, v) \/ Delete(p, v)

ArticlesNext == Switch \/ \E p \in Piece : JobSteps(p) \/ TranslationSteps(p) \/ People(p)
ArticlesSpec == ArticlesInit /\ [][ArticlesNext]_articleVars

-----------------------------------------------------------------------------
(* Every draft and job holds what the code may write in it. *)
ArticlesTypeOK ==
  /\ draft \in [Piece -> [Version -> [status : {"none", "gone", "approved", "rejected"} \cup Open,
                 by : {"nobody", "auto", "person"}, vouched : {"nobody", "editor", "person"}, held : BOOLEAN,
                 sent : {"none", "nobody", "editor", "person"}, ofJob : BOOLEAN]]]
  /\ \A p \in Piece : job[p].v \in 0..MaxVersion /\ job[p].rounds <= FixRounds

(* Nothing goes out by itself whose text neither the editor-in-chief nor a *)
(* person let through: corrected, cut, written again or translated, with   *)
(* people at work on the same draft, each text was read as it is.  Not so  *)
(* a translation asked by hand while the job corrects the original.        *)
PassedGoesOut ==
  \A p \in Piece : /\ translation[p].auto => translation[p].draft.sent # "nobody"
                  /\ \A v \in Version : draft[p][v].sent # "nobody"

(* "With on_problem fix nothing waits for a person": a job that ended      *)
(* leaves its versions approved or discarded, save those it held and those *)
(* a person edited; a crash leaves the version it was at.                  *)
NothingWaits ==
  \A p \in Piece : fix /\ job[p].step = "done" /\ ~job[p].again =>
    \A v \in Version : LET d == draft[p][v]
                       IN d.ofJob /\ d.status \in Open => d.held \/ d.vouched = "person"
=============================================================================
