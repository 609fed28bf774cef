--------------------------- MODULE ArticlesProofs ---------------------------
(***************************************************************************)
(* What the automatic newsroom lets out, for any number of proposals, of   *)
(* versions of an article, of rewritings and of what people do meanwhile.  *)
(***************************************************************************)
EXTENDS Articles, TLAPS, WellFoundedInduction

(***************************************************************************)
(* Tables and jobs.                                                        *)
(***************************************************************************)
Who == {"nobody", "editor", "person"}
Row == [status : {"none", "gone", "approved", "rejected"} \cup Open, by : {"nobody", "auto", "person"},
        vouched : Who, held : BOOLEAN, sent : {"none"} \cup Who, ofJob : BOOLEAN]
InHand == {"start", "judge", "mend", "send"}
JobRow == [step : InHand \cup {"queued", "rewrite", "publish", "done", "failed"}, v : 0..MaxVersion,
           corrected : BOOLEAN, plain : BOOLEAN, rounds : 0..FixRounds, again : BOOLEAN]
TranslationRow == [step : {"none", "queued", "writing", "finish", "done", "failed"}, auto : BOOLEAN,
                   of : 0..MaxVersion, text : Who, draft : Row]
ArticleTables ==
  /\ fix \in BOOLEAN
  /\ draft \in [Piece -> [Version -> Row]]
  /\ job \in [Piece -> JobRow]
  /\ translation \in [Piece -> TranslationRow]

(***************************************************************************)
(* What holds of one article.  Its job holds a version that was written,   *)
(* and sends it when somebody let it through; what a job that ended left   *)
(* waits for nobody; a translation the job asked for is of a text that     *)
(* went out, and has its word.                                             *)
(***************************************************************************)
RowOK(row) == row.sent # "nobody" /\ (row.status = "approved" => row.vouched # "nobody")
WaitsForNobody(row) == row.ofJob /\ row.status \in Open => row.held \/ row.vouched = "person"
AutoOK(d, t) ==
  /\ t.draft.sent # "nobody"
  /\ t.step = "queued" => /\ d[t.of].vouched # "nobody" /\ d[t.of].sent # "none"
                          /\ d[t.of].status # "none"
  /\ t.step = "writing" => t.text # "nobody"
  /\ t.step = "finish" => t.draft.vouched # "nobody"
AskedOK(t) == (t.step = "none" => ~t.auto /\ t.draft = NoDraft) /\ (t.step = "queued" => t.of \in Version)
PieceOK(d, j, t) ==
  /\ \A v \in Version : RowOK(d[v])
  /\ j.step \in InHand \cup {"publish"} => j.v \in Version /\ d[j.v].status # "none"
  /\ j.step = "send" /\ Stands(d[j.v]) => d[j.v].vouched # "nobody"
  /\ fix /\ ~j.again => \A v \in Version : WaitsForNobody(d[v]) \/ (v = j.v /\ j.step \in InHand)
  /\ AskedOK(t)
  /\ t.auto => j.step = "done" /\ AutoOK(d, t)
ArticlesIInv == ArticleTables /\ \A p \in Piece : PieceOK(draft[p], job[p], translation[p])

Bounds == MaxVersion \in Nat /\ FixRounds \in Nat

-----------------------------------------------------------------------------
\* Every change of a row gives a row, and says what it says.
LEMMA NewDrafts ==
  /\ NoDraft \in Row
  /\ \A s \in Open : /\ NewDraft(s) \in Row /\ [NewDraft(s) EXCEPT !.ofJob = TRUE] \in Row
                      /\ NewDraft(s).status = s /\ NewDraft(s).sent = "none" /\ ~NewDraft(s).ofJob
                      /\ NewDraft(s).vouched = "nobody"
  BY DEF Row, NoDraft, NewDraft, Open, Who

LEMMA Holds ==
  ASSUME NEW row \in Row
  PROVE  /\ [row EXCEPT !.held = TRUE] \in Row
         /\ RowOK(row) => RowOK([row EXCEPT !.held = TRUE])
         /\ [row EXCEPT !.held = TRUE].status = row.status
         /\ WaitsForNobody([row EXCEPT !.held = TRUE])
  BY DEF Row, RowOK, WaitsForNobody

LEMMA Passes ==
  ASSUME NEW row \in Row
  PROVE  /\ Passed(row) \in Row /\ Passed(row).status = row.status /\ Passed(row).vouched \in Who \ {"nobody"}
         /\ RowOK(row) => RowOK(Passed(row))
  BY DEF Row, RowOK, Who, Passed

LEMMA Sends ==
  ASSUME NEW row \in Row
  PROVE  /\ Sent(row) \in Row /\ Sent(row).status = row.status /\ Sent(row).sent = row.vouched
         /\ Sent(row).vouched = row.vouched /\ Sent(row).sent # "none"
         /\ WaitsForNobody(row) => WaitsForNobody(Sent(row))
  BY DEF Row, Who, Sent, WaitsForNobody

LEMMA Decides ==
  ASSUME NEW row \in Row, NEW s \in {"approved", "rejected"}, NEW who \in {"auto", "person"}
  PROVE  /\ Decided(row, s, who) \in Row /\ Decided(row, s, who).status \notin Open
         /\ Decided(row, s, who).status = (IF row.status \in Open THEN s ELSE row.status)
         /\ Decided(row, s, who).vouched = row.vouched /\ Decided(row, s, who).sent = row.sent
  <1>1. CASE row.status \in Open  BY <1>1 DEF Row, Decided, Open
  <1>2. CASE row.status \notin Open  BY <1>2 DEF Row, Decided, Open
  <1>3. QED  BY <1>1, <1>2

LEMMA Edits ==
  ASSUME NEW row \in Row, NEW s \in Open, NEW who \in Who
  PROVE  /\ Edited(row, s, who) \in Row /\ Edited(row, s, who).status = s
         /\ Edited(row, s, who).vouched = who /\ Edited(row, s, who).sent = row.sent
         /\ RowOK(row) => RowOK(Edited(row, s, who))
  BY DEF Row, RowOK, Open, Who, Edited

LEMMA NewRows ==
  ASSUME Bounds
  PROVE  /\ NoTranslation \in TranslationRow /\ NewJob \in JobRow
         /\ NewJob.step = "queued" /\ ~NewJob.again /\ ~NoTranslation.auto
  BY NewDrafts DEF Bounds, NoTranslation, TranslationRow, NewJob, JobRow, Who

\* A step of one article leaves the others as they were.
LEMMA OnePiece ==
  ASSUME ArticlesIInv, NEW p \in Piece, NEW d \in [Version -> Row], NEW j \in JobRow, NEW t \in TranslationRow,
         PieceOK(d, j, t), fix' = fix, draft' = [draft EXCEPT ![p] = d],
         job' = [job EXCEPT ![p] = j], translation' = [translation EXCEPT ![p] = t]
  PROVE  ArticlesIInv'
  <1>1. ArticleTables'  BY DEF ArticlesIInv, ArticleTables
  <1>2. ASSUME NEW q \in Piece PROVE PieceOK(draft[q], job[q], translation[q])'
    <2>1. CASE q = p
      <3>1. draft'[q] = d /\ job'[q] = j /\ translation'[q] = t  BY <2>1 DEF ArticlesIInv, ArticleTables
      <3>2. QED  BY <3>1 DEF PieceOK, AutoOK
    <2>2. CASE q # p
      <3>1. draft'[q] = draft[q] /\ job'[q] = job[q] /\ translation'[q] = translation[q]
        BY <2>2 DEF ArticlesIInv, ArticleTables
      <3>2. PieceOK(draft[q], job[q], translation[q])  BY DEF ArticlesIInv
      <3>3. QED  BY <3>1, <3>2 DEF PieceOK, AutoOK
    <2>3. QED  BY <2>1, <2>2
  <1>3. QED  BY <1>1, <1>2 DEF ArticlesIInv

\* What is known of the article that steps.
LEMMA ThisPiece ==
  ASSUME ArticlesIInv, NEW p \in Piece
  PROVE  /\ draft[p] \in [Version -> Row] /\ job[p] \in JobRow /\ translation[p] \in TranslationRow
         /\ PieceOK(draft[p], job[p], translation[p]) /\ fix \in BOOLEAN
         /\ UNCHANGED draft => draft' = [draft EXCEPT ![p] = draft[p]]
         /\ UNCHANGED job => job' = [job EXCEPT ![p] = job[p]]
         /\ UNCHANGED translation => translation' = [translation EXCEPT ![p] = translation[p]]
  BY DEF ArticlesIInv, ArticleTables

\* The version at hand is written over, and the job goes on.
LEMMA PutStep ==
  ASSUME ArticlesIInv, NEW p \in Piece, NEW row \in Row, NEW j \in JobRow, NEW s,
         job[p].step = s, s \in InHand,
         Put(p, row), job' = [job EXCEPT ![p] = j], UNCHANGED <<fix, translation>>,
         j.v = job[p].v, j.again = job[p].again,
         RowOK(row), row.status # "none",
         j.step = "send" /\ Stands(row) => row.vouched # "nobody",
         j.step \in InHand \/ (fix => WaitsForNobody(row))
  PROVE  ArticlesIInv'
  <1> DEFINE d == [draft[p] EXCEPT ![job[p].v] = row]
  <1>1. /\ draft[p] \in [Version -> Row] /\ job[p] \in JobRow /\ translation[p] \in TranslationRow
        /\ PieceOK(draft[p], job[p], translation[p])
        /\ translation' = [translation EXCEPT ![p] = translation[p]]
    BY ThisPiece
  <1>2. job[p].v \in Version /\ ~translation[p].auto  BY <1>1 DEF PieceOK, InHand
  <1>3. /\ d \in [Version -> Row] /\ d[job[p].v] = row
        /\ \A v \in Version : v # job[p].v => d[v] = draft[p][v]
    BY <1>1, <1>2
  <1>4. draft' = [draft EXCEPT ![p] = d]  BY <1>1 DEF Put, ArticlesIInv, ArticleTables
  <1> HIDE DEF d
  <1>5. PieceOK(d, j, translation[p])  BY <1>1, <1>2, <1>3 DEF PieceOK
  <1>6. QED  BY <1>1, <1>3, <1>4, <1>5, OnePiece

\* The job goes on with the drafts as they are.
LEMMA GoStep ==
  ASSUME ArticlesIInv, NEW p \in Piece, NEW j \in JobRow,
         UNCHANGED <<draft, fix, translation>>, job' = [job EXCEPT ![p] = j], job[p].step # "done",
         (fix => j.again) \/ (j.v = job[p].v /\ j.again = job[p].again),
         j.step \in InHand \cup {"publish"} => j.v = job[p].v /\ job[p].step \in InHand,
         j.step = "send" => job[p].step = "send",
         j.step \in InHand \/ job[p].step \notin InHand \/ j.again \/ (fix => WaitsForNobody(Of(p)))
  PROVE  ArticlesIInv'
  <1>1. /\ draft[p] \in [Version -> Row] /\ job[p] \in JobRow /\ translation[p] \in TranslationRow
        /\ PieceOK(draft[p], job[p], translation[p])
        /\ draft' = [draft EXCEPT ![p] = draft[p]]
        /\ translation' = [translation EXCEPT ![p] = translation[p]]
    BY ThisPiece
  <1>2. PieceOK(draft[p], j, translation[p])
    <2>1. ~translation[p].auto  BY <1>1 DEF PieceOK
    <2>2. j.step \in InHand \cup {"publish"} => j.v \in Version /\ draft[p][j.v].status # "none"
      BY <1>1 DEF PieceOK
    <2>3. j.step = "send" /\ Stands(draft[p][j.v]) => draft[p][j.v].vouched # "nobody"
      BY <1>1 DEF PieceOK, InHand
    <2>4. ASSUME fix, ~j.again, NEW v \in Version
          PROVE  WaitsForNobody(draft[p][v]) \/ (v = j.v /\ j.step \in InHand)
      <3>1. j.v = job[p].v /\ ~job[p].again  BY <2>4
      <3>2. WaitsForNobody(draft[p][v]) \/ (v = job[p].v /\ job[p].step \in InHand)
        BY <1>1, <2>4, <3>1 DEF PieceOK
      <3>3. j.step \in InHand \/ job[p].step \notin InHand \/ WaitsForNobody(Of(p))  BY <2>4
      <3>4. QED  BY <3>1, <3>2, <3>3 DEF Of
    <2>5. QED  BY <1>1, <2>1, <2>2, <2>3, <2>4 DEF PieceOK
  <1>3. QED  BY <1>1, <1>2, OnePiece

LEMMA Steps ==
  ASSUME ArticlesIInv, NEW p \in Piece, NEW s \in InHand \cup {"publish", "done", "failed"}
  PROVE  /\ [job[p] EXCEPT !.step = s] \in JobRow /\ [job[p] EXCEPT !.step = s].step = s
         /\ [job[p] EXCEPT !.step = s].v = job[p].v /\ [job[p] EXCEPT !.step = s].again = job[p].again
         /\ Step(p, s) => job' = [job EXCEPT ![p] = [job[p] EXCEPT !.step = s]]
  BY ThisPiece DEF JobRow, Step, ArticlesIInv, ArticleTables

\* What the job has in hand.
LEMMA AtHand ==
  ASSUME ArticlesIInv, NEW p \in Piece, job[p].step \in InHand \cup {"publish"}
  PROVE  /\ Of(p) \in Row /\ RowOK(Of(p)) /\ Of(p).status # "none" /\ job[p].v \in Version
         /\ job[p].step \in {"send", "publish"} /\ Of(p).status = "approved" => Of(p).vouched # "nobody"
         /\ job[p].step = "send" /\ Stands(Of(p)) => Of(p).vouched # "nobody"
         /\ fix /\ ~job[p].again /\ job[p].step = "publish" => WaitsForNobody(Of(p))
  <1>1. PieceOK(draft[p], job[p], translation[p]) /\ draft[p] \in [Version -> Row] /\ job[p] \in JobRow
    BY ThisPiece
  <1>2. job[p].v \in Version /\ Of(p) \in Row /\ RowOK(Of(p)) /\ Of(p).status # "none"
    BY <1>1 DEF PieceOK, Of
  <1>3. job[p].step = "send" /\ Stands(Of(p)) => Of(p).vouched # "nobody"  BY <1>1 DEF PieceOK, Of
  <1>4. fix /\ ~job[p].again /\ job[p].step = "publish" => WaitsForNobody(Of(p))
    BY <1>1, <1>2 DEF PieceOK, Of, InHand
  <1>5. QED  BY <1>2, <1>3, <1>4 DEF RowOK

\* The job goes on, with the drafts as they are or with another row.
LEMMA HandOn ==
  ASSUME ArticlesIInv, NEW p \in Piece, NEW s \in InHand, Step(p, s), UNCHANGED <<draft, fix, translation>>,
         job[p].step \in InHand, s = "send" => job[p].step = "send"
  PROVE  ArticlesIInv'
  <1> DEFINE j == [job[p] EXCEPT !.step = s]
  <1>1. j \in JobRow /\ j.step = s /\ j.v = job[p].v /\ j.again = job[p].again /\ job' = [job EXCEPT ![p] = j]
    BY Steps
  <1> HIDE DEF j
  <1>2. job[p].step # "done"  BY DEF InHand
  <1>3. QED  BY <1>1, <1>2, GoStep

LEMMA PutOn ==
  ASSUME ArticlesIInv, NEW p \in Piece, NEW row \in Row, NEW s \in InHand, Put(p, row), Step(p, s),
         UNCHANGED <<fix, translation>>, job[p].step \in InHand, RowOK(row), row.status # "none",
         s = "send" /\ Stands(row) => row.vouched # "nobody"
  PROVE  ArticlesIInv'
  <1> DEFINE j == [job[p] EXCEPT !.step = s]
  <1>1. j \in JobRow /\ j.step = s /\ j.v = job[p].v /\ j.again = job[p].again /\ job' = [job EXCEPT ![p] = j]
    BY Steps
  <1> HIDE DEF j
  <1>2. QED  BY <1>1, PutStep

\* The job stops: its article is discarded or held.
LEMMA StopStep ==
  ASSUME ArticlesIInv, NEW p \in Piece, NEW discard \in BOOLEAN, Stop(p, discard), UNCHANGED <<fix, translation>>,
         job[p].step \in InHand
  PROVE  ArticlesIInv'
  <1> DEFINE row == IF discard THEN Decided(Of(p), "rejected", "auto") ELSE [Of(p) EXCEPT !.held = TRUE]
             j == [job[p] EXCEPT !.step = "done"]
  <1>1. Of(p) \in Row /\ RowOK(Of(p)) /\ Of(p).status # "none"  BY AtHand
  <1>2. row \in Row /\ RowOK(row) /\ row.status # "none" /\ WaitsForNobody(row)
    <2>1. CASE discard
      <3>1. row = Decided(Of(p), "rejected", "auto")  BY <2>1
      <3>2. /\ row \in Row /\ row.status \notin Open /\ row.vouched = Of(p).vouched /\ row.sent = Of(p).sent
            /\ row.status = (IF Of(p).status \in Open THEN "rejected" ELSE Of(p).status)
        BY <1>1, <3>1, Decides
      <3> HIDE DEF row
      <3>3. QED  BY <1>1, <3>2 DEF RowOK, WaitsForNobody
    <2>2. CASE ~discard
      <3>1. row = [Of(p) EXCEPT !.held = TRUE]  BY <2>2
      <3>2. QED  BY <1>1, <3>1, Holds
    <2>3. QED  BY <2>1, <2>2
  <1>3. j \in JobRow /\ j.step = "done" /\ j.v = job[p].v /\ j.again = job[p].again /\ job' = [job EXCEPT ![p] = j]
    BY Steps DEF Stop
  <1>4. Put(p, row)  BY DEF Stop
  <1> HIDE DEF row, j
  <1>5. QED  BY <1>2, <1>3, <1>4, PutStep DEF InHand

\* It fails for want of its article.
LEMMA FailStep ==
  ASSUME ArticlesIInv, NEW p \in Piece, Step(p, "failed"), UNCHANGED <<draft, fix, translation>>,
         job[p].step \in InHand, ~Stands(Of(p))
  PROVE  ArticlesIInv'
  <1> DEFINE j == [job[p] EXCEPT !.step = "failed"]
  <1>1. j \in JobRow /\ j.step = "failed" /\ j.v = job[p].v /\ j.again = job[p].again /\ job' = [job EXCEPT ![p] = j]
    BY Steps
  <1> HIDE DEF j
  <1>2. WaitsForNobody(Of(p))  BY DEF Stands, WaitsForNobody, Open
  <1>3. j.step \notin InHand \cup {"publish"} /\ j.step # "send" /\ job[p].step # "done"  BY <1>1 DEF InHand
  <1>4. QED  BY <1>1, <1>2, <1>3, GoStep

-----------------------------------------------------------------------------
\* What is read or corrected is still there, with the word of who wrote it.
LEMMA EditStep ==
  ASSUME ArticlesIInv, NEW p \in Piece, NEW st \in Open, NEW who \in Who, NEW s \in InHand,
         Put(p, Edited(Of(p), st, who)), Step(p, s), UNCHANGED <<fix, translation>>, job[p].step \in InHand,
         s = "send" => who # "nobody"
  PROVE  ArticlesIInv'
  <1> DEFINE row == Edited(Of(p), st, who)
  <1>1. Of(p) \in Row /\ RowOK(Of(p))  BY AtHand
  <1>2. row \in Row /\ RowOK(row) /\ row.status = st /\ row.vouched = who  BY <1>1, Edits
  <1>3. Put(p, row) /\ st # "none"  BY DEF Open
  <1> HIDE DEF row
  <1>4. QED  BY <1>2, <1>3, PutOn

LEMMA StartStep == ASSUME ArticlesIInv, NEW p \in Piece, Start(p) PROVE ArticlesIInv'
  <1>1. job[p].step \in InHand /\ job[p].step # "send" /\ UNCHANGED <<fix, translation>>  BY DEF Start, InHand
  <1>2. fix \in BOOLEAN  BY DEF ArticlesIInv, ArticleTables
  <1>3. CASE ~Stands(Of(p))  BY <1>1, <1>3, FailStep DEF Start
  <1>4. CASE Stop(p, FALSE) \/ Stop(p, fix)  BY <1>1, <1>2, <1>4, StopStep
  <1>5. ASSUME NEW s \in {"mend", "judge"}, Step(p, s), UNCHANGED draft PROVE ArticlesIInv'
    BY <1>1, <1>5, HandOn DEF InHand
  <1>6. ASSUME NEW st \in Open, NEW s \in {"mend", "judge"}, Put(p, Edited(Of(p), st, "nobody")), Step(p, s)
        PROVE ArticlesIInv'
    <2>1. s \in InHand /\ s # "send" /\ "nobody" \in Who  BY DEF InHand, Who
    <2>2. QED  BY <1>1, <1>6, <2>1, EditStep
  <1>7. QED  BY <1>3, <1>4, <1>5, <1>6 DEF Start

LEMMA JudgeStep == ASSUME ArticlesIInv, NEW p \in Piece, Judge(p) PROVE ArticlesIInv'
  <1>1. job[p].step \in InHand /\ job[p].step # "send" /\ UNCHANGED <<fix, translation>>  BY DEF Judge, InHand
  <1>2. fix \in BOOLEAN  BY DEF ArticlesIInv, ArticleTables
  <1>3. Of(p) \in Row /\ RowOK(Of(p)) /\ Of(p).status # "none"  BY <1>1, AtHand
  <1>4. CASE Stop(p, FALSE) \/ Stop(p, fix)  BY <1>1, <1>2, <1>4, StopStep
  <1>5. CASE Step(p, "mend") /\ UNCHANGED draft  BY <1>1, <1>5, HandOn DEF InHand
  <1>6. CASE Put(p, IF ~Stands(Of(p)) THEN Of(p) ELSE Passed(Of(p))) /\ Step(p, "send")
    <2> DEFINE row == IF ~Stands(Of(p)) THEN Of(p) ELSE Passed(Of(p))
    <2>1. row \in Row /\ RowOK(row) /\ row.status # "none" /\ (Stands(row) => row.vouched # "nobody")
      <3>1. CASE ~Stands(Of(p))
        <4>1. row = Of(p)  BY <3>1
        <4>2. QED  BY <1>3, <3>1, <4>1
      <3>2. CASE Stands(Of(p))
        <4>1. row = Passed(Of(p))  BY <3>2
        <4>2. QED  BY <1>3, <4>1, Passes
      <3>3. QED  BY <3>1, <3>2
    <2>2. Put(p, row) /\ "send" \in InHand  BY <1>6 DEF InHand
    <2> HIDE DEF row
    <2>3. QED  BY <1>1, <1>6, <2>1, <2>2, PutOn
  <1>7. ASSUME NEW st \in Open, NEW s \in {"mend", "send"},
               Put(p, Edited(Of(p), st, Passed(Of(p)).vouched)), Step(p, s)
        PROVE ArticlesIInv'
    <2>1. s \in InHand  BY DEF InHand
    <2>2. Passed(Of(p)).vouched \in Who /\ Passed(Of(p)).vouched # "nobody"  BY <1>3, Passes
    <2>3. QED  BY <1>1, <1>7, <2>1, <2>2, EditStep
  <1>8. QED  BY <1>4, <1>5, <1>6, <1>7 DEF Judge

\* A correction has the article read again.
LEMMA CorrectStep == ASSUME ArticlesIInv, NEW p \in Piece, Correct(p) \/ PlainHeadline(p) PROVE ArticlesIInv'
  <1>1. PICK st \in Open : Put(p, Edited(Of(p), st, "nobody"))  BY DEF Correct, PlainHeadline
  <1>2. job[p].step = "mend" /\ UNCHANGED <<fix, translation>>  BY DEF Correct, PlainHeadline
  <1>3. job \in [Piece -> JobRow] /\ job[p] \in JobRow  BY DEF ArticlesIInv, ArticleTables
  <1>4. PICK j \in JobRow : j.step = "start" /\ j.v = job[p].v /\ j.again = job[p].again /\ job' = [job EXCEPT ![p] = j]
    <2>1. CASE Correct(p)
      <3> DEFINE j == [job[p] EXCEPT !.step = "start", !.corrected = TRUE]
      <3>1. j \in JobRow /\ j.step = "start" /\ j.v = job[p].v /\ j.again = job[p].again
        BY <1>3 DEF JobRow, InHand
      <3>2. job' = [job EXCEPT ![p] = j]  BY <1>3, <2>1 DEF Correct
      <3>3. QED  BY <3>1, <3>2
    <2>2. CASE PlainHeadline(p)
      <3> DEFINE j == [job[p] EXCEPT !.step = "start", !.corrected = TRUE, !.plain = TRUE]
      <3>1. j \in JobRow /\ j.step = "start" /\ j.v = job[p].v /\ j.again = job[p].again
        BY <1>3 DEF JobRow, InHand
      <3>2. job' = [job EXCEPT ![p] = j]  BY <1>3, <2>2 DEF PlainHeadline
      <3>3. QED  BY <3>1, <3>2
    <2>3. QED  BY <2>1, <2>2
  <1> DEFINE row == Edited(Of(p), st, "nobody")
  <1>5. Of(p) \in Row /\ RowOK(Of(p))  BY <1>2, AtHand DEF InHand
  <1>6. row \in Row /\ RowOK(row) /\ row.status = st  BY <1>5, Edits DEF Who
  <1>7. Put(p, row) /\ st # "none"  BY <1>1 DEF Open
  <1> HIDE DEF row
  <1>8. QED  BY <1>2, <1>4, <1>6, <1>7, PutStep DEF InHand

LEMMA GiveUpStep == ASSUME ArticlesIInv, Bounds, NEW p \in Piece, GiveUpOrRewrite(p) PROVE ArticlesIInv'
  <1>1. job[p].step = "mend" /\ UNCHANGED <<fix, translation>> /\ job[p].step \in InHand
    BY DEF GiveUpOrRewrite, InHand
  <1>2. CASE Stop(p, FALSE) \/ Stop(p, p \in News)
    <2>1. Stop(p, FALSE) \/ Stop(p, TRUE)  BY <1>2 DEF Stop
    <2>2. QED  BY <1>1, <2>1, StopStep
  <1>3. CASE ~RoundsSpent(p) /\ Put(p, Decided(Of(p), "rejected", "auto"))
             /\ job' = [job EXCEPT ![p].step = "rewrite", ![p].rounds = @ + 1, ![p].plain = FALSE]
    <2> DEFINE j == [job[p] EXCEPT !.step = "rewrite", !.rounds = @ + 1, !.plain = FALSE]
               row == Decided(Of(p), "rejected", "auto")
    <2>1. job \in [Piece -> JobRow] /\ job[p] \in JobRow  BY DEF ArticlesIInv, ArticleTables
    <2>2. job[p].rounds + 1 \in 0..FixRounds  BY <1>3, <2>1 DEF RoundsSpent, JobRow, Bounds
    <2>3. j \in JobRow /\ j.step = "rewrite" /\ j.v = job[p].v /\ j.again = job[p].again
      BY <2>1, <2>2 DEF JobRow
    <2>4. job' = [job EXCEPT ![p] = j]  BY <1>3, <2>1
    <2>5. Of(p) \in Row /\ RowOK(Of(p)) /\ Of(p).status # "none"  BY <1>1, AtHand
    <2>6. /\ row \in Row /\ row.status \notin Open /\ row.vouched = Of(p).vouched /\ row.sent = Of(p).sent
          /\ row.status = (IF Of(p).status \in Open THEN "rejected" ELSE Of(p).status)
      BY <2>5, Decides
    <2> HIDE DEF row, j
    <2>7. RowOK(row) /\ WaitsForNobody(row) /\ row.status # "none"  BY <2>5, <2>6 DEF RowOK, WaitsForNobody
    <2>8. Put(p, row)  BY <1>3 DEF row
    <2>9. QED  BY <1>1, <2>3, <2>4, <2>6, <2>7, <2>8, PutStep
  <1>4. QED  BY <1>2, <1>3 DEF GiveUpOrRewrite

\* A new version, of whoever writes it.
LEMMA NewVersionStep ==
  ASSUME ArticlesIInv, NEW p \in Piece, NEW n \in Version, NEW row \in Row, NEW j \in JobRow,
         draft' = [draft EXCEPT ![p][n] = row], job' = [job EXCEPT ![p] = j], UNCHANGED <<fix, translation>>,
         draft[p][n].status = "none", row.status \in Open, row.sent = "none",
         \/ j = job[p] /\ ~row.ofJob
         \/ j.step = "start" /\ j.v = n /\ j.again = job[p].again /\ job[p].step \in {"queued", "rewrite"}
  PROVE  ArticlesIInv'
  <1> DEFINE d == [draft[p] EXCEPT ![n] = row]
  <1>1. /\ draft[p] \in [Version -> Row] /\ job[p] \in JobRow /\ translation[p] \in TranslationRow
        /\ PieceOK(draft[p], job[p], translation[p])
        /\ translation' = [translation EXCEPT ![p] = translation[p]]
    BY ThisPiece
  <1>2. d \in [Version -> Row] /\ d[n] = row /\ \A v \in Version : v # n => d[v] = draft[p][v]
    BY <1>1
  <1>3. draft' = [draft EXCEPT ![p] = d]  BY DEF ArticlesIInv, ArticleTables
  <1> HIDE DEF d
  <1>4. RowOK(row) /\ row.status # "none"  BY DEF RowOK, Open
  <1>5. CASE j = job[p] /\ ~row.ofJob
    <2>1. j.step \in InHand \cup {"publish"} => j.v # n  BY <1>1, <1>5 DEF PieceOK
    <2>2. WaitsForNobody(row)  BY <1>5 DEF WaitsForNobody
    <2>3. \A v \in Version : RowOK(d[v])  BY <1>1, <1>2, <1>4 DEF PieceOK
    <2>4. j.step \in InHand \cup {"publish"} => j.v \in Version /\ d[j.v].status # "none"
      BY <1>1, <1>2, <1>5, <2>1 DEF PieceOK
    <2>5. j.step = "send" /\ Stands(d[j.v]) => d[j.v].vouched # "nobody"
      BY <1>1, <1>2, <1>5, <2>1 DEF PieceOK, InHand
    <2>6. ASSUME fix, ~j.again, NEW v \in Version
          PROVE  WaitsForNobody(d[v]) \/ (v = j.v /\ j.step \in InHand)
      <3>1. CASE v = n
        <4>1. d[v] = row  BY <1>2, <3>1
        <4>2. QED  BY <2>2, <4>1
      <3>2. CASE v # n
        <4>1. d[v] = draft[p][v]  BY <1>2, <3>2
        <4>2. WaitsForNobody(draft[p][v]) \/ (v = j.v /\ j.step \in InHand)
          BY <1>1, <1>5, <2>6, Zenon DEF PieceOK
        <4>3. QED  BY <4>1, <4>2
      <3>3. QED  BY <3>1, <3>2
    <2>7. translation[p].auto => j.step = "done" /\ AutoOK(d, translation[p])
      BY <1>1, <1>2, <1>5 DEF PieceOK, AskedOK, AutoOK
    <2>8. PieceOK(d, j, translation[p])  BY <1>1, <2>3, <2>4, <2>5, <2>6, <2>7 DEF PieceOK
    <2>9. QED  BY <1>1, <1>2, <1>3, <2>8, OnePiece
  <1>6. CASE j.step = "start" /\ j.v = n /\ j.again = job[p].again /\ job[p].step \in {"queued", "rewrite"}
    <2>1. ~translation[p].auto /\ job[p].step \notin InHand  BY <1>1, <1>6 DEF PieceOK, InHand
    <2>2. \A v \in Version : RowOK(d[v])  BY <1>1, <1>2, <1>4 DEF PieceOK
    <2>3. ASSUME fix, ~j.again, NEW v \in Version
          PROVE  WaitsForNobody(d[v]) \/ (v = j.v /\ j.step \in InHand)
      <3>1. CASE v = n  BY <1>6, <3>1 DEF InHand
      <3>2. CASE v # n
        <4>1. d[v] = draft[p][v] /\ ~job[p].again  BY <1>2, <1>6, <2>3, <3>2
        <4>2. WaitsForNobody(draft[p][v])  BY <1>1, <2>1, <2>3, <4>1, Zenon DEF PieceOK
        <4>3. QED  BY <4>1, <4>2
      <3>3. QED  BY <3>1, <3>2
    <2>4. PieceOK(d, j, translation[p])  BY <1>1, <1>2, <1>4, <1>6, <2>1, <2>2, <2>3 DEF PieceOK
    <2>5. QED  BY <1>1, <1>2, <1>3, <2>4, OnePiece
  <1>7. QED  BY <1>5, <1>6

LEMMA WriteStep == ASSUME ArticlesIInv, NEW p \in Piece, Write(p) PROVE ArticlesIInv'
  <1>1. job[p].step \in {"queued", "rewrite"} /\ UNCHANGED <<fix, translation>>  BY DEF Write
  <1>2. job \in [Piece -> JobRow] /\ job[p] \in JobRow  BY DEF ArticlesIInv, ArticleTables
  <1>3. ASSUME NEW s \in {"done", "failed"}, UNCHANGED draft, Step(p, s) PROVE ArticlesIInv'
    <2> DEFINE j == [job[p] EXCEPT !.step = s]
    <2>1. j \in JobRow /\ j.step = s /\ j.v = job[p].v /\ j.again = job[p].again /\ job' = [job EXCEPT ![p] = j]
      BY <1>3, Steps
    <2> HIDE DEF j
    <2>2. QED  BY <1>1, <1>3, <2>1, GoStep DEF InHand
  <1>4. ASSUME NEW st \in Open, NextVersion(p) \in Version, draft[p][NextVersion(p)] = NoDraft,
               draft' = [draft EXCEPT ![p][NextVersion(p)] = [NewDraft(st) EXCEPT !.ofJob = TRUE]],
               job' = [job EXCEPT ![p].step = "start", ![p].v = NextVersion(p), ![p].corrected = FALSE]
        PROVE  ArticlesIInv'
    <2>1. PICK n \in Version : n = NextVersion(p)  BY <1>4
    <2> DEFINE row == [NewDraft(st) EXCEPT !.ofJob = TRUE]
               j == [job[p] EXCEPT !.step = "start", !.v = n, !.corrected = FALSE]
    <2>2. row \in Row /\ row.status = st /\ row.sent = "none"  BY NewDrafts DEF NewDraft, NoDraft
    <2>3. n \in 0..MaxVersion  BY DEF Version
    <2>4. j \in JobRow /\ j.step = "start" /\ j.v = n /\ j.again = job[p].again
      BY <1>2, <2>3 DEF JobRow, InHand
    <2>5. job' = [job EXCEPT ![p] = j] /\ draft' = [draft EXCEPT ![p][n] = row]  BY <1>2, <1>4, <2>1
    <2> HIDE DEF row, j
    <2>6. draft[p][n].status = "none"  BY <1>4, <2>1 DEF NoDraft
    <2>7. QED  BY <1>1, <2>2, <2>4, <2>5, <2>6, NewVersionStep
  <1>5. QED  BY <1>3, <1>4 DEF Write

\* What goes out is what was let through.
LEMMA ApproveStep == ASSUME ArticlesIInv, NEW p \in Piece, Approve(p) PROVE ArticlesIInv'
  <1>1. job[p].step = "send" /\ job[p].step \in InHand /\ UNCHANGED <<fix, translation>>  BY DEF Approve, InHand
  <1>2. CASE ~Stands(Of(p))  BY <1>1, <1>2, FailStep DEF Approve
  <1>3. CASE Stands(Of(p))
    <2> DEFINE row == Decided(Of(p), "approved", "auto")
               j == [job[p] EXCEPT !.step = "publish"]
    <2>1. Of(p) \in Row /\ RowOK(Of(p)) /\ Of(p).status # "none" /\ Of(p).vouched # "nobody"
      BY <1>1, <1>3, AtHand
    <2>2. /\ row \in Row /\ row.status \notin Open /\ row.vouched = Of(p).vouched /\ row.sent = Of(p).sent
          /\ row.status = (IF Of(p).status \in Open THEN "approved" ELSE Of(p).status)
      BY <2>1, Decides
    <2>3. Put(p, row) /\ Step(p, "publish")  BY <1>3 DEF Approve
    <2>4. j \in JobRow /\ j.step = "publish" /\ j.v = job[p].v /\ j.again = job[p].again /\ job' = [job EXCEPT ![p] = j]
      BY <2>3, Steps
    <2> HIDE DEF row, j
    <2>5. RowOK(row) /\ WaitsForNobody(row) /\ row.status # "none"  BY <2>1, <2>2 DEF RowOK, WaitsForNobody
    <2>6. QED  BY <1>1, <2>2, <2>3, <2>4, <2>5, PutStep
  <1>4. QED  BY <1>2, <1>3

LEMMA PublishStep == ASSUME ArticlesIInv, NEW p \in Piece, Publish(p) PROVE ArticlesIInv'
  <1> DEFINE sent == Of(p).status = "approved" /\ Of(p).sent = "none"
  <1>1. /\ draft[p] \in [Version -> Row] /\ job[p] \in JobRow /\ translation[p] \in TranslationRow
        /\ PieceOK(draft[p], job[p], translation[p])
        /\ UNCHANGED draft => draft' = [draft EXCEPT ![p] = draft[p]]
        /\ UNCHANGED translation => translation' = [translation EXCEPT ![p] = translation[p]]
    BY ThisPiece
  <1>2. job[p].step = "publish" /\ fix' = fix  BY DEF Publish
  <1>3. ~translation[p].auto /\ job[p].step \notin InHand /\ job[p].v \in Version
    BY <1>1, <1>2 DEF PieceOK, InHand
  <1>4. Of(p) \in Row /\ RowOK(Of(p)) /\ Of(p).status # "none" /\ Of(p) = draft[p][job[p].v]
        /\ (Of(p).status = "approved" => Of(p).vouched # "nobody")
    BY <1>2, AtHand DEF Of
  <1>5. CASE ~sent
    <2> DEFINE j == [job[p] EXCEPT !.step = "failed"]
    <2>1. UNCHANGED <<draft, fix, translation>> /\ Step(p, "failed")  BY <1>5 DEF Publish
    <2>2. j \in JobRow /\ j.step = "failed" /\ j.v = job[p].v /\ j.again = job[p].again /\ job' = [job EXCEPT ![p] = j]
      BY <2>1, Steps
    <2> HIDE DEF j
    <2>3. j.step \notin InHand \cup {"publish"} /\ j.step # "send"  BY <2>2 DEF InHand
    <2>4. QED  BY <1>2, <1>3, <2>1, <2>2, <2>3, GoStep
  <1>6. CASE sent
    <2> DEFINE row == Sent(Of(p))
               j == [job[p] EXCEPT !.step = "done"]
               d == [draft[p] EXCEPT ![job[p].v] = row]
               t == [translation[p] EXCEPT !.step = "queued", !.of = job[p].v, !.auto = TRUE]
    <2>1. Put(p, row) /\ Step(p, "done")  BY <1>6 DEF Publish
    <2>2. /\ row \in Row /\ row.status = "approved" /\ row.sent = row.vouched /\ row.vouched # "nobody"
          /\ row.sent # "none"
      BY <1>4, <1>6, Sends
    <2>3. j \in JobRow /\ j.step = "done" /\ j.v = job[p].v /\ j.again = job[p].again /\ job' = [job EXCEPT ![p] = j]
      BY <2>1, Steps
    <2>4. d \in [Version -> Row] /\ d[job[p].v] = row /\ \A v \in Version : v # job[p].v => d[v] = draft[p][v]
      BY <1>1, <1>3, <2>2
    <2>5. draft' = [draft EXCEPT ![p] = d]  BY <2>1 DEF Put, ArticlesIInv, ArticleTables
    <2>6. t \in TranslationRow /\ t.step = "queued" /\ t.of = job[p].v /\ t.draft = translation[p].draft
      BY <1>1, <1>3 DEF TranslationRow, JobRow
    <2>7. translation' = IF translation[p].step = "none" THEN [translation EXCEPT ![p] = t] ELSE translation
      BY <1>1, <1>6 DEF Publish, ArticlesIInv, ArticleTables
    <2> HIDE DEF row, j, d, t, sent
    <2>8. RowOK(row) /\ WaitsForNobody(row)  BY <2>2 DEF RowOK, WaitsForNobody, Open
    <2>9. \A v \in Version : RowOK(d[v])  BY <1>1, <2>4, <2>8 DEF PieceOK
    <2>10. ASSUME fix, ~j.again, NEW v \in Version PROVE WaitsForNobody(d[v])
      <3>1. CASE v = job[p].v  BY <2>4, <2>8, <3>1
      <3>2. CASE v # job[p].v
        <4>1. ~job[p].again  BY <2>3, <2>10
        <4>2. WaitsForNobody(draft[p][v])  BY <1>1, <2>10, <3>2, <4>1, Zenon DEF PieceOK
        <4>3. QED  BY <2>4, <3>2, <4>2
      <3>3. QED  BY <3>1, <3>2
    <2>11. j.step \notin InHand \cup {"publish"} /\ j.step # "send"  BY <2>3 DEF InHand
    <2>12. CASE translation[p].step # "none"
      <3>1. PieceOK(d, j, translation[p])  BY <1>1, <1>3, <2>9, <2>10, <2>11 DEF PieceOK
      <3>2. translation' = [translation EXCEPT ![p] = translation[p]]  BY <1>1, <2>7, <2>12
      <3>3. QED  BY <1>1, <1>2, <2>3, <2>4, <2>5, <3>1, <3>2, OnePiece
    <2>13. CASE translation[p].step = "none"
      <3>1. translation[p].draft = NoDraft /\ NoDraft.sent = "none"  BY <1>1, <2>13 DEF PieceOK, AskedOK, NoDraft
      <3>2. AutoOK(d, t)  BY <1>3, <2>2, <2>4, <2>6, <3>1 DEF AutoOK
      <3>3. PieceOK(d, j, t)  BY <1>3, <2>3, <2>6, <2>9, <2>10, <2>11, <3>2 DEF PieceOK, AskedOK
      <3>4. translation' = [translation EXCEPT ![p] = t]  BY <2>7, <2>13
      <3>5. QED  BY <1>2, <2>3, <2>4, <2>5, <2>6, <3>3, <3>4, OnePiece
    <2>14. QED  BY <2>12, <2>13
  <1>7. QED  BY <1>5, <1>6

\* The worker dies.
LEMMA CrashStep == ASSUME ArticlesIInv, Bounds, NEW p \in Piece, Crash(p) PROVE ArticlesIInv'
  <1> DEFINE j == [NewJob EXCEPT !.again = TRUE]
  <1>1. j \in JobRow /\ j.step = "queued" /\ j.again  BY NewRows DEF JobRow, NewJob
  <1>2. job' = [job EXCEPT ![p] = j] /\ job[p].step # "done" /\ UNCHANGED <<draft, fix, translation>>  BY DEF Crash
  <1> HIDE DEF j
  <1>3. j.step \notin InHand \cup {"publish"} /\ j.step # "send"  BY <1>1 DEF InHand
  <1>4. QED  BY <1>1, <1>2, <1>3, GoStep

-----------------------------------------------------------------------------
\* The translation goes on.
LEMMA TranslationStep ==
  ASSUME ArticlesIInv, NEW p \in Piece, NEW t \in TranslationRow, translation' = [translation EXCEPT ![p] = t],
         UNCHANGED <<draft, fix, job>>, t.auto = translation[p].auto, t.step \notin {"none", "queued"},
         t.auto /\ AutoOK(draft[p], translation[p]) => AutoOK(draft[p], t)
  PROVE  ArticlesIInv'
  <1>1. /\ draft[p] \in [Version -> Row] /\ job[p] \in JobRow
        /\ PieceOK(draft[p], job[p], translation[p])
        /\ draft' = [draft EXCEPT ![p] = draft[p]] /\ job' = [job EXCEPT ![p] = job[p]]
    BY ThisPiece
  <1>2. t.auto => job[p].step = "done" /\ AutoOK(draft[p], t)  BY <1>1 DEF PieceOK
  <1>3. PieceOK(draft[p], job[p], t)  BY <1>1, <1>2 DEF PieceOK, AskedOK
  <1>4. QED  BY <1>1, <1>3, OnePiece

LEMMA ReadStep == ASSUME ArticlesIInv, NEW p \in Piece, ReadOriginal(p) PROVE ArticlesIInv'
  <1> DEFINE t == translation[p]
             step == IF ~Stands(draft[p][t.of]) THEN "failed" ELSE "writing"
             new == [t EXCEPT !.step = step, !.text = draft[p][t.of].vouched]
  <1>1. translation \in [Piece -> TranslationRow] /\ t \in TranslationRow /\ draft[p] \in [Version -> Row]
    BY ThisPiece DEF ArticlesIInv, ArticleTables
  <1>2. t.step = "queued" /\ UNCHANGED <<draft, fix, job>> /\ translation' = [translation EXCEPT ![p] = new]
    BY <1>1 DEF ReadOriginal
  <1>3. QED
    <2>1. t.of \in Version /\ draft[p][t.of].vouched \in Who  BY <1>1, <1>2, ThisPiece DEF PieceOK, AskedOK, Row
    <2>2. step \in {"failed", "writing"}  OBVIOUS
    <2> HIDE DEF step
    <2>3. /\ new \in TranslationRow /\ new.step = step /\ new.auto = t.auto /\ new.draft = t.draft
          /\ new.text = draft[p][t.of].vouched
      BY <1>1, <2>1, <2>2 DEF TranslationRow
    <2>4. new.auto /\ AutoOK(draft[p], t) => AutoOK(draft[p], new)  BY <1>2, <2>2, <2>3 DEF AutoOK
    <2> HIDE DEF new
    <2>5. QED  BY <1>2, <2>2, <2>3, <2>4, TranslationStep

LEMMA StoreStep == ASSUME ArticlesIInv, NEW p \in Piece, StoreTranslation(p) PROVE ArticlesIInv'
  <1> DEFINE t == translation[p]
  <1>1. translation \in [Piece -> TranslationRow] /\ t \in TranslationRow
    BY ThisPiece DEF ArticlesIInv, ArticleTables
  <1>2. t.step = "writing" /\ UNCHANGED <<draft, fix, job>>  BY DEF StoreTranslation
  <1>3. CASE translation' = [translation EXCEPT ![p].step = "failed"]
    <2> DEFINE new == [t EXCEPT !.step = "failed"]
    <2>1. new \in TranslationRow /\ new.step = "failed" /\ new.auto = t.auto /\ new.draft = t.draft
      BY <1>1 DEF TranslationRow
    <2>2. translation' = [translation EXCEPT ![p] = new]  BY <1>1, <1>3
    <2>3. new.auto /\ AutoOK(draft[p], t) => AutoOK(draft[p], new)  BY <2>1 DEF AutoOK
    <2> HIDE DEF new
    <2>4. QED  BY <1>2, <2>1, <2>2, <2>3, TranslationStep
  <1>4. ASSUME NEW s \in Open,
               translation' = [translation EXCEPT ![p].step = "finish",
                                                  ![p].draft = [NewDraft(s) EXCEPT !.vouched = translation[p].text]]
        PROVE  ArticlesIInv'
    <2> DEFINE row == [NewDraft(s) EXCEPT !.vouched = t.text]
               new == [t EXCEPT !.step = "finish", !.draft = row]
    <2>1. t.text \in Who  BY <1>1 DEF TranslationRow
    <2>2. row \in Row /\ row.vouched = t.text /\ row.sent = "none"  BY <2>1, NewDrafts DEF NewDraft, NoDraft, Row
    <2> HIDE DEF row
    <2>3. new \in TranslationRow /\ new.step = "finish" /\ new.auto = t.auto /\ new.draft = row
      BY <1>1, <2>2 DEF TranslationRow
    <2>4. translation' = [translation EXCEPT ![p] = new]  BY <1>1, <1>4 DEF row
    <2>5. new.auto /\ AutoOK(draft[p], t) => AutoOK(draft[p], new)  BY <1>2, <2>2, <2>3 DEF AutoOK
    <2> HIDE DEF new
    <2>6. QED  BY <1>2, <2>3, <2>4, <2>5, TranslationStep
  <1>5. QED  BY <1>3, <1>4 DEF StoreTranslation

LEMMA FinishStep == ASSUME ArticlesIInv, NEW p \in Piece, FinishTranslation(p) PROVE ArticlesIInv'
  <1> DEFINE t == translation[p]
             row == t.draft
             stops == ~on \/ row.status = "needs_review"
             next == IF ~t.auto /\ ~Owns(p) THEN row
                     ELSE IF stops THEN IF on /\ fix THEN Decided(row, "rejected", "auto") ELSE [row EXCEPT !.held = TRUE]
                     ELSE Sent(Decided(row, "approved", "auto"))
             new == [t EXCEPT !.step = "done", !.draft = next]
  <1>1. translation \in [Piece -> TranslationRow] /\ t \in TranslationRow /\ row \in Row
    BY ThisPiece DEF ArticlesIInv, ArticleTables, TranslationRow
  <1>2. t.step = "finish" /\ UNCHANGED <<draft, fix, job>> /\ translation' = [translation EXCEPT ![p] = new]
    BY <1>1 DEF FinishTranslation
  <1>3. Decided(row, "rejected", "auto") \in Row /\ Decided(row, "rejected", "auto").sent = row.sent
    BY <1>1, Decides
  <1>4. Decided(row, "approved", "auto") \in Row /\ Decided(row, "approved", "auto").vouched = row.vouched
    BY <1>1, Decides
  <1>5. /\ Sent(Decided(row, "approved", "auto")) \in Row
        /\ Sent(Decided(row, "approved", "auto")).sent = row.vouched
    BY <1>4, Sends
  <1>6. [row EXCEPT !.held = TRUE] \in Row /\ [row EXCEPT !.held = TRUE].sent = row.sent  BY <1>1 DEF Row
  <1>7. next \in Row /\ (next.sent = row.sent \/ next.sent = row.vouched)
    <2>1. next \in {row, Decided(row, "rejected", "auto"), [row EXCEPT !.held = TRUE],
                    Sent(Decided(row, "approved", "auto"))}
      OBVIOUS
    <2> HIDE DEF next
    <2>2. QED  BY <1>1, <1>3, <1>5, <1>6, <2>1
  <1> HIDE DEF next
  <1>8. new \in TranslationRow /\ new.step = "done" /\ new.auto = t.auto /\ new.draft = next
    BY <1>1, <1>7 DEF TranslationRow
  <1>9. new.auto /\ AutoOK(draft[p], t) => AutoOK(draft[p], new)  BY <1>2, <1>7, <1>8 DEF AutoOK
  <1> HIDE DEF new
  <1>10. QED  BY <1>2, <1>8, <1>9, TranslationStep

-----------------------------------------------------------------------------
\* A person writes a version over, and perhaps asks for its translation.
LEMMA PersonStep ==
  ASSUME ArticlesIInv, NEW p \in Piece, NEW n \in Version, NEW row \in Row, NEW t \in TranslationRow,
         draft' = [draft EXCEPT ![p][n] = row], UNCHANGED <<fix, job>>,
         translation' = [translation EXCEPT ![p] = t],
         draft[p][n].status # "none", row.status # "none", row.sent = draft[p][n].sent,
         (row.status = "gone" /\ row.sent = "none") \/ row.vouched = "person",
         \/ t = translation[p]
         \/ /\ translation[p].step = "none" /\ t.step = "queued" /\ t.of = n /\ t.draft = translation[p].draft
            /\ t.auto = translation[p].auto
  PROVE  ArticlesIInv'
  <1> DEFINE d == [draft[p] EXCEPT ![n] = row]
  <1>1. /\ draft[p] \in [Version -> Row] /\ job[p] \in JobRow /\ translation[p] \in TranslationRow
        /\ PieceOK(draft[p], job[p], translation[p]) /\ job' = [job EXCEPT ![p] = job[p]]
    BY ThisPiece
  <1>2. d \in [Version -> Row] /\ d[n] = row /\ \A v \in Version : v # n => d[v] = draft[p][v]
    BY <1>1
  <1>3. draft' = [draft EXCEPT ![p] = d]  BY DEF ArticlesIInv, ArticleTables
  <1> HIDE DEF d
  <1>4. RowOK(row) /\ WaitsForNobody(row)
    <2>1. RowOK(draft[p][n])  BY <1>1 DEF PieceOK
    <2>2. QED  BY <2>1 DEF RowOK, WaitsForNobody, Open
  <1>5. \A v \in Version : RowOK(d[v])  BY <1>1, <1>2, <1>4 DEF PieceOK
  <1>6. job[p].step \in InHand \cup {"publish"} => job[p].v \in Version /\ d[job[p].v].status # "none"
    BY <1>1, <1>2 DEF PieceOK
  <1>7. job[p].step = "send" /\ Stands(d[job[p].v]) => d[job[p].v].vouched # "nobody"
    <2>1. job[p].step = "send" => job[p].v \in Version  BY <1>1 DEF PieceOK, InHand
    <2>2. Stands(row) => row.vouched # "nobody"  BY DEF Stands
    <2>3. job[p].step = "send" /\ Stands(draft[p][job[p].v]) => draft[p][job[p].v].vouched # "nobody"
      BY <1>1 DEF PieceOK
    <2>4. QED  BY <1>2, <2>1, <2>2, <2>3
  <1>8. ASSUME fix, ~job[p].again, NEW v \in Version
        PROVE  WaitsForNobody(d[v]) \/ (v = job[p].v /\ job[p].step \in InHand)
    <2>1. CASE v = n  BY <1>2, <1>4, <2>1
    <2>2. CASE v # n
      <3>1. d[v] = draft[p][v]  BY <1>2, <2>2
      <3>2. WaitsForNobody(draft[p][v]) \/ (v = job[p].v /\ job[p].step \in InHand)
        BY <1>1, <1>8, Zenon DEF PieceOK
      <3>3. QED  BY <3>1, <3>2
    <2>3. QED  BY <2>1, <2>2
  <1>9. CASE t = translation[p]
    <2>1. AskedOK(t)  BY <1>1, <1>9 DEF PieceOK
    <2>2. t.auto => job[p].step = "done" /\ AutoOK(draft[p], t)  BY <1>1, <1>9 DEF PieceOK
    <2>3. AutoOK(draft[p], t) => AutoOK(d, t)  BY <1>2, <2>1 DEF AutoOK, AskedOK
    <2>4. PieceOK(d, job[p], t)  BY <1>5, <1>6, <1>7, <1>8, <2>1, <2>2, <2>3 DEF PieceOK
    <2>5. QED  BY <1>1, <1>2, <1>3, <2>4, OnePiece
  <1>10. CASE translation[p].step = "none" /\ t.step = "queued" /\ t.of = n /\ t.draft = translation[p].draft
              /\ t.auto = translation[p].auto
    <2>1. AskedOK(t)  BY <1>10 DEF AskedOK
    <2>2. ~t.auto  BY <1>1, <1>10 DEF PieceOK, AskedOK
    <2>3. PieceOK(d, job[p], t)  BY <1>5, <1>6, <1>7, <1>8, <2>1, <2>2 DEF PieceOK
    <2>4. QED  BY <1>1, <1>2, <1>3, <2>3, OnePiece
  <1>11. QED  BY <1>9, <1>10

LEMMA EditVersionStep == ASSUME ArticlesIInv, NEW p \in Piece, NEW v \in Version, Edit(p, v) PROVE ArticlesIInv'
  <1>1. PICK s \in Open : draft' = [draft EXCEPT ![p][v] = Edited(@, s, "person")]  BY DEF Edit
  <1>2. draft \in [Piece -> [Version -> Row]] /\ draft[p][v] \in Row /\ translation[p] \in TranslationRow
        /\ (UNCHANGED translation => translation' = [translation EXCEPT ![p] = translation[p]])
    BY ThisPiece DEF ArticlesIInv, ArticleTables
  <1> DEFINE row == Edited(draft[p][v], s, "person")
  <1>3. row \in Row /\ row.status = s /\ row.vouched = "person" /\ row.sent = draft[p][v].sent
    BY <1>2, Edits DEF Who
  <1>4. draft' = [draft EXCEPT ![p][v] = row]  BY <1>1, <1>2
  <1> HIDE DEF row
  <1>5. draft[p][v].status # "none" /\ s # "none" /\ UNCHANGED <<fix, job, translation>>  BY DEF Edit, Stands, Open
  <1>6. QED  BY <1>2, <1>3, <1>4, <1>5, PersonStep

LEMMA DeleteStep == ASSUME ArticlesIInv, NEW p \in Piece, NEW v \in Version, Delete(p, v) PROVE ArticlesIInv'
  <1> DEFINE row == [NoDraft EXCEPT !.status = "gone"]
  <1>1. draft' = [draft EXCEPT ![p][v] = row]  BY DEF Delete
  <1>2. row \in Row /\ row.status = "gone" /\ row.sent = "none"  BY NewDrafts DEF NoDraft, Row
  <1>3. translation[p] \in TranslationRow
        /\ (UNCHANGED translation => translation' = [translation EXCEPT ![p] = translation[p]])
    BY ThisPiece
  <1> HIDE DEF row
  <1>4. draft[p][v].status # "none" /\ draft[p][v].sent = "none" /\ UNCHANGED <<fix, job, translation>>
    BY DEF Delete, Stands
  <1>5. QED  BY <1>1, <1>2, <1>3, <1>4, PersonStep

LEMMA DecideStep == ASSUME ArticlesIInv, NEW p \in Piece, NEW v \in Version, Decide(p, v) PROVE ArticlesIInv'
  <1>1. PICK s \in {"approved", "rejected"} :
          /\ draft' = [draft EXCEPT ![p][v] = [Decided(@, s, "person") EXCEPT !.vouched = "person"]]
          /\ translation' = IF s = "approved" /\ translation[p].step = "none"
                            THEN [translation EXCEPT ![p].step = "queued", ![p].of = v] ELSE translation
    BY DEF Decide
  <1>2. /\ draft \in [Piece -> [Version -> Row]] /\ draft[p][v] \in Row /\ draft[p][v].status \in Open
        /\ translation \in [Piece -> TranslationRow] /\ translation[p] \in TranslationRow
    BY ThisPiece DEF ArticlesIInv, ArticleTables, Decide
  <1> DEFINE row == [Decided(draft[p][v], s, "person") EXCEPT !.vouched = "person"]
             t == [translation[p] EXCEPT !.step = "queued", !.of = v]
  <1>3. /\ Decided(draft[p][v], s, "person") \in Row /\ Decided(draft[p][v], s, "person").status = s
        /\ Decided(draft[p][v], s, "person").sent = draft[p][v].sent
    BY <1>2, Decides
  <1>4. row \in Row /\ row.status = s /\ row.vouched = "person" /\ row.sent = draft[p][v].sent
    BY <1>3 DEF Row, Who
  <1>5. draft' = [draft EXCEPT ![p][v] = row]  BY <1>1, <1>2
  <1>6. v \in 0..MaxVersion  BY DEF Version
  <1>7. /\ t \in TranslationRow /\ t.step = "queued" /\ t.of = v /\ t.draft = translation[p].draft
        /\ t.auto = translation[p].auto
    BY <1>2, <1>6 DEF TranslationRow
  <1>8. \/ translation' = [translation EXCEPT ![p] = translation[p]]
        \/ translation[p].step = "none" /\ translation' = [translation EXCEPT ![p] = t]
    BY <1>1, <1>2
  <1> HIDE DEF row, t
  <1>9. draft[p][v].status # "none" /\ UNCHANGED <<fix, job>>  BY <1>2 DEF Decide, Open
  <1>10. QED  BY <1>2, <1>4, <1>5, <1>7, <1>8, <1>9, PersonStep

\* A nonempty set of versions has a last one.
LEMMA LastOf ==
  ASSUME NEW n \in Nat, NEW S \in SUBSET (1..n), S # {}
  PROVE  \E v \in S : \A w \in S : w <= v
  <1> DEFINE T == {n - v : v \in S}
  <1>0. \A v \in S : v \in Nat /\ 1 <= v /\ v <= n /\ n - v \in Nat  OBVIOUS
  <1>1. T \subseteq Nat /\ T # {}  BY <1>0
  <1>2. PICK x \in T : \A y \in T : ~(<<y, x>> \in OpToRel(<, Nat))
    BY <1>1, NatLessThanWellFounded, WFMin, Zenon
  <1>3. \A y \in T : ~(y < x)
    <2>1. ASSUME NEW y \in T, y < x PROVE FALSE
      <3>1. <<y, x>> \in Nat \X Nat  BY <1>1
      <3>2. <<y, x>>[1] = y /\ <<y, x>>[2] = x  OBVIOUS
      <3>3. <<y, x>> \in OpToRel(<, Nat)  BY <2>1, <3>1, <3>2 DEF OpToRel
      <3>4. QED  BY <1>2, <3>3
    <2>2. QED  BY <2>1
  <1>4. PICK v \in S : x = n - v  OBVIOUS
  <1>5. ASSUME NEW w \in S PROVE w <= v
    <2>1. n - w \in T  OBVIOUS
    <2>2. ~(n - w < n - v)  BY <1>3, <1>4, <2>1
    <2>3. w \in Int /\ v \in Int /\ n \in Int  BY <1>0
    <2> HIDE DEF T
    <2>4. QED  BY <2>2, <2>3
  <1>6. QED  BY <1>5

\* The next version is a new one.
LEMMA NextIsNew ==
  ASSUME Bounds, NEW p \in Piece, NextVersion(p) \in Version
  PROVE  draft[p][NextVersion(p)].status = "none"
  <1>1. CASE Written(p) = {}
    <2>1. NextVersion(p) = 1  BY <1>1 DEF NextVersion
    <2>2. 1 \notin Written(p)  BY <1>1
    <2>3. QED  BY <2>1, <2>2 DEF Written
  <1>2. CASE Written(p) # {}
    <2>1. Written(p) \in SUBSET (1..MaxVersion)  BY DEF Written, Version
    <2>2. \E v \in Written(p) : \A w \in Written(p) : w <= v  BY <1>2, <2>1, LastOf DEF Bounds
    <2> DEFINE last == CHOOSE v \in Written(p) : \A w \in Written(p) : w <= v
    <2>3. last \in Written(p) /\ \A w \in Written(p) : w <= last  BY <2>2
    <2>4. NextVersion(p) = 1 + last  BY <1>2 DEF NextVersion
    <2>5. last \in Int  BY <2>1, <2>3
    <2> HIDE DEF last
    <2>6. NextVersion(p) \notin Written(p)  BY <2>3, <2>4, <2>5
    <2>7. QED  BY <2>6 DEF Written
  <1>3. QED  BY <1>1, <1>2

LEMMA RedoStep == ASSUME ArticlesIInv, Bounds, NEW p \in Piece, Redo(p) PROVE ArticlesIInv'
  <1>1. PICK s \in Open, n \in Version : n = NextVersion(p) /\ draft' = [draft EXCEPT ![p][n] = NewDraft(s)]
    BY DEF Redo
  <1>2. draft[p][n].status = "none"  BY <1>1, NextIsNew
  <1>3. NewDraft(s) \in Row /\ NewDraft(s).status = s /\ NewDraft(s).sent = "none" /\ ~NewDraft(s).ofJob
    BY NewDrafts
  <1>4. job[p] \in JobRow /\ UNCHANGED <<fix, translation>> /\ job' = [job EXCEPT ![p] = job[p]]
    BY ThisPiece DEF Redo
  <1>5. QED  BY <1>1, <1>2, <1>3, <1>4, NewVersionStep

-----------------------------------------------------------------------------
LEMMA ArticlesInitHolds == Bounds => (\A asked : AskedFor(asked) => ArticlesIInv)
  <1> SUFFICES ASSUME Bounds, NEW asked, AskedFor(asked) PROVE ArticlesIInv  OBVIOUS
  <1>1. \A s \in {"queued", "done"} :
          /\ [NewJob EXCEPT !.step = s] \in JobRow /\ [NewJob EXCEPT !.step = s].step = s
    BY NewRows DEF JobRow, NewJob, InHand
  <1>2. ArticleTables
    <2>1. \A p \in Piece : [NewJob EXCEPT !.step = IF p \in asked THEN "queued" ELSE "done"] \in JobRow
      BY <1>1
    <2>2. job \in [Piece -> JobRow]  BY <2>1 DEF AskedFor
    <2>3. draft \in [Piece -> [Version -> Row]]  BY NewDrafts DEF AskedFor
    <2>4. translation \in [Piece -> TranslationRow]  BY NewRows DEF AskedFor
    <2>5. QED  BY <2>2, <2>3, <2>4 DEF AskedFor, ArticleTables
  <1>3. ASSUME NEW p \in Piece PROVE PieceOK(draft[p], job[p], translation[p])
    <2>1. job[p].step \in {"queued", "done"}  BY <1>1 DEF AskedFor
    <2>2. translation[p] = NoTranslation /\ \A v \in Version : draft[p][v] = NoDraft  BY DEF AskedFor
    <2>3. RowOK(NoDraft) /\ WaitsForNobody(NoDraft)  BY DEF NoDraft, RowOK, WaitsForNobody, Open
    <2>4. AskedOK(NoTranslation) /\ ~NoTranslation.auto  BY DEF NoTranslation, AskedOK
    <2>5. job[p].step \notin InHand \cup {"publish"} /\ job[p].step # "send"  BY <2>1 DEF InHand
    <2>6. QED  BY <2>2, <2>3, <2>4, <2>5 DEF PieceOK
  <1>4. QED  BY <1>2, <1>3 DEF ArticlesIInv

LEMMA ArticlesStep ==
  ASSUME Bounds, ArticlesIInv, [ArticlesNext]_articleVars
  PROVE  ArticlesIInv'
  <1>1. CASE UNCHANGED <<fix, draft, job, translation>>
    BY <1>1 DEF ArticlesIInv, ArticleTables, PieceOK, AutoOK
  <1>2. CASE Switch  BY <1>1, <1>2 DEF Switch
  <1>3. CASE UNCHANGED articleVars  BY <1>1, <1>3 DEF articleVars
  <1>4. ASSUME NEW p \in Piece, JobSteps(p) PROVE ArticlesIInv'
    BY <1>4, WriteStep, StartStep, JudgeStep, CorrectStep, GiveUpStep, ApproveStep, PublishStep, CrashStep
    DEF JobSteps
  <1>5. ASSUME NEW p \in Piece, TranslationSteps(p) PROVE ArticlesIInv'
    BY <1>5, ReadStep, StoreStep, FinishStep DEF TranslationSteps
  <1>6. ASSUME NEW p \in Piece, People(p) PROVE ArticlesIInv'
    BY <1>6, RedoStep, EditVersionStep, DecideStep, DeleteStep DEF People
  <1>7. QED  BY <1>2, <1>3, <1>4, <1>5, <1>6 DEF ArticlesNext

LEMMA ArticlesTell == Bounds /\ ArticlesIInv => ArticlesTypeOK /\ PassedGoesOut /\ NothingWaits
  <1> SUFFICES ASSUME Bounds, ArticlesIInv PROVE ArticlesTypeOK /\ PassedGoesOut /\ NothingWaits  OBVIOUS
  <1>1. \A p \in Piece : /\ draft[p] \in [Version -> Row] /\ job[p] \in JobRow
                         /\ PieceOK(draft[p], job[p], translation[p])
    BY ThisPiece
  <1>2. ArticlesTypeOK
    <2>1. \A p \in Piece : job[p].v \in 0..MaxVersion /\ job[p].rounds \in 0..FixRounds  BY <1>1 DEF JobRow
    <2>2. draft \in [Piece -> [Version -> Row]]  BY DEF ArticlesIInv, ArticleTables
    <2>3. QED  BY <2>1, <2>2 DEF ArticlesTypeOK, Row, Who, Bounds
  <1>3. PassedGoesOut  BY <1>1 DEF PieceOK, RowOK, AutoOK, PassedGoesOut
  <1>4. ASSUME NEW p \in Piece, fix, job[p].step = "done", ~job[p].again, NEW v \in Version
        PROVE  WaitsForNobody(draft[p][v])
    <2>1. job[p].step \notin InHand  BY <1>4 DEF InHand
    <2>2. QED  BY <1>1, <1>4, <2>1, Zenon DEF PieceOK
  <1>5. NothingWaits  BY <1>4 DEF NothingWaits, WaitsForNobody
  <1>6. QED  BY <1>2, <1>3, <1>5

LEMMA ArticlesAlways == Bounds => (ArticlesSpec => []ArticlesIInv)
  <1>1. Bounds /\ ArticlesInit => ArticlesIInv  BY ArticlesInitHolds DEF ArticlesInit
  <1>2. Bounds /\ ArticlesIInv /\ [ArticlesNext]_articleVars => ArticlesIInv'  BY ArticlesStep
  <1> SUFFICES ASSUME Bounds PROVE ArticlesSpec => []ArticlesIInv  OBVIOUS
  <1>3. ArticlesInit => ArticlesIInv  BY <1>1
  <1>4. ArticlesIInv /\ [ArticlesNext]_articleVars => ArticlesIInv'  BY <1>2
  <1>5. QED  BY <1>3, <1>4, PTL DEF ArticlesSpec

(***************************************************************************)
(* Whatever people edit, decide, delete and switch off while articles are  *)
(* written, judged, corrected and translated, the automatic newsroom sends *)
(* no text that neither the editor-in-chief nor a person let through       *)
(* (autopilot.finish, finish_translation).                                 *)
(***************************************************************************)
THEOREM OnlyPassedGoesOut == Bounds => (ArticlesSpec => []PassedGoesOut)
  <1> SUFFICES ASSUME Bounds PROVE ArticlesSpec => []PassedGoesOut  OBVIOUS
  <1>1. ArticlesIInv => PassedGoesOut  BY ArticlesTell
  <1>2. QED  BY <1>1, ArticlesAlways, PTL

(***************************************************************************)
(* With on_problem fix a job that ended leaves no version of its own       *)
(* waiting that it does not hold and no person edited, unless a crash left *)
(* one behind (autopilot.finish, correct).                                 *)
(***************************************************************************)
THEOREM FixLeavesNothing == Bounds => (ArticlesSpec => []NothingWaits)
  <1> SUFFICES ASSUME Bounds PROVE ArticlesSpec => []NothingWaits  OBVIOUS
  <1>1. ArticlesIInv => NothingWaits  BY ArticlesTell
  <1>2. QED  BY <1>1, ArticlesAlways, PTL
=============================================================================
