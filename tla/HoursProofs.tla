----------------------------- MODULE HoursProofs ------------------------------
(***************************************************************************)
(* What a newsroom's hours and its sources promise: a person's decision    *)
(* about a source stands, each channel has an issue once, the evening is   *)
(* asked for once a day, and what waits is told by the next briefing.      *)
(***************************************************************************)
EXTENDS Ticks, Sources, Profiles, TLAPS, FiniteSetTheorems, WellFoundedInduction

-----------------------------------------------------------------------------
(* The sources.  A decided row is not among those a maintenance has read   *)
(* to rate again, unless it was when it was decided; and every write of a  *)
(* discovery or a maintenance to another row spares it.                    *)

Standing == {"none", "active", "candidate", "suspended", "rejected"}
Verdict == {"none", "active", "suspended", "rejected"}
Why == {"", "failed", "silent", "replaced", "off topic", "taken on", "re-evaluated"}
SourceRow == [status : Standing, why : Why, by : BOOLEAN, rated : BOOLEAN, age : Nat,
              errors : Nat, error : {""}, quiet : Nat]
FinderRow == [on : BOOLEAN, existing : SUBSET Feed, left : SUBSET Feed, byHand : BOOLEAN,
              found : Standing, at : Feed \cup {"none"}]

SourcesTyped ==
  /\ own \in [Feed -> SourceRow]
  /\ finder \in [Discovery -> FinderRow]
  /\ decided \in [Feed -> Verdict]
  /\ again = [done |-> again.done, due |-> again.due]

DecidedIsLeft ==
  \A f \in Feed : decided[f] # "none" /\ f \notin overrun =>
    /\ own[f].status = decided[f] /\ own[f].by
    /\ f \notin DOMAIN again.due

SourcesIInv == SourcesTyped /\ DecidedIsLeft

(* What SetStatus and Evaluated make of a row is a row; a person's mark    *)
(* goes only with a change of status.                                      *)
LEMMA SetStatusRow ==
  ASSUME NEW row \in SourceRow, NEW status \in Standing, NEW why \in Why
  PROVE  SetStatus(row, status, why) \in SourceRow
BY DEF SetStatus, Aged, SourceRow

LEMMA EvaluatedRow ==
  ASSUME NEW row \in SourceRow
  PROVE  /\ Evaluated(row) \in SourceRow
         /\ Evaluated(row).status = row.status
         /\ Evaluated(row).by = row.by
BY DEF Evaluated, SourceRow

LEMMA NewRow ==
  ASSUME NEW status \in Standing
  PROVE  New(status) \in SourceRow
BY DEF New, NoRow, SourceRow, Why

LEMMA SourcesInitHolds ==
  ASSUME SourcesInit
  PROVE  SourcesIInv
<1>1. NoRow \in SourceRow
  BY DEF NoRow, SourceRow, Standing, Why
<1>2. NoFinder \in FinderRow
  BY DEF NoFinder, FinderRow, Standing
<1>3. own \in [Feed -> SourceRow]
  BY <1>1 DEF SourcesInit
<1>4. finder \in [Discovery -> FinderRow]
  BY <1>2 DEF SourcesInit
<1>5. decided \in [Feed -> Verdict] /\ \A f \in Feed : decided[f] = "none"
  BY DEF SourcesInit, Verdict
<1>6. again = [done |-> again.done, due |-> again.due]
  BY DEF SourcesInit, Reread
<1>. QED
  BY <1>3, <1>4, <1>5, <1>6 DEF SourcesIInv, SourcesTyped, DecidedIsLeft

(* A step that leaves the newsroom's rows, the maintenance under way and   *)
(* what was decided alone, and moves the discoveries at most.              *)
LEMMA OthersMove ==
  ASSUME SourcesIInv, finder' \in [Discovery -> FinderRow], UNCHANGED <<own, again, people>>
  PROVE  SourcesIInv'
BY DEF SourcesIInv, SourcesTyped, DecidedIsLeft, people

LEMMA DiscoverBeginsHolds ==
  ASSUME SourcesIInv, NEW d \in Discovery, DiscoverBegins(d)
  PROVE  SourcesIInv'
<1>1. PICK byHand \in BOOLEAN : finder' = [finder EXCEPT ![d] =
         [NoFinder EXCEPT !.on = TRUE, !.byHand = byHand, !.existing = {f \in Feed : own[f].status # "none"},
                          !.left = {f \in Feed : own[f].status = "none"}]]
  BY DEF DiscoverBegins
<1>. DEFINE begun == [NoFinder EXCEPT !.on = TRUE, !.byHand = byHand,
                        !.existing = {f \in Feed : own[f].status # "none"},
                        !.left = {f \in Feed : own[f].status = "none"}]
<1>2. begun \in FinderRow
  BY DEF NoFinder, FinderRow, Standing
<1>. HIDE DEF begun
<1>3. finder' \in [Discovery -> FinderRow]
  BY <1>1, <1>2 DEF SourcesIInv, SourcesTyped, begun
<1>. QED
  BY <1>3, OthersMove DEF DiscoverBegins

LEMMA TryHolds ==
  ASSUME SourcesIInv, NEW d \in Discovery, NEW f \in Feed, Try(d, f)
  PROVE  SourcesIInv'
<1>0. /\ finder \in [Discovery -> FinderRow] /\ finder[d] \in FinderRow
  BY DEF SourcesIInv, SourcesTyped
<1>1. CASE says[f] \in {"down", "CoreTrouble"}
  <2>1. finder' = [finder EXCEPT ![d].left = @ \ {f}]
    BY <1>1 DEF Try
  <2>2. finder' \in [Discovery -> FinderRow]
    BY <1>0, <2>1 DEF FinderRow
  <2>. QED
    BY <2>2, OthersMove DEF Try
<1>2. CASE says[f] \notin {"down", "CoreTrouble"}
  <2>1. PICK verdict \in {"active", "candidate", "rejected"} :
          LET held == Rated(d, verdict) = "active" /\ ~Room
          IN finder' = [finder EXCEPT ![d].at = f, ![d].left = @ \ {f},
                                      ![d].found = IF held THEN "candidate" ELSE Rated(d, verdict)]
    BY <1>2 DEF Try
  <2>. DEFINE found == IF Rated(d, verdict) = "active" /\ ~Room THEN "candidate" ELSE Rated(d, verdict)
  <2>2. found \in Standing
    BY DEF Rated, Standing
  <2>3. finder' = [finder EXCEPT ![d].at = f, ![d].left = @ \ {f}, ![d].found = found]
    BY <2>1
  <2>. HIDE DEF found
  <2>4. finder' \in [Discovery -> FinderRow]
    BY <1>0, <2>2, <2>3 DEF FinderRow
  <2>. QED
    BY <2>4, OthersMove DEF Try
<1>. QED
  BY <1>1, <1>2

LEMMA UpsertHolds ==
  ASSUME SourcesIInv, NEW d \in Discovery, NEW f \in Feed, Upsert(d, f)
  PROVE  SourcesIInv'
<1>0. /\ finder \in [Discovery -> FinderRow] /\ finder[d] \in FinderRow
      /\ own \in [Feed -> SourceRow] /\ own[f] \in SourceRow
  BY DEF SourcesIInv, SourcesTyped
<1>. DEFINE there == IF own[f].status = "none" THEN New(finder[d].found) ELSE own[f]
            row == Evaluated(there)
<1>1. there \in SourceRow
  BY <1>0, NewRow DEF FinderRow
<1>2. row \in SourceRow /\ row.status = there.status /\ row.by = there.by
  BY <1>1, EvaluatedRow
<1>3. own' = [own EXCEPT ![f] = row]
  BY DEF Upsert
<1>4. own[f].status # "none" => row.status = own[f].status /\ row.by = own[f].by
  BY <1>2
<1>. HIDE DEF there, row
<1>5. own' \in [Feed -> SourceRow]
  BY <1>0, <1>2, <1>3
<1>6. finder' = [finder EXCEPT ![d].at = "none", ![d].found = "none"]
  BY DEF Upsert
<1>7. finder' \in [Discovery -> FinderRow]
  BY <1>0, <1>6 DEF FinderRow, Standing
<1>8. UNCHANGED <<again, decided, overrun>>
  BY DEF Upsert, people
<1>9. SourcesTyped'
  BY <1>5, <1>7, <1>8 DEF SourcesIInv, SourcesTyped
<1>10. ASSUME NEW g \in Feed, decided[g] # "none", g \notin overrun
       PROVE  own'[g].status = decided[g] /\ own'[g].by /\ g \notin DOMAIN again.due
  <2>1. own[g].status = decided[g] /\ own[g].by /\ g \notin DOMAIN again.due
    BY <1>10 DEF SourcesIInv, DecidedIsLeft
  <2>2. g = f => row.status = own[g].status /\ row.by = own[g].by
    BY <1>4, <1>10, <2>1
  <2>. QED
    BY <1>0, <1>3, <2>1, <2>2
<1>. QED
  BY <1>8, <1>9, <1>10 DEF SourcesIInv, DecidedIsLeft

LEMMA DiscoverEndsHolds ==
  ASSUME SourcesIInv, NEW d \in Discovery, DiscoverEnds(d)
  PROVE  SourcesIInv'
<1>0. own \in [Feed -> SourceRow] /\ finder \in [Discovery -> FinderRow]
  BY DEF SourcesIInv, SourcesTyped
<1>1. PICK S \in SUBSET Feed :
        /\ IF AutoOn /\ ~finder[d].byHand THEN TakenOn(S) ELSE S = {}
        /\ own' = [f \in Feed |-> IF f \in S THEN SetStatus(own[f], "active", "taken on") ELSE own[f]]
  BY DEF DiscoverEnds
<1>2. \A f \in S : own[f].status = "candidate"
  BY <1>1 DEF TakenOn
<1>3. \A f \in Feed : SetStatus(own[f], "active", "taken on") \in SourceRow
  BY <1>0, SetStatusRow DEF Standing, Why
<1>4. own' \in [Feed -> SourceRow]
  BY <1>0, <1>1, <1>3
<1>5. finder' \in [Discovery -> FinderRow]
  <2>1. NoFinder \in FinderRow
    BY DEF NoFinder, FinderRow, Standing
  <2>2. finder' = [finder EXCEPT ![d] = NoFinder]
    BY DEF DiscoverEnds
  <2>. QED
    BY <1>0, <2>1, <2>2
<1>6. UNCHANGED <<again, decided, overrun>>
  BY DEF DiscoverEnds, people
<1>7. SourcesTyped'
  BY <1>4, <1>5, <1>6 DEF SourcesIInv, SourcesTyped
<1>8. ASSUME NEW g \in Feed, decided[g] # "none", g \notin overrun
      PROVE  own'[g].status = decided[g] /\ own'[g].by /\ g \notin DOMAIN again.due
  <2>1. own[g].status = decided[g] /\ own[g].by /\ g \notin DOMAIN again.due
    BY <1>8 DEF SourcesIInv, DecidedIsLeft
  <2>2. decided[g] # "candidate"
    BY DEF SourcesIInv, SourcesTyped, Verdict
  <2>3. own'[g] = own[g]
    BY <1>1, <1>2, <2>1, <2>2
  <2>. QED
    BY <2>1, <2>3
<1>. QED
  BY <1>6, <1>7, <1>8 DEF SourcesIInv, DecidedIsLeft

(* A maintenance suspends no row that carries a person's mark.             *)
LEMMA SuspendedSpares ==
  ASSUME NEW rows \in [Feed -> SourceRow], NEW S \in SUBSET {f \in Feed : ~rows[f].by}, NEW why \in Why
  PROVE  /\ Suspended(rows, S, why) \in [Feed -> SourceRow]
         /\ \A f \in Feed : rows[f].by => Suspended(rows, S, why)[f] = rows[f]
<1>1. \A f \in Feed : SetStatus(rows[f], "suspended", why) \in SourceRow
  BY SetStatusRow DEF Standing, Why
<1>. QED
  BY <1>1 DEF Suspended

LEMMA MaintainNewsroomHolds ==
  ASSUME SourcesIInv, MaintainNewsroom
  PROVE  SourcesIInv'
<1>0. own \in [Feed -> SourceRow]
  BY DEF SourcesIInv, SourcesTyped
<1>1. PICK replaced \in SUBSET {f \in Feed : own[f].status \in {"active", "candidate"} /\ ~own[f].by} :
        LET rows == Suspended(own, replaced, "replaced")
        IN /\ \E offTopic \in SUBSET {f \in Active(rows) : ~rows[f].by} : own' = Suspended(rows, offTopic, "off topic")
           /\ again' = [done |-> TRUE, due |-> [f \in {g \in Feed : LooksAgain(rows[g])} |-> rows[f].status]]
  BY DEF MaintainNewsroom
<1>2. PICK rows : rows = Suspended(own, replaced, "replaced")
  OBVIOUS
<1>3. replaced \in SUBSET {f \in Feed : ~own[f].by}
  OBVIOUS
<1>4. rows \in [Feed -> SourceRow] /\ \A f \in Feed : own[f].by => rows[f] = own[f]
  <2>1. "replaced" \in Why
    BY DEF Why
  <2>2. /\ Suspended(own, replaced, "replaced") \in [Feed -> SourceRow]
        /\ \A f \in Feed : own[f].by => Suspended(own, replaced, "replaced")[f] = own[f]
    BY <1>0, <1>3, <2>1, SuspendedSpares, Zenon
  <2>. QED
    BY <1>2, <2>2
<1>5. PICK offTopic \in SUBSET {f \in Active(rows) : ~rows[f].by} : own' = Suspended(rows, offTopic, "off topic")
  BY <1>1, <1>2
<1>6. offTopic \in SUBSET {f \in Feed : ~rows[f].by}
  BY DEF Active
<1>7. own' \in [Feed -> SourceRow] /\ \A f \in Feed : rows[f].by => own'[f] = rows[f]
  <2>1. "off topic" \in Why
    BY DEF Why
  <2>2. /\ Suspended(rows, offTopic, "off topic") \in [Feed -> SourceRow]
        /\ \A f \in Feed : rows[f].by => Suspended(rows, offTopic, "off topic")[f] = rows[f]
    BY <1>4, <1>6, <2>1, SuspendedSpares, Zenon
  <2>. QED
    BY <1>5, <2>2
<1>8. again' = [done |-> TRUE, due |-> [f \in {g \in Feed : LooksAgain(rows[g])} |-> rows[f].status]]
  BY <1>1, <1>2
<1>9. DOMAIN again'.due = {g \in Feed : LooksAgain(rows[g])} /\ again' = [done |-> again'.done, due |-> again'.due]
  BY <1>8
<1>10. UNCHANGED <<finder, decided, overrun>>
  BY DEF MaintainNewsroom, people
<1>11. SourcesTyped'
  BY <1>7, <1>9, <1>10 DEF SourcesIInv, SourcesTyped
<1>12. ASSUME NEW g \in Feed, decided[g] # "none", g \notin overrun
       PROVE  own'[g].status = decided[g] /\ own'[g].by /\ g \notin DOMAIN again'.due
  <2>1. own[g].status = decided[g] /\ own[g].by
    BY <1>12 DEF SourcesIInv, DecidedIsLeft
  <2>2. rows[g] = own[g] /\ own'[g] = own[g]
    BY <1>4, <1>7, <2>1
  <2>3. ~LooksAgain(rows[g])
    BY <2>1, <2>2 DEF LooksAgain
  <2>. QED
    BY <1>9, <2>1, <2>2, <2>3
<1>. QED
  BY <1>10, <1>11, <1>12 DEF SourcesIInv, DecidedIsLeft

LEMMA ReevaluateHolds ==
  ASSUME SourcesIInv, NEW f \in Feed, Reevaluate(f)
  PROVE  SourcesIInv'
<1>0. /\ own \in [Feed -> SourceRow] /\ own[f] \in SourceRow /\ f \in DOMAIN again.due
      /\ again = [done |-> again.done, due |-> again.due]
  BY DEF SourcesIInv, SourcesTyped, Reevaluate
<1>1. PICK verdict \in {"active", "candidate", "rejected"} :
        LET old == Evaluated(own[f])
            new == CASE says[f] = "CoreTrouble" -> own[f]
                     [] says[f] = "down" -> old
                     [] OTHER -> IF verdict = "active" /\ Room THEN SetStatus(old, "active", "re-evaluated")
                                 ELSE IF again.due[f] = "candidate" /\ verdict = "rejected"
                                      THEN SetStatus(old, "rejected", "re-evaluated") ELSE old
        IN own' = [own EXCEPT ![f] = new]
  BY DEF Reevaluate
<1>2. PICK old : old = Evaluated(own[f])
  OBVIOUS
<1>3. old \in SourceRow
  BY <1>0, <1>2, EvaluatedRow
<1>4. SetStatus(old, "active", "re-evaluated") \in SourceRow /\ SetStatus(old, "rejected", "re-evaluated") \in SourceRow
  BY <1>3, SetStatusRow DEF Standing, Why
<1>5. \E new \in SourceRow : own' = [own EXCEPT ![f] = new]
  BY <1>0, <1>1, <1>2, <1>3, <1>4
<1>6. own' \in [Feed -> SourceRow] /\ \A g \in Feed : g # f => own'[g] = own[g]
  BY <1>0, <1>5
<1>7. again' = [again EXCEPT !.due = [g \in DOMAIN @ \ {f} |-> @[g]]]
  BY DEF Reevaluate
<1>8. DOMAIN again'.due = DOMAIN again.due \ {f} /\ again' = [done |-> again'.done, due |-> again'.due]
  BY <1>0, <1>7
<1>9. UNCHANGED <<finder, decided, overrun>>
  BY DEF Reevaluate, people
<1>10. SourcesTyped'
  BY <1>6, <1>8, <1>9 DEF SourcesIInv, SourcesTyped
<1>11. ASSUME NEW g \in Feed, decided[g] # "none", g \notin overrun
       PROVE  own'[g].status = decided[g] /\ own'[g].by /\ g \notin DOMAIN again'.due
  <2>1. own[g].status = decided[g] /\ own[g].by /\ g \notin DOMAIN again.due
    BY <1>11 DEF SourcesIInv, DecidedIsLeft
  <2>2. g # f
    BY <1>0, <2>1
  <2>. QED
    BY <1>6, <1>8, <2>1, <2>2
<1>. QED
  BY <1>9, <1>10, <1>11 DEF SourcesIInv, DecidedIsLeft

LEMMA PersonSetsHolds ==
  ASSUME SourcesIInv, NEW f \in Feed, NEW status \in {"active", "suspended", "rejected"}, PersonSets(f, status)
  PROVE  SourcesIInv'
<1>0. /\ own \in [Feed -> SourceRow] /\ own[f] \in SourceRow /\ decided \in [Feed -> Verdict]
  BY DEF SourcesIInv, SourcesTyped
<1>. DEFINE row == [Aged(own[f]) EXCEPT !.status = status, !.why = "", !.by = TRUE]
<1>1. row \in SourceRow /\ row.status = status /\ row.by
  BY <1>0 DEF Aged, SourceRow, Standing, Why
<1>2. own' = [own EXCEPT ![f] = row]
  BY DEF PersonSets
<1>. HIDE DEF row
<1>3. decided' = [decided EXCEPT ![f] = status]
  BY DEF PersonSets
<1>4. decided' \in [Feed -> Verdict]
  BY <1>0, <1>3 DEF Verdict
<1>5. own' \in [Feed -> SourceRow]
  BY <1>0, <1>1, <1>2
<1>6. /\ f \in DOMAIN again.due => overrun' = overrun \cup {f}
      /\ f \notin DOMAIN again.due => overrun' = overrun \ {f}
      /\ UNCHANGED <<again, finder>>
  BY DEF PersonSets
<1>7. SourcesTyped'
  BY <1>4, <1>5, <1>6 DEF SourcesIInv, SourcesTyped
<1>8. ASSUME NEW g \in Feed, decided'[g] # "none", g \notin overrun'
      PROVE  own'[g].status = decided'[g] /\ own'[g].by /\ g \notin DOMAIN again.due
  <2>1. CASE g = f
    <3>1. own'[g] = row /\ decided'[g] = status
      BY <1>0, <1>2, <1>3, <2>1
    <3>2. g \notin DOMAIN again.due
      BY <1>6, <1>8, <2>1
    <3>. QED
      BY <1>1, <3>1, <3>2
  <2>2. CASE g # f
    <3>1. own'[g] = own[g] /\ decided'[g] = decided[g]
      BY <1>0, <1>2, <1>3, <2>2
    <3>2. g \notin overrun
      BY <1>6, <1>8, <2>2
    <3>. QED
      BY <1>8, <3>1, <3>2 DEF SourcesIInv, DecidedIsLeft
  <2>. QED
    BY <2>1, <2>2
<1>. QED
  BY <1>6, <1>7, <1>8 DEF SourcesIInv, DecidedIsLeft

LEMMA NextDayHolds ==
  ASSUME SourcesIInv, NextDay
  PROVE  SourcesIInv'
<1>0. /\ own \in [Feed -> SourceRow]
      /\ again = [done |-> again.done, due |-> again.due]
  BY DEF SourcesIInv, SourcesTyped
<1>1. own' = [f \in Feed |-> IF own[f].status = "none" THEN NoRow ELSE [Older(own[f]) EXCEPT !.quiet = 0]]
  BY DEF NextDay
<1>2. NoRow \in SourceRow
  BY DEF NoRow, SourceRow, Standing, Why
<1>3. ASSUME NEW row \in SourceRow
      PROVE  /\ [Older(row) EXCEPT !.quiet = 0] \in SourceRow
             /\ [Older(row) EXCEPT !.quiet = 0].status = row.status
             /\ [Older(row) EXCEPT !.quiet = 0].by = row.by
  <2>. DEFINE age == IF row.age < RetryDays THEN row.age + 1 ELSE row.age
              quiet == IF row.quiet < StaleDays THEN row.quiet + 1 ELSE row.quiet
  <2>0. row.age \in Nat /\ row.quiet \in Nat
    BY <1>3 DEF SourceRow
  <2>1. age \in Nat /\ quiet \in Nat
    <3>1. row.age + 1 \in Nat /\ row.quiet + 1 \in Nat
      BY <2>0
    <3>. QED
      BY <2>0, <3>1, Zenon
  <2>2. Older(row) = [row EXCEPT !.age = age, !.quiet = quiet]
    BY DEF Older
  <2>. HIDE DEF age, quiet
  <2>3. /\ Older(row) \in SourceRow
        /\ Older(row).status = row.status /\ Older(row).by = row.by
    BY <1>3, <2>1, <2>2 DEF SourceRow
  <2>4. PICK older \in SourceRow : older = Older(row)
    BY <2>3
  <2>5. /\ [older EXCEPT !.quiet = 0] \in SourceRow
        /\ [older EXCEPT !.quiet = 0].status = older.status
        /\ [older EXCEPT !.quiet = 0].by = older.by
    BY DEF SourceRow
  <2>. QED
    BY <2>3, <2>4, <2>5
<1>4. own' \in [Feed -> SourceRow]
  BY <1>0, <1>1, <1>2, <1>3
<1>5. again' = [again EXCEPT !.done = FALSE]
  BY DEF NextDay
<1>6. again'.due = again.due /\ again' = [done |-> again'.done, due |-> again'.due]
  BY <1>0, <1>5
<1>7. UNCHANGED <<finder, decided, overrun>>
  BY DEF NextDay, people
<1>8. SourcesTyped'
  BY <1>4, <1>6, <1>7 DEF SourcesIInv, SourcesTyped
<1>9. ASSUME NEW g \in Feed, decided[g] # "none", g \notin overrun
      PROVE  own'[g].status = decided[g] /\ own'[g].by /\ g \notin DOMAIN again'.due
  <2>1. own[g].status = decided[g] /\ own[g].by /\ g \notin DOMAIN again.due
    BY <1>9 DEF SourcesIInv, DecidedIsLeft
  <2>2. own'[g] = [Older(own[g]) EXCEPT !.quiet = 0]
    BY <1>1, <1>9, <2>1
  <2>. QED
    BY <1>0, <1>3, <1>6, <2>1, <2>2
<1>. QED
  BY <1>7, <1>8, <1>9 DEF SourcesIInv, DecidedIsLeft

LEMMA SourcesStep ==
  ASSUME SourcesIInv, [SourcesNext]_sourceVars
  PROVE  SourcesIInv'
<1>0. finder \in [Discovery -> FinderRow]
  BY DEF SourcesIInv, SourcesTyped
<1>1. ASSUME NEW d \in Discovery, DiscoverBegins(d) \/ DiscoverEnds(d) PROVE SourcesIInv'
  BY <1>1, DiscoverBeginsHolds, DiscoverEndsHolds
<1>2. ASSUME NEW d \in Discovery, NEW f \in Feed, Try(d, f) \/ Upsert(d, f) PROVE SourcesIInv'
  BY <1>2, TryHolds, UpsertHolds
<1>3. ASSUME NEW r \in Round, CollectBegins(r) \/ CollectEnds(r) PROVE SourcesIInv'
  BY <1>0, <1>3, OthersMove DEF CollectBegins, CollectEnds
<1>4. ASSUME NEW r \in Round, NEW f \in Feed, Read(r, f) PROVE SourcesIInv'
  BY <1>0, <1>4, OthersMove DEF Read
<1>5. CASE MaintainArchive
  BY <1>0, <1>5, OthersMove DEF MaintainArchive
<1>6. CASE MaintainNewsroom
  BY <1>6, MaintainNewsroomHolds
<1>7. CASE NextDay
  BY <1>7, NextDayHolds
<1>8. ASSUME NEW f \in Feed, TryAgain(f) \/ Change(f) PROVE SourcesIInv'
  BY <1>0, <1>8, OthersMove DEF TryAgain, Change
<1>9. ASSUME NEW f \in Feed, Reevaluate(f) PROVE SourcesIInv'
  BY <1>9, ReevaluateHolds
<1>10. ASSUME NEW f \in Feed, NEW status \in {"active", "suspended", "rejected"},
              OnPage(f, status) \/ ThroughApi(f, status)
       PROVE  SourcesIInv'
  BY <1>10, PersonSetsHolds DEF OnPage, ThroughApi
<1>11. CASE UNCHANGED sourceVars
  BY <1>0, <1>11, OthersMove DEF sourceVars, people
<1>. QED
  BY <1>1, <1>2, <1>3, <1>4, <1>5, <1>6, <1>7, <1>8, <1>9, <1>10, <1>11 DEF SourcesNext

LEMMA SourcesTell == SourcesIInv => DecisionStands
BY DEF SourcesIInv, DecidedIsLeft, DecisionStands

(* What a person decided of a source stands, whatever discoveries, rounds  *)
(* and maintenances run: only a re-evaluation that had read the row before *)
(* the decision may undo it (sources.maintain, discover; ui_sources, api). *)
THEOREM DecidedStands == SourcesSpec => []DecisionStands
<1>1. SourcesInit => SourcesIInv
  BY SourcesInitHolds
<1>2. SourcesIInv /\ [SourcesNext]_sourceVars => SourcesIInv'
  BY SourcesStep
<1>. QED
  BY <1>1, <1>2, SourcesTell, PTL DEF SourcesSpec
-----------------------------------------------------------------------------
(* The hours.  First what goes out: of each issue, a channel that neither  *)
(* the record nor the sender of it counts has had it only where a death or *)
(* a refusal says so.                                                      *)

IssueRow(k) == [day : Int, marked : SUBSET Channel(k), error : BOOLEAN,
                got : [Channel(k) -> Nat], again : [Channel(k) -> Nat]]
SenderRow(k) == [on : BOOLEAN, left : SUBSET Channel(k), ok : SUBSET Channel(k)]
TickRow == [at : {0, 1, 2, 3, 4, 5, 6}, day : Nat, hour : Nat, maintain : Nat, review : Nat, evening : BOOLEAN, sends : BOOLEAN]
LastRow == [maintain : Nat, review : Nat, evening : Nat, built : Nat]
StoryRow == [at : Int, built : Nat, told : BOOLEAN, waiting : BOOLEAN]

Once(k, issue, sender) ==
  /\ issue \in IssueRow(k) /\ sender \in SenderRow(k)
  /\ ~sender.on => sender.left = {} /\ sender.ok = {}
  /\ sender.left \cap (issue.marked \cup sender.ok) = {}
  /\ \A c \in Channel(k) :
       issue.got[c] <= issue.again[c] + (IF c \in issue.marked \cup sender.ok THEN 1 ELSE 0)

MailOK ==
  /\ post = [k \in Kind |-> post[k]] /\ sending = [k \in Kind |-> sending[k]]
  /\ \A k \in Kind : Once(k, post[k], sending[k])

BriefingSent == "briefing" \in Kind /\ sending["briefing"].on => tick.at = 6 /\ tick.sends

ClockTyped ==
  /\ now \in [day : Nat, hour : Nat] /\ tick \in TickRow /\ last \in LastRow
  /\ queued \in [1..LastDay -> Nat]

(* The evening is recorded before it is queued, and days do not go back.   *)
EveningKept ==
  /\ last.evening <= now.day
  /\ tick.at > 0 => last.evening <= tick.day /\ tick.day <= now.day
  /\ \A d \in 1..LastDay : queued[d] <= 1 /\ (queued[d] = 1 => d <= last.evening)
  /\ tick.at = 3 /\ tick.evening =>
       /\ last.evening = tick.day
       /\ \A d \in 1..LastDay : d = tick.day => queued[d] = 0

PropsTyped == props \in [Proposal -> StoryRow]

TickIInv == ClockTyped /\ EveningKept /\ MailOK /\ BriefingSent /\ PropsTyped /\ WaitingIsTold

LEMMA OnceIssue ==
  ASSUME NEW k, NEW issue, NEW sender, Once(k, issue, sender), ~sender.on, NEW d \in Int
  PROVE  Once(k, Issue(k, d), sender)
<1>. DEFINE new == Issue(k, d)
<1>1. new \in IssueRow(k)
  BY DEF Issue, IssueRow
<1>2. new.marked = {} /\ \A c \in Channel(k) : new.got[c] = 0 /\ new.again[c] = 0
  BY DEF Issue
<1>3. sender \in SenderRow(k) /\ sender.left = {} /\ sender.ok = {}
  BY DEF Once
<1>. HIDE DEF new
<1>4. Once(k, new, sender)
  BY <1>1, <1>2, <1>3 DEF Once, IssueRow
<1>. QED
  BY <1>4 DEF new

LEMMA OnceReads ==
  ASSUME NEW k, NEW issue, NEW sender, Once(k, issue, sender)
  PROVE  Once(k, issue, [on |-> TRUE, left |-> Channel(k) \ issue.marked, ok |-> {}])
         \/ sender.on
<1>. SUFFICES ASSUME ~sender.on
              PROVE  Once(k, issue, [on |-> TRUE, left |-> Channel(k) \ issue.marked, ok |-> {}])
  OBVIOUS
<1>. DEFINE new == [on |-> TRUE, left |-> Channel(k) \ issue.marked, ok |-> {}]
<1>1. new \in SenderRow(k) /\ new.on /\ new.left = Channel(k) \ issue.marked /\ new.ok = {}
  BY DEF SenderRow
<1>2. sender.ok = {}
  BY DEF Once
<1>. HIDE DEF new
<1>3. Once(k, issue, new)
  BY <1>1, <1>2 DEF Once
<1>. QED
  BY <1>3 DEF new

LEMMA OnceSend ==
  ASSUME NEW k, NEW issue, NEW sender, Once(k, issue, sender), NEW c \in sender.left
  PROVE  Once(k, [issue EXCEPT !.got[c] = @ + 1],
                 [sender EXCEPT !.left = @ \ {c}, !.ok = @ \cup {c}])
<1>0. issue \in IssueRow(k) /\ sender \in SenderRow(k) /\ sender.on /\ c \in Channel(k)
  BY DEF Once, SenderRow
<1>. DEFINE got == [issue.got EXCEPT ![c] = issue.got[c] + 1]
            i == [issue EXCEPT !.got = got]
            s == [sender EXCEPT !.left = @ \ {c}, !.ok = @ \cup {c}]
<1>4. issue.got \in [Channel(k) -> Nat] /\ issue.again \in [Channel(k) -> Nat]
  BY <1>0 DEF IssueRow
<1>8. got \in [Channel(k) -> Nat]
  BY <1>0, <1>4
<1>9. got[c] = issue.got[c] + 1 /\ \A e \in Channel(k) \ {c} : got[e] = issue.got[e]
  BY <1>0, <1>4
<1>10. i = [issue EXCEPT !.got[c] = @ + 1]
  OBVIOUS
<1>. HIDE DEF got
<1>1. i \in IssueRow(k) /\ i.marked = issue.marked /\ i.again = issue.again /\ i.got = got
  BY <1>0, <1>8 DEF IssueRow
<1>2. /\ i.got[c] = issue.got[c] + 1
      /\ \A e \in Channel(k) \ {c} : i.got[e] = issue.got[e]
  BY <1>1, <1>9
<1>3. s \in SenderRow(k) /\ s.on = sender.on /\ s.left = sender.left \ {c} /\ s.ok = sender.ok \cup {c}
  BY <1>0 DEF SenderRow
<1>. HIDE DEF i
<1>11. s = [sender EXCEPT !.left = @ \ {c}, !.ok = @ \cup {c}]
  OBVIOUS
<1>. HIDE DEF s
<1>5. s.left \cap (i.marked \cup s.ok) = {}
  BY <1>1, <1>3 DEF Once
<1>6. ASSUME NEW e \in Channel(k)
      PROVE  i.got[e] <= i.again[e] + (IF e \in i.marked \cup s.ok THEN 1 ELSE 0)
  <2>1. issue.got[e] <= issue.again[e] + (IF e \in issue.marked \cup sender.ok THEN 1 ELSE 0)
    BY DEF Once
  <2>2. CASE e = c
    <3>1. c \notin issue.marked \cup sender.ok /\ c \in i.marked \cup s.ok
      BY <1>3 DEF Once
    <3>. QED
      BY <1>1, <1>2, <1>4, <2>1, <2>2, <3>1
  <2>3. CASE e # c
    <3>1. e \in i.marked \cup s.ok <=> e \in issue.marked \cup sender.ok
      BY <1>1, <1>3, <2>3
    <3>. QED
      BY <1>1, <1>2, <1>4, <2>1, <2>3, <3>1
  <2>. QED
    BY <2>2, <2>3
<1>7. Once(k, i, s)
  BY <1>0, <1>1, <1>3, <1>5, <1>6 DEF Once
<1>. QED
  BY <1>7, <1>10, <1>11

LEMMA OnceRefused ==
  ASSUME NEW k, NEW issue, NEW sender, Once(k, issue, sender), NEW c \in sender.left, NEW p \in Nat
  PROVE  Once(k, [issue EXCEPT !.got[c] = @ + p, !.again[c] = @ + p],
                 [sender EXCEPT !.left = @ \ {c}])
<1>0. issue \in IssueRow(k) /\ sender \in SenderRow(k) /\ sender.on /\ c \in Channel(k)
  BY DEF Once, SenderRow
<1>. DEFINE got == [issue.got EXCEPT ![c] = issue.got[c] + p]
            more == [issue.again EXCEPT ![c] = issue.again[c] + p]
            i == [issue EXCEPT !.got = got, !.again = more]
            s == [sender EXCEPT !.left = @ \ {c}]
<1>4. issue.got \in [Channel(k) -> Nat] /\ issue.again \in [Channel(k) -> Nat]
  BY <1>0 DEF IssueRow
<1>8. got \in [Channel(k) -> Nat] /\ more \in [Channel(k) -> Nat]
  BY <1>0, <1>4
<1>9. /\ got[c] = issue.got[c] + p /\ \A e \in Channel(k) \ {c} : got[e] = issue.got[e]
      /\ more[c] = issue.again[c] + p /\ \A e \in Channel(k) \ {c} : more[e] = issue.again[e]
  BY <1>0, <1>4
<1>10. i = [issue EXCEPT !.got[c] = @ + p, !.again[c] = @ + p]
  OBVIOUS
<1>. HIDE DEF got, more
<1>1. i \in IssueRow(k) /\ i.marked = issue.marked /\ i.got = got /\ i.again = more
  BY <1>0, <1>8 DEF IssueRow
<1>2. /\ i.got[c] = issue.got[c] + p /\ i.again[c] = issue.again[c] + p
      /\ \A e \in Channel(k) \ {c} : i.got[e] = issue.got[e] /\ i.again[e] = issue.again[e]
  BY <1>1, <1>9
<1>3. s \in SenderRow(k) /\ s.on = sender.on /\ s.left = sender.left \ {c} /\ s.ok = sender.ok
  BY <1>0 DEF SenderRow
<1>. HIDE DEF i
<1>11. s = [sender EXCEPT !.left = @ \ {c}]
  OBVIOUS
<1>. HIDE DEF s
<1>5. s.left \cap (i.marked \cup s.ok) = {}
  BY <1>1, <1>3 DEF Once
<1>6. ASSUME NEW e \in Channel(k)
      PROVE  i.got[e] <= i.again[e] + (IF e \in i.marked \cup s.ok THEN 1 ELSE 0)
  <2>1. issue.got[e] <= issue.again[e] + (IF e \in issue.marked \cup sender.ok THEN 1 ELSE 0)
    BY DEF Once
  <2>2. \E q \in Nat : i.got[e] = issue.got[e] + q /\ i.again[e] = issue.again[e] + q
    <3>1. CASE e = c
      BY <1>2, <3>1
    <3>2. CASE e # c
      <4>1. i.got[e] = issue.got[e] + 0 /\ i.again[e] = issue.again[e] + 0
        BY <1>2, <1>4, <3>2
      <4>. QED
        BY <4>1
    <3>. QED
      BY <3>1, <3>2
  <2>. QED
    BY <1>1, <1>3, <1>4, <2>1, <2>2
<1>7. Once(k, i, s)
  BY <1>0, <1>1, <1>3, <1>5, <1>6 DEF Once
<1>. QED
  BY <1>7, <1>10, <1>11

LEMMA OnceRecords ==
  ASSUME NEW k, NEW issue, NEW sender, Once(k, issue, sender), NEW error \in BOOLEAN
  PROVE  Once(k, [issue EXCEPT !.marked = @ \cup sender.ok, !.error = error], Quiet)
<1>0. issue \in IssueRow(k) /\ sender \in SenderRow(k)
  BY DEF Once
<1>. DEFINE i == [issue EXCEPT !.marked = @ \cup sender.ok, !.error = error]
<1>1. /\ i \in IssueRow(k) /\ i.marked = issue.marked \cup sender.ok
      /\ i.got = issue.got /\ i.again = issue.again
  BY <1>0 DEF IssueRow, SenderRow
<1>2. Quiet \in SenderRow(k) /\ ~Quiet.on /\ Quiet.left = {} /\ Quiet.ok = {}
  BY DEF Quiet, SenderRow
<1>. HIDE DEF i
<1>3. Once(k, i, Quiet)
  BY <1>1, <1>2 DEF Once
<1>. QED
  BY <1>3 DEF i

LEMMA OnceDies ==
  ASSUME NEW k, NEW issue, NEW sender, Once(k, issue, sender)
  PROVE  Once(k, [issue EXCEPT !.again =
                    [c \in Channel(k) |-> @[c] + (IF c \in sender.ok THEN 1 ELSE 0)]], Quiet)
<1>0. issue \in IssueRow(k) /\ sender \in SenderRow(k)
  BY DEF Once
<1>. DEFINE more == [c \in Channel(k) |-> issue.again[c] + (IF c \in sender.ok THEN 1 ELSE 0)]
            i == [issue EXCEPT !.again = more]
<1>1. issue.got \in [Channel(k) -> Nat] /\ issue.again \in [Channel(k) -> Nat]
  BY <1>0 DEF IssueRow
<1>2. more \in [Channel(k) -> Nat]
  BY <1>1
<1>3. \A c \in Channel(k) : more[c] = issue.again[c] + (IF c \in sender.ok THEN 1 ELSE 0)
  OBVIOUS
<1>. HIDE DEF more
<1>4. /\ i \in IssueRow(k) /\ i.marked = issue.marked
      /\ i.got = issue.got /\ i.again = more
  BY <1>0, <1>2 DEF IssueRow
<1>5. Quiet \in SenderRow(k) /\ ~Quiet.on /\ Quiet.left = {} /\ Quiet.ok = {}
  BY DEF Quiet, SenderRow
<1>6. i = [issue EXCEPT !.again = [c \in Channel(k) |-> @[c] + (IF c \in sender.ok THEN 1 ELSE 0)]]
  BY DEF more
<1>. HIDE DEF i
<1>7. ASSUME NEW e \in Channel(k)
      PROVE  i.got[e] <= i.again[e] + (IF e \in i.marked \cup Quiet.ok THEN 1 ELSE 0)
  <2>1. issue.got[e] <= issue.again[e] + (IF e \in issue.marked \cup sender.ok THEN 1 ELSE 0)
    BY DEF Once
  <2>. QED
    BY <1>1, <1>3, <1>4, <1>5, <2>1
<1>8. Once(k, i, Quiet)
  BY <1>4, <1>5, <1>7 DEF Once
<1>. QED
  BY <1>6, <1>8

(* The clock's assumptions: weeks have days, and the bound is a day.       *)
Calendar == Week \in Nat \ {0} /\ LastDay \in Nat

LEMMA AtIs ==
  ASSUME tick \in TickRow
  PROVE  /\ At("maintain") <=> tick.at = 1
         /\ At("mark") <=> tick.at = 2
         /\ At("queue") <=> tick.at = 3
         /\ At("review") <=> tick.at = 4
         /\ At("build") <=> tick.at = 5
         /\ At("send") <=> tick.at = 6
<1>1. tick.at \in {0, 1, 2, 3, 4, 5, 6}
  BY DEF TickRow
<1>2. /\ Step[1] = "maintain" /\ Step[2] = "mark" /\ Step[3] = "queue"
      /\ Step[4] = "review" /\ Step[5] = "build" /\ Step[6] = "send"
  BY DEF Step
<1>. QED
  BY <1>1, <1>2 DEF At

LEMMA NoTickRow == NoTick \in TickRow /\ NoTick.at = 0
BY DEF NoTick, TickRow

LEMMA GoGoes ==
  ASSUME tick \in TickRow, tick.at > 0, Go
  PROVE  /\ tick' \in TickRow
         /\ tick'.at = 0 \/ tick' = [tick EXCEPT !.at = @ + 1]
         /\ tick.at = 6 => tick'.at = 0
         /\ tick'.at = 0 \/ (tick'.at = tick.at + 1 /\ tick'.day = tick.day)
<1>1. Len(Step) = 6
  BY DEF Step
<1>2. tick.at \in {0, 1, 2, 3, 4, 5, 6}
  BY DEF TickRow
<1>3. CASE tick.at = 6
  BY <1>1, <1>3, NoTickRow DEF Go
<1>4. CASE tick.at # 6
  <2>1. tick' = [tick EXCEPT !.at = @ + 1]
    BY <1>1, <1>4 DEF Go
  <2>2. tick.at + 1 \in {0, 1, 2, 3, 4, 5, 6}
    BY <1>2, <1>4
  <2>3. tick' \in TickRow
    BY <2>1, <2>2 DEF TickRow
  <2>4. tick'.at = tick.at + 1 /\ tick'.day = tick.day
    BY <2>1 DEF TickRow
  <2>. QED
    BY <1>4, <2>1, <2>3, <2>4
<1>. QED
  BY <1>3, <1>4

(* The tick goes on or ends, and nothing it keeps of the evening changes.  *)
LEMMA ClockGoes ==
  ASSUME ClockTyped, EveningKept, UNCHANGED <<now, queued>>,
         last' \in LastRow, last'.evening = last.evening, tick' \in TickRow,
         \/ tick'.at = 0
         \/ tick.at > 0 /\ tick'.day = tick.day /\ (tick'.at = 3 => tick.at = 3 /\ tick'.evening = tick.evening)
  PROVE  ClockTyped' /\ EveningKept'
<1>1. ClockTyped'
  BY DEF ClockTyped
<1>2. tick'.at \in {0, 1, 2, 3, 4, 5, 6} /\ tick.at \in {0, 1, 2, 3, 4, 5, 6}
  BY DEF ClockTyped, TickRow
<1>3. EveningKept'
  <2>1. last'.evening <= now'.day
    BY DEF EveningKept
  <2>2. tick'.at > 0 => last'.evening <= tick'.day /\ tick'.day <= now'.day
    BY <1>2 DEF EveningKept
  <2>3. \A d \in 1..LastDay : queued'[d] <= 1 /\ (queued'[d] = 1 => d <= last'.evening)
    BY DEF EveningKept
  <2>4. tick'.at = 3 /\ tick'.evening =>
          /\ last'.evening = tick'.day
          /\ \A d \in 1..LastDay : d = tick'.day => queued'[d] = 0
    <3>1. tick'.at = 3 => tick'.day = tick.day /\ tick.at = 3
      BY <1>2
    <3>2. tick'.at = 3 => tick'.evening = tick.evening
      BY <1>2
    <3>3. tick'.at = 3 /\ tick'.evening => tick.at = 3 /\ tick.evening
      BY <3>1, <3>2, Zenon
    <3>. QED
      BY <3>1, <3>3 DEF EveningKept
  <2>. QED
    BY <2>1, <2>2, <2>3, <2>4 DEF EveningKept
<1>. QED
  BY <1>1, <1>3

LEMMA ClockRests ==
  ASSUME ClockTyped, EveningKept, UNCHANGED <<now, tick, last, queued>>
  PROVE  ClockTyped' /\ EveningKept'
BY DEF ClockTyped, EveningKept

LEMMA MailRow ==
  ASSUME MailOK, NEW k \in Kind, NEW issue, NEW sender, Once(k, issue, sender),
         post' = [post EXCEPT ![k] = issue], sending' = [sending EXCEPT ![k] = sender]
  PROVE  /\ MailOK'
         /\ \A j \in Kind : sending'[j] = IF j = k THEN sender ELSE sending[j]
<1>1. post = [j \in Kind |-> post[j]] /\ sending = [j \in Kind |-> sending[j]]
  BY DEF MailOK
<1>2. post' = [j \in Kind |-> IF j = k THEN issue ELSE post[j]]
  BY <1>1
<1>3. sending' = [j \in Kind |-> IF j = k THEN sender ELSE sending[j]]
  BY <1>1
<1>4. post' = [j \in Kind |-> post'[j]] /\ sending' = [j \in Kind |-> sending'[j]]
  BY <1>2, <1>3
<1>5. ASSUME NEW j \in Kind PROVE Once(j, post'[j], sending'[j])
  <2>1. CASE j = k
    BY <1>2, <1>3, <2>1
  <2>2. CASE j # k
    <3>1. post'[j] = post[j] /\ sending'[j] = sending[j]
      BY <1>2, <1>3, <2>2
    <3>. QED
      BY <3>1 DEF MailOK
  <2>. QED
    BY <2>1, <2>2
<1>. QED
  BY <1>3, <1>4, <1>5 DEF MailOK

LEMMA MailRests ==
  ASSUME MailOK, UNCHANGED <<post, sending>>
  PROVE  MailOK'
BY DEF MailOK

LEMMA PropsRest ==
  ASSUME PropsTyped, WaitingIsTold, UNCHANGED props, last'.built = last.built
  PROVE  PropsTyped' /\ WaitingIsTold'
BY DEF PropsTyped, WaitingIsTold

LEMMA TickInitHolds ==
  ASSUME Calendar, TickInit
  PROVE  TickIInv
<1>1. ClockTyped
  <2>1. now \in [day : Nat, hour : Nat] /\ last \in LastRow
    BY DEF TickInit, LastRow, Night
  <2>2. queued \in [1..LastDay -> Nat]
    BY DEF TickInit
  <2>. QED
    BY <2>1, <2>2, NoTickRow DEF TickInit, ClockTyped
<1>2. EveningKept
  <2>1. now.day = 1 /\ last.evening = 0 /\ tick.at = 0 /\ \A d \in 1..LastDay : queued[d] = 0
    BY NoTickRow DEF TickInit
  <2>. QED
    BY <2>1 DEF EveningKept
<1>3. MailOK
  <2>1. \A k \in Kind : Issue(k, 0) \in IssueRow(k) /\ Issue(k, 0).marked = {}
    BY DEF Issue, IssueRow
  <2>2. \A k \in Kind : \A c \in Channel(k) : Issue(k, 0).got[c] = 0 /\ Issue(k, 0).again[c] = 0
    BY DEF Issue
  <2>3. \A k \in Kind : Quiet \in SenderRow(k)
    BY DEF Quiet, SenderRow
  <2>4. ~Quiet.on /\ Quiet.left = {} /\ Quiet.ok = {}
    BY DEF Quiet
  <2>5. \A k \in Kind : Once(k, Issue(k, 0), Quiet)
    BY <2>1, <2>2, <2>3, <2>4 DEF Once
  <2>6. post = [k \in Kind |-> Issue(k, 0)] /\ sending = [k \in Kind |-> Quiet]
    BY DEF TickInit
  <2>. QED
    BY <2>5, <2>6 DEF MailOK
<1>4. BriefingSent
  BY DEF TickInit, BriefingSent, Quiet
<1>5. PropsTyped /\ WaitingIsTold
  BY DEF TickInit, PropsTyped, WaitingIsTold, Unborn, StoryRow
<1>. QED
  BY <1>1, <1>2, <1>3, <1>4, <1>5 DEF TickIInv

LEMMA TickBeginsHolds ==
  ASSUME TickIInv, TickBegins
  PROVE  TickIInv'
<1>1. now \in [day : Nat, hour : Nat] /\ last \in LastRow
  BY DEF TickIInv, ClockTyped
<1>2. tick' = [at |-> 1, day |-> now.day, hour |-> now.hour, maintain |-> last.maintain,
               review |-> last.review, evening |-> FALSE, sends |-> FALSE]
  BY DEF TickBegins
<1>3. tick' \in TickRow
  BY <1>1, <1>2 DEF TickRow, LastRow
<1>4. tick'.at = 1 /\ tick'.day = now.day /\ ~tick'.evening
  BY <1>2
<1>5. UNCHANGED <<now, last, queued, props, post, sending>>
  BY DEF TickBegins, mail
<1>6. ClockTyped'
  BY <1>3, <1>5 DEF TickIInv, ClockTyped
<1>7. EveningKept'
  <2>1. now'.day = now.day /\ now.day \in Nat
    BY <1>1, <1>5
  <2>. QED
    BY <1>4, <1>5, <2>1 DEF TickIInv, EveningKept
<1>8. tick.at = 0
  BY NoTickRow DEF TickBegins
<1>9. BriefingSent'
  BY <1>5, <1>8 DEF TickIInv, BriefingSent
<1>. QED
  BY <1>5, <1>6, <1>7, <1>9, MailRests, PropsRest DEF TickIInv

LEMMA TrackedHolds ==
  ASSUME TickIInv, NEW kind \in {"maintain", "review"}, NEW due, Tracked(kind, due)
  PROVE  TickIInv'
<1>1. last \in LastRow /\ tick \in TickRow /\ now.day \in Nat
  BY DEF TickIInv, ClockTyped
<1>2. tick.at \in {1, 4} /\ Go
  BY <1>1, AtIs DEF Tracked
<1>3. UNCHANGED <<now, queued, props, post, sending>>
  BY DEF Tracked
<1>4. last' = last \/ last' = [last EXCEPT ![kind] = now.day]
  BY DEF Tracked
<1>5. last' \in LastRow /\ last'.evening = last.evening /\ last'.built = last.built
  <2>1. CASE kind = "maintain"
    BY <1>1, <1>4, <2>1 DEF LastRow
  <2>2. CASE kind = "review"
    BY <1>1, <1>4, <2>2 DEF LastRow
  <2>. QED
    BY <2>1, <2>2
<1>6. tick' \in TickRow /\ (tick'.at = 0 \/ (tick'.at = tick.at + 1 /\ tick'.day = tick.day))
  BY <1>1, <1>2, GoGoes
<1>7. ClockTyped' /\ EveningKept'
  BY <1>2, <1>3, <1>5, <1>6, ClockGoes DEF TickIInv
<1>8. BriefingSent'
  BY <1>2, <1>3 DEF TickIInv, BriefingSent
<1>. QED
  BY <1>3, <1>5, <1>7, <1>8, MailRests, PropsRest DEF TickIInv

LEMMA MarkEveningHolds ==
  ASSUME Calendar, TickIInv, MarkEvening
  PROVE  TickIInv'
<1>1. /\ last \in LastRow /\ tick \in TickRow /\ now \in [day : Nat, hour : Nat]
      /\ queued \in [1..LastDay -> Nat]
  BY DEF TickIInv, ClockTyped
<1>2. tick.at = 2 /\ tick.day \in Nat /\ last.evening \in Nat /\ last.evening <= tick.day /\ tick.day <= now.day
  BY <1>1, AtIs DEF MarkEvening, TickIInv, EveningKept, TickRow, LastRow
<1>3. UNCHANGED <<now, queued, props, post, sending>>
  BY DEF MarkEvening, mail
<1>4. PICK due \in BOOLEAN : due = EveningDue
  BY DEF EveningDue
<1>5. due => last.evening # tick.day
  BY <1>4 DEF EveningDue
<1>6. tick' = [tick EXCEPT !.at = @ + 1, !.evening = due]
  BY <1>4 DEF MarkEvening
<1>7. last' = IF due THEN [last EXCEPT !.evening = tick.day] ELSE last
  BY <1>4 DEF MarkEvening
<1>8. tick' \in TickRow /\ tick'.at = 3 /\ tick'.day = tick.day /\ tick'.evening = due
  <2>1. tick.at + 1 = 3
    BY <1>2
  <2>2. tick' = [tick EXCEPT !.at = 3, !.evening = due]
    BY <1>6, <2>1
  <2>3. 3 \in {0, 1, 2, 3, 4, 5, 6}
    OBVIOUS
  <2>6. PICK new : new = tick'
    OBVIOUS
  <2>4. tick' \in TickRow /\ tick'.at = 3 /\ tick'.day = tick.day
    <3>1. new = [tick EXCEPT !.at = 3, !.evening = due]
      BY <2>2, <2>6
    <3>2. new \in TickRow /\ new.at = 3 /\ new.day = tick.day
      <4>1. PICK row \in TickRow : row = tick
        BY <1>1
      <4>2. new = [row EXCEPT !.at = 3, !.evening = due]
        BY <3>1, <4>1
      <4>3. new \in TickRow /\ new.at = 3 /\ new.day = row.day
        BY ONLY row \in TickRow, due \in BOOLEAN, <4>2 DEF TickRow
      <4>. QED
        BY <4>1, <4>3
    <3>. QED
      BY <2>6, <3>2
  <2>5. tick'.evening = due
    BY <1>1, <2>2, Zenon DEF TickRow
  <2>. QED
    BY <2>4, <2>5
<1>9. /\ last' \in LastRow /\ last'.built = last.built
      /\ due => last'.evening = tick.day
      /\ ~due => last'.evening = last.evening
  BY <1>1, <1>2, <1>7 DEF LastRow
<1>10. ClockTyped'
  BY <1>1, <1>3, <1>8, <1>9 DEF ClockTyped
<1>11. EveningKept'
  <2>1. \A d \in 1..LastDay : d \in Int /\ queued[d] \in Nat /\ queued[d] <= 1 /\ (queued[d] = 1 => d <= last.evening)
    BY <1>1 DEF TickIInv, EveningKept, Calendar
  <2>2. last'.evening <= tick.day /\ last.evening <= last'.evening /\ last'.evening \in Nat
    BY <1>2, <1>9
  <2>3. \A d \in 1..LastDay : queued'[d] <= 1 /\ (queued'[d] = 1 => d <= last'.evening)
    BY <1>2, <1>3, <2>1, <2>2
  <2>4. due => \A d \in 1..LastDay : d = tick.day => queued'[d] = 0
    BY <1>2, <1>3, <1>5, <2>1
  <2>5. last'.evening <= now'.day
    BY <1>1, <1>2, <1>3, <2>2
  <2>6. tick'.at > 0 => last'.evening <= tick'.day /\ tick'.day <= now'.day
    BY <1>2, <1>3, <1>8, <2>2
  <2>7. tick'.at = 3 /\ tick'.evening =>
          /\ last'.evening = tick'.day
          /\ \A d \in 1..LastDay : d = tick'.day => queued'[d] = 0
    BY <1>8, <1>9, <2>4
  <2>. QED
    BY <2>3, <2>5, <2>6, <2>7 DEF EveningKept
<1>12. BriefingSent'
  BY <1>2, <1>3 DEF TickIInv, BriefingSent
<1>. QED
  BY <1>3, <1>9, <1>10, <1>11, <1>12, MailRests, PropsRest DEF TickIInv

LEMMA QueueEveningHolds ==
  ASSUME Calendar, TickIInv, QueueEvening
  PROVE  TickIInv'
<1>1. /\ last \in LastRow /\ tick \in TickRow /\ now \in [day : Nat, hour : Nat]
      /\ queued \in [1..LastDay -> Nat]
  BY DEF TickIInv, ClockTyped
<1>2. tick.at = 3 /\ Go
  BY <1>1, AtIs DEF QueueEvening
<1>3. UNCHANGED <<now, last, props, post, sending>>
  BY DEF QueueEvening, mail
<1>4. queued' = IF tick.evening THEN [queued EXCEPT ![tick.day] = @ + 1] ELSE queued
  BY DEF QueueEvening
<1>5. queued' \in [1..LastDay -> Nat]
  <2>1. \A d \in 1..LastDay : queued[d] + 1 \in Nat
    BY <1>1
  <2>2. CASE tick.evening
    BY <1>1, <1>4, <2>1, <2>2
  <2>3. CASE ~tick.evening
    BY <1>1, <1>4, <2>3
  <2>. QED
    BY <2>2, <2>3
<1>6. tick' \in TickRow /\ (tick'.at = 0 \/ (tick'.at = 4 /\ tick'.day = tick.day))
  BY <1>1, <1>2, GoGoes
<1>7. ClockTyped'
  BY <1>1, <1>3, <1>5, <1>6 DEF ClockTyped
<1>8. EveningKept'
  <2>1. \A d \in 1..LastDay : d \in Int /\ queued[d] \in Nat /\ queued[d] <= 1 /\ (queued[d] = 1 => d <= last.evening)
    BY <1>1 DEF TickIInv, EveningKept, Calendar
  <2>2. last.evening <= now.day /\ last.evening <= tick.day /\ tick.day <= now.day
    BY <1>2 DEF TickIInv, EveningKept
  <2>3. tick.evening => last.evening = tick.day /\ \A d \in 1..LastDay : d = tick.day => queued[d] = 0
    BY <1>2 DEF TickIInv, EveningKept
  <2>4. ASSUME NEW d \in 1..LastDay PROVE queued'[d] <= 1 /\ (queued'[d] = 1 => d <= last.evening)
    <3>1. CASE tick.evening /\ d = tick.day
      <4>1. queued'[d] = 1 /\ last.evening = d
        BY <1>1, <1>4, <2>1, <2>3, <3>1
      <4>. QED
        BY <2>1, <4>1
    <3>2. CASE ~(tick.evening /\ d = tick.day)
      BY <1>1, <1>4, <2>1, <3>2
    <3>. QED
      BY <3>1, <3>2
  <2>5. tick'.at # 3
    BY <1>6
  <2>. QED
    BY <1>3, <1>6, <2>2, <2>4, <2>5 DEF EveningKept
<1>9. BriefingSent'
  BY <1>2, <1>3 DEF TickIInv, BriefingSent
<1>. QED
  BY <1>3, <1>7, <1>8, <1>9, MailRests, PropsRest DEF TickIInv

LEMMA BuildHolds ==
  ASSUME TickIInv, Build
  PROVE  TickIInv'
<1>1. /\ last \in LastRow /\ tick \in TickRow /\ now \in [day : Nat, hour : Nat]
      /\ props \in [Proposal -> StoryRow]
  BY DEF TickIInv, ClockTyped, PropsTyped
<1>2. tick.at = 5 /\ "briefing" \in Kind
  BY <1>1, AtIs DEF Build
<1>3. UNCHANGED <<now, queued, sending>>
  BY DEF Build
<1>4. last' \in LastRow /\ last'.evening = last.evening /\ last'.built = last.built + 1
  <2>1. last' = [last EXCEPT !.built = @ + 1]
    BY DEF Build
  <2>. QED
    BY <1>1, <2>1 DEF LastRow
<1>5. tick' \in TickRow /\ tick'.at = 6 /\ tick'.day = tick.day
  <2>1. tick' = [tick EXCEPT !.at = 6, !.sends = TRUE]
    BY <1>2 DEF Build
  <2>2. 6 \in {0, 1, 2, 3, 4, 5, 6}
    OBVIOUS
  <2>3. PICK new : new = tick'
    OBVIOUS
  <2>4. PICK row \in TickRow : row = tick
    BY <1>1
  <2>6. new = [row EXCEPT !.at = 6, !.sends = TRUE]
    BY <2>1, <2>3, <2>4
  <2>5. new \in TickRow /\ new.at = 6 /\ new.day = tick.day
    <3>1. new \in TickRow /\ new.at = 6 /\ new.day = row.day
      BY ONLY row \in TickRow, <2>6 DEF TickRow
    <3>. QED
      BY <2>4, <3>1
  <2>. QED
    BY <2>3, <2>5
<1>6. ClockTyped' /\ EveningKept'
  BY <1>2, <1>3, <1>4, <1>5, ClockGoes DEF TickIInv
<1>7. ~sending["briefing"].on
  BY <1>2 DEF TickIInv, BriefingSent
<1>8. MailOK'
  <2>1. tick.day \in Int
    BY <1>1 DEF TickRow
  <2>2. Once("briefing", post["briefing"], sending["briefing"])
    BY <1>2 DEF TickIInv, MailOK
  <2>3. Once("briefing", Issue("briefing", tick.day), sending["briefing"])
    BY <1>7, <2>1, <2>2, OnceIssue
  <2>4. post' = [post EXCEPT !["briefing"] = Issue("briefing", tick.day)]
    BY DEF Build
  <2>5. sending' = [sending EXCEPT !["briefing"] = sending["briefing"]]
    BY <1>3 DEF TickIInv, MailOK
  <2>. QED
    BY <1>2, <2>3, <2>4, <2>5, MailRow DEF TickIInv
<1>9. BriefingSent'
  BY <1>3, <1>7 DEF BriefingSent
<1>10. props' = [p \in Proposal |-> IF Told(p) THEN [props[p] EXCEPT !.told = TRUE] ELSE props[p]]
  BY DEF Build
<1>11. PropsTyped'
  <2>1. \A p \in Proposal : [props[p] EXCEPT !.told = TRUE] \in StoryRow
    BY <1>1 DEF StoryRow
  <2>. QED
    BY <1>1, <1>10, <2>1 DEF PropsTyped
<1>12. WaitingIsTold'
  <2>1. ASSUME NEW p \in Proposal, props'[p].waiting, props'[p].built > 0, ~props'[p].told
        PROVE  FALSE
    <3>1. props[p] \in StoryRow /\ last.built \in Nat
      BY <1>1 DEF LastRow
    <3>2. ~Told(p)
      <4>1. Told(p) => props'[p].told
        BY <1>10, <3>1 DEF StoryRow
      <4>. QED
        BY <2>1, <4>1
    <3>3. props'[p] = props[p]
      BY <1>10, <3>2
    <3>4. props[p].built = last.built
      BY <2>1, <3>3 DEF TickIInv, WaitingIsTold
    <3>5. last.built # 0
      BY <2>1, <3>1, <3>3, <3>4
    <3>6. Since(p)
      BY <3>4, <3>5 DEF Since
    <3>. QED
      BY <2>1, <3>2, <3>3, <3>6 DEF Told
  <2>. QED
    BY <2>1 DEF WaitingIsTold
<1>. QED
  BY <1>6, <1>8, <1>9, <1>11, <1>12 DEF TickIInv

LEMMA NoBuildHolds ==
  ASSUME TickIInv, NoBuild
  PROVE  TickIInv'
<1>1. last \in LastRow /\ tick \in TickRow
  BY DEF TickIInv, ClockTyped
<1>2. tick.at = 5
  BY <1>1, AtIs DEF NoBuild
<1>3. UNCHANGED <<now, last, queued, props, post, sending>>
  BY DEF NoBuild, mail
<1>4. PICK sends \in BOOLEAN : tick' = [tick EXCEPT !.at = 6, !.sends = sends]
  <2>1. PICK sends \in BOOLEAN : sends = (/\ InWindow /\ "briefing" \in Kind
                                        /\ post["briefing"].day = tick.day /\ post["briefing"].error)
    OBVIOUS
  <2>2. tick' = [tick EXCEPT !.at = @ + 1, !.sends = sends]
    BY <2>1 DEF NoBuild
  <2>3. tick.at + 1 = 6
    BY <1>2
  <2>4. tick' = [tick EXCEPT !.at = 6, !.sends = sends]
    BY <2>2, <2>3, Zenon
  <2>. QED
    BY <2>4, Zenon
<1>5. tick' \in TickRow /\ tick'.at = 6 /\ tick'.day = tick.day
  <2>1. 6 \in {0, 1, 2, 3, 4, 5, 6}
    OBVIOUS
  <2>2. PICK new : new = tick'
    OBVIOUS
  <2>4. PICK row \in TickRow : row = tick
    BY <1>1
  <2>6. new = [row EXCEPT !.at = 6, !.sends = sends]
    BY <1>4, <2>2, <2>4
  <2>5. new \in TickRow /\ new.at = 6 /\ new.day = tick.day
    <3>1. new \in TickRow /\ new.at = 6 /\ new.day = row.day
      BY ONLY row \in TickRow, sends \in BOOLEAN, <2>6 DEF TickRow
    <3>. QED
      BY <2>4, <3>1
  <2>. QED
    BY <2>2, <2>5
<1>6. ClockTyped' /\ EveningKept'
  BY <1>1, <1>2, <1>3, <1>5, ClockGoes DEF TickIInv
<1>7. BriefingSent'
  BY <1>2, <1>3 DEF TickIInv, BriefingSent
<1>. QED
  BY <1>3, <1>6, <1>7, MailRests, PropsRest DEF TickIInv

LEMMA NotSentHolds ==
  ASSUME TickIInv, NotSent
  PROVE  TickIInv'
<1>1. last \in LastRow /\ tick \in TickRow
  BY DEF TickIInv, ClockTyped
<1>2. tick.at = 6 /\ ~tick.sends /\ Go
  BY <1>1, AtIs DEF NotSent
<1>3. UNCHANGED <<now, last, queued, props, post, sending>>
  BY DEF NotSent, mail
<1>4. tick' \in TickRow /\ tick'.at = 0
  BY <1>1, <1>2, GoGoes
<1>5. ClockTyped' /\ EveningKept'
  BY <1>1, <1>3, <1>4, ClockGoes DEF TickIInv
<1>6. BriefingSent'
  BY <1>2, <1>3 DEF TickIInv, BriefingSent
<1>. QED
  BY <1>3, <1>5, <1>6, MailRests, PropsRest DEF TickIInv

LEMMA IssuedHolds ==
  ASSUME TickIInv, NEW k \in Kind, NEW d \in Int, ~sending[k].on,
         post' = [post EXCEPT ![k] = Issue(k, d)],
         UNCHANGED <<now, tick, last, queued, props, sending>>
  PROVE  TickIInv'
<1>1. Once(k, post[k], sending[k])
  BY DEF TickIInv, MailOK
<1>2. Once(k, Issue(k, d), sending[k])
  BY <1>1, OnceIssue
<1>3. sending' = [sending EXCEPT ![k] = sending[k]]
  BY DEF TickIInv, MailOK
<1>4. MailOK'
  BY <1>2, <1>3, MailRow DEF TickIInv
<1>5. ClockTyped' /\ EveningKept'
  BY ClockRests DEF TickIInv
<1>6. BriefingSent'
  BY DEF TickIInv, BriefingSent
<1>. QED
  BY <1>4, <1>5, <1>6, PropsRest DEF TickIInv

LEMMA SendReadsHolds ==
  ASSUME TickIInv, NEW k \in Kind, SendReads(k)
  PROVE  TickIInv'
<1>1. Once(k, post[k], sending[k]) /\ tick \in TickRow
  BY DEF TickIInv, MailOK, ClockTyped
<1>2. UNCHANGED <<now, tick, last, queued, props, post>> /\ ~sending[k].on
  BY DEF SendReads
<1>. DEFINE sender == [on |-> TRUE, left |-> Channel(k) \ post[k].marked, ok |-> {}]
<1>3. sending' = [sending EXCEPT ![k] = sender]
  BY DEF SendReads, Unsent
<1>4. Once(k, post[k], sender)
  BY <1>1, <1>2, OnceReads
<1>. HIDE DEF sender
<1>5. post' = [post EXCEPT ![k] = post[k]]
  BY <1>2 DEF TickIInv, MailOK
<1>6. MailOK' /\ \A j \in Kind : sending'[j] = IF j = k THEN sender ELSE sending[j]
  BY <1>3, <1>4, <1>5, MailRow DEF TickIInv
<1>7. k = "briefing" => tick.at = 6 /\ tick.sends
  BY <1>1, AtIs DEF SendReads, MaySend
<1>8. BriefingSent'
  BY <1>2, <1>6, <1>7 DEF TickIInv, BriefingSent
<1>9. ClockTyped' /\ EveningKept'
  BY <1>2, ClockRests DEF TickIInv
<1>. QED
  BY <1>2, <1>6, <1>8, <1>9, PropsRest DEF TickIInv

(* A channel is told, or refuses: its issue and its sender change together.*)
LEMMA SendingHolds ==
  ASSUME TickIInv, NEW k \in Kind, NEW issue, NEW sender, Once(k, issue, sender),
         sender.on = sending[k].on,
         post' = [post EXCEPT ![k] = issue], sending' = [sending EXCEPT ![k] = sender],
         UNCHANGED <<now, tick, last, queued, props>>
  PROVE  TickIInv'
<1>0. MailOK
  BY DEF TickIInv
<1>1. MailOK' /\ \A j \in Kind : sending'[j] = IF j = k THEN sender ELSE sending[j]
  <2>. HIDE DEF MailOK, Once
  <2>. QED
    BY ONLY <1>0, MailRow, k \in Kind, Once(k, issue, sender), post' = [post EXCEPT ![k] = issue],
            sending' = [sending EXCEPT ![k] = sender]
<1>2. \A j \in Kind : sending'[j].on = sending[j].on
  BY <1>1
<1>3. "briefing" \in Kind /\ sending'["briefing"].on => sending["briefing"].on
  BY <1>2, Zenon
<1>4. BriefingSent'
  BY <1>3 DEF TickIInv, BriefingSent
<1>5. ClockTyped' /\ EveningKept'
  BY ClockRests DEF TickIInv
<1>. QED
  BY <1>1, <1>4, <1>5, PropsRest DEF TickIInv

LEMMA SendHolds ==
  ASSUME TickIInv, NEW k \in Kind, NEW c \in Channel(k), Send(k, c)
  PROVE  TickIInv'
<1>1. /\ Once(k, post[k], sending[k])
      /\ post = [j \in Kind |-> post[j]] /\ sending = [j \in Kind |-> sending[j]]
  BY DEF TickIInv, MailOK
<1>2. c \in sending[k].left /\ UNCHANGED <<now, tick, last, queued, props>>
  BY DEF Send
<1>. DEFINE issue == [post[k] EXCEPT !.got[c] = @ + 1]
            sender == [sending[k] EXCEPT !.left = @ \ {c}, !.ok = @ \cup {c}]
<1>3. Once(k, issue, sender)
  BY <1>1, <1>2, OnceSend
<1>4. sender.on = sending[k].on
  BY <1>1 DEF Once, SenderRow
<1>5. sending' = [sending EXCEPT ![k] = sender]
  BY <1>1 DEF Send
<1>6. post' = [post EXCEPT ![k] = issue]
  BY <1>1 DEF Send
<1>. HIDE DEF issue, sender
<1>. QED
  BY <1>2, <1>3, <1>4, <1>5, <1>6, SendingHolds

LEMMA RefusedHolds ==
  ASSUME TickIInv, NEW k \in Kind, NEW c \in Channel(k), Refused(k, c)
  PROVE  TickIInv'
<1>1. /\ Once(k, post[k], sending[k])
      /\ post = [j \in Kind |-> post[j]] /\ sending = [j \in Kind |-> sending[j]]
  BY DEF TickIInv, MailOK
<1>2. c \in sending[k].left /\ UNCHANGED <<now, tick, last, queued, props>>
  BY DEF Refused
<1>3. PICK partly \in {0, 1} : post' = [post EXCEPT ![k].got[c] = @ + partly, ![k].again[c] = @ + partly]
  BY DEF Refused
<1>. DEFINE issue == [post[k] EXCEPT !.got[c] = @ + partly, !.again[c] = @ + partly]
            sender == [sending[k] EXCEPT !.left = @ \ {c}]
<1>4. Once(k, issue, sender)
  <2>1. partly \in Nat
    OBVIOUS
  <2>. QED
    BY <1>1, <1>2, <2>1, OnceRefused
<1>5. sender.on = sending[k].on
  BY <1>1 DEF Once, SenderRow
<1>6. sending' = [sending EXCEPT ![k] = sender]
  BY <1>1 DEF Refused
<1>7. post' = [post EXCEPT ![k] = issue]
  BY <1>1, <1>3
<1>. HIDE DEF issue, sender
<1>. QED
  BY <1>2, <1>4, <1>5, <1>6, <1>7, SendingHolds

LEMMA SendRecordsHolds ==
  ASSUME TickIInv, NEW k \in Kind, SendRecords(k)
  PROVE  TickIInv'
<1>1. /\ Once(k, post[k], sending[k])
      /\ post = [j \in Kind |-> post[j]] /\ sending = [j \in Kind |-> sending[j]]
  BY DEF TickIInv, MailOK
<1>2. UNCHANGED <<now, last, queued, props>> /\ sending[k].on
  BY DEF SendRecords
<1>3. PICK error \in BOOLEAN : error = (post[k].marked \cup sending[k].ok # Channel(k))
  OBVIOUS
<1>. DEFINE issue == [post[k] EXCEPT !.marked = @ \cup sending[k].ok, !.error = error]
<1>4. post' = [post EXCEPT ![k].marked = @ \cup sending[k].ok, ![k].error = error]
  BY <1>3 DEF SendRecords
<1>5. post' = [post EXCEPT ![k] = issue]
  BY <1>1, <1>4
<1>6. Once(k, issue, Quiet)
  BY <1>1, OnceRecords
<1>. HIDE DEF issue
<1>7. sending' = [sending EXCEPT ![k] = Quiet]
  BY DEF SendRecords
<1>8. MailOK' /\ \A j \in Kind : sending'[j] = IF j = k THEN Quiet ELSE sending[j]
  BY <1>5, <1>6, <1>7, MailRow DEF TickIInv
<1>9. ~Quiet.on
  BY DEF Quiet
<1>10. CASE k = "briefing"
  <2>1. tick.at = 6 /\ Go /\ tick \in TickRow /\ last \in LastRow
    BY <1>2, <1>10 DEF TickIInv, BriefingSent, SendRecords, ClockTyped
  <2>2. tick' \in TickRow /\ tick'.at = 0
    BY <2>1, GoGoes
  <2>3. ClockTyped' /\ EveningKept'
    BY <1>2, <2>1, <2>2, ClockGoes DEF TickIInv
  <2>4. BriefingSent'
    BY <1>8, <1>9, <1>10 DEF BriefingSent
  <2>. QED
    BY <1>2, <1>8, <2>3, <2>4, PropsRest DEF TickIInv
<1>11. CASE k # "briefing"
  <2>1. UNCHANGED tick
    BY <1>11 DEF SendRecords
  <2>2. ClockTyped' /\ EveningKept'
    BY <1>2, <2>1, ClockRests DEF TickIInv
  <2>3. "briefing" \in Kind => sending'["briefing"] = sending["briefing"]
    BY <1>8, <1>11
  <2>4. BriefingSent'
    BY <2>1, <2>3 DEF TickIInv, BriefingSent
  <2>. QED
    BY <1>2, <1>8, <2>2, <2>4, PropsRest DEF TickIInv
<1>. QED
  BY <1>10, <1>11

LEMMA WorkerDiesHolds ==
  ASSUME TickIInv, WorkerDies
  PROVE  TickIInv'
<1>1. \A k \in Kind : Once(k, post[k], sending[k])
  BY DEF TickIInv, MailOK
<1>2. UNCHANGED <<now, last, queued, props>> /\ tick' = NoTick
  BY DEF WorkerDies
<1>3. sending' = [k \in Kind |-> Quiet]
  BY DEF WorkerDies
<1>4. post' = [k \in Kind |-> [post[k] EXCEPT !.again =
                [c \in Channel(k) |-> @[c] + (IF c \in sending[k].ok THEN 1 ELSE 0)]]]
  BY DEF WorkerDies
<1>5. \A k \in Kind : Once(k, [post[k] EXCEPT !.again =
                [c \in Channel(k) |-> @[c] + (IF c \in sending[k].ok THEN 1 ELSE 0)]], Quiet)
  BY <1>1, OnceDies
<1>6. post' = [k \in Kind |-> post'[k]] /\ sending' = [k \in Kind |-> sending'[k]]
  BY <1>3, <1>4
<1>7. MailOK'
  BY <1>3, <1>4, <1>5, <1>6 DEF MailOK
<1>8. BriefingSent'
  BY <1>3 DEF BriefingSent, Quiet
<1>9. last \in LastRow
  BY DEF TickIInv, ClockTyped
<1>10. tick' \in TickRow /\ tick'.at = 0
  BY <1>2, NoTickRow
<1>11. ClockTyped' /\ EveningKept'
  BY <1>2, <1>9, <1>10, ClockGoes DEF TickIInv
<1>. QED
  BY <1>2, <1>7, <1>8, <1>11, PropsRest DEF TickIInv

LEMMA NextHourHolds ==
  ASSUME TickIInv, NextHour
  PROVE  TickIInv'
<1>1. now \in [day : Nat, hour : Nat] /\ last \in LastRow /\ tick \in TickRow
  BY DEF TickIInv, ClockTyped
<1>2. UNCHANGED <<tick, last, queued, props, post, sending>>
  BY DEF NextHour, mail
<1>3. now' = IF now.hour < Evening THEN [now EXCEPT !.hour = @ + 1] ELSE [day |-> now.day + 1, hour |-> Night]
  BY DEF NextHour
<1>4. now' \in [day : Nat, hour : Nat] /\ now'.day >= now.day
  BY <1>1, <1>3 DEF Evening, Night
<1>5. ClockTyped'
  BY <1>2, <1>4 DEF TickIInv, ClockTyped
<1>6. EveningKept'
  <2>1. /\ last.evening \in Nat /\ tick.day \in Nat /\ now.day \in Nat /\ now'.day \in Nat
        /\ last'.evening = last.evening /\ tick' = tick /\ queued' = queued
    BY <1>1, <1>2, <1>4 DEF LastRow, TickRow
  <2>2. last'.evening <= now'.day
    BY <1>4, <2>1 DEF TickIInv, EveningKept
  <2>3. tick'.at > 0 => last'.evening <= tick'.day /\ tick'.day <= now'.day
    BY <1>4, <2>1 DEF TickIInv, EveningKept
  <2>. QED
    BY <2>1, <2>2, <2>3 DEF TickIInv, EveningKept
<1>7. BriefingSent'
  BY <1>2 DEF TickIInv, BriefingSent
<1>. QED
  BY <1>2, <1>5, <1>6, <1>7, MailRests, PropsRest DEF TickIInv

LEMMA ProposalsHold ==
  ASSUME TickIInv, NEW p \in Proposal, Proposed(p) \/ Decided(p)
  PROVE  TickIInv'
<1>1. now \in [day : Nat, hour : Nat] /\ last \in LastRow /\ props \in [Proposal -> StoryRow] /\ props[p] \in StoryRow
  BY DEF TickIInv, ClockTyped, PropsTyped
<1>2. UNCHANGED <<now, tick, last, queued, post, sending>>
  BY DEF Proposed, Decided, mail
<1>3. Hour \in Int
  BY <1>1 DEF Hour
<1>4. \E row \in StoryRow : /\ props' = [props EXCEPT ![p] = row]
                            /\ row.waiting => row.built = last.built
  <2>1. CASE Proposed(p)
    <3>1. props' = [props EXCEPT ![p] = [at |-> Hour, built |-> last.built, told |-> FALSE, waiting |-> TRUE]]
      BY <2>1 DEF Proposed
    <3>2. [at |-> Hour, built |-> last.built, told |-> FALSE, waiting |-> TRUE] \in StoryRow
      BY <1>1, <1>3 DEF StoryRow, LastRow
    <3>3. [at |-> Hour, built |-> last.built, told |-> FALSE, waiting |-> TRUE].built = last.built
      OBVIOUS
    <3>. QED
      BY <3>1, <3>2, <3>3
  <2>2. CASE Decided(p)
    <3>1. props' = [props EXCEPT ![p] = [props[p] EXCEPT !.waiting = FALSE]]
      BY <1>1, <2>2 DEF Decided
    <3>2. [props[p] EXCEPT !.waiting = FALSE] \in StoryRow /\ ~[props[p] EXCEPT !.waiting = FALSE].waiting
      BY <1>1 DEF StoryRow
    <3>. QED
      BY <3>1, <3>2
  <2>. QED
    BY <2>1, <2>2
<1>5. PICK row \in StoryRow : props' = [props EXCEPT ![p] = row] /\ (row.waiting => row.built = last.built)
  BY <1>4
<1>6. PropsTyped'
  BY <1>1, <1>5 DEF PropsTyped
<1>7. WaitingIsTold'
  <2>1. \A q \in Proposal : props'[q] = IF q = p THEN row ELSE props[q]
    BY <1>1, <1>5
  <2>. QED
    BY <1>2, <1>5, <2>1 DEF TickIInv, WaitingIsTold
<1>8. ClockTyped' /\ EveningKept'
  BY <1>2, ClockRests DEF TickIInv
<1>9. BriefingSent'
  BY <1>2 DEF TickIInv, BriefingSent
<1>. QED
  BY <1>2, <1>6, <1>7, <1>8, <1>9, MailRests DEF TickIInv

LEMMA TickStep ==
  ASSUME Calendar, TickIInv, [TickNext]_tickVars
  PROVE  TickIInv'
<1>1. CASE TickBegins
  BY <1>1, TickBeginsHolds
<1>2. CASE Maintain \/ Review
  BY <1>2, TrackedHolds DEF Maintain, Review
<1>3. CASE MarkEvening
  BY <1>3, MarkEveningHolds
<1>4. CASE QueueEvening
  BY <1>4, QueueEveningHolds
<1>5. CASE Build
  BY <1>5, BuildHolds
<1>6. CASE NoBuild
  BY <1>6, NoBuildHolds
<1>7. CASE NotSent
  BY <1>7, NotSentHolds
<1>8. CASE NewReport
  <2>1. now.day \in Nat
    BY DEF TickIInv, ClockTyped
  <2>2. (now.day - 1) % Week \in Int
    BY <2>1 DEF Calendar
  <2>3. ReportWeek \in Int
    BY <2>1, <2>2 DEF ReportWeek
  <2>. QED
    BY <1>8, <2>3, IssuedHolds DEF NewReport
<1>9. CASE ApproveArticle
  <2>1. now.day \in Int
    BY DEF TickIInv, ClockTyped
  <2>. QED
    BY <1>9, <2>1, IssuedHolds DEF ApproveArticle
<1>10. CASE WorkerDies
  BY <1>10, WorkerDiesHolds
<1>11. CASE NextHour
  BY <1>11, NextHourHolds
<1>12. ASSUME NEW k \in Kind, SendReads(k) \/ SendRecords(k) PROVE TickIInv'
  BY <1>12, SendReadsHolds, SendRecordsHolds
<1>13. ASSUME NEW k \in Kind, NEW c \in Channel(k), Send(k, c) \/ Refused(k, c) PROVE TickIInv'
  BY <1>13, SendHolds, RefusedHolds
<1>14. ASSUME NEW p \in Proposal, Proposed(p) \/ Decided(p) PROVE TickIInv'
  BY <1>14, ProposalsHold
<1>15. CASE UNCHANGED tickVars
  <2>1. UNCHANGED <<now, tick, last, queued, props, post, sending>>
    BY <1>15 DEF tickVars
  <2>2. ClockTyped' /\ EveningKept'
    BY <2>1, ClockRests DEF TickIInv
  <2>3. BriefingSent'
    BY <2>1 DEF TickIInv, BriefingSent
  <2>. QED
    BY <2>1, <2>2, <2>3, MailRests, PropsRest DEF TickIInv
<1>. QED
  BY <1>1, <1>2, <1>3, <1>4, <1>5, <1>6, <1>7, <1>8, <1>9, <1>10, <1>11, <1>12, <1>13, <1>14, <1>15 DEF TickNext

LEMMA TickIInvTells ==
  ASSUME TickIInv
  PROVE  SentOnce /\ EveningOnce /\ WaitingIsTold
<1>1. SentOnce
  <2>1. ASSUME NEW k \in Kind, NEW c \in Channel(k) PROVE post[k].got[c] <= 1 + post[k].again[c]
    <3>1. Once(k, post[k], sending[k])
      BY DEF TickIInv, MailOK
    <3>2. post[k].got[c] \in Nat /\ post[k].again[c] \in Nat
      BY <3>1 DEF Once, IssueRow
    <3>3. post[k].got[c] <= post[k].again[c] + (IF c \in post[k].marked \cup sending[k].ok THEN 1 ELSE 0)
      BY <3>1 DEF Once
    <3>. QED
      BY <3>2, <3>3
  <2>. QED
    BY <2>1 DEF SentOnce
<1>2. EveningOnce
  BY DEF TickIInv, EveningKept, EveningOnce
<1>. QED
  BY <1>1, <1>2 DEF TickIInv

LEMMA TickAlways == Calendar => (TickSpec => []TickIInv)
<1>. SUFFICES ASSUME Calendar PROVE TickSpec => []TickIInv
  OBVIOUS
<1>1. TickInit => TickIInv
  BY TickInitHolds
<1>2. TickIInv /\ [TickNext]_tickVars => TickIInv'
  BY TickStep
<1>. QED
  BY <1>1, <1>2, PTL DEF TickSpec

(* The day's briefing, the week's report and an approved article reach     *)
(* each of their channels once, and once more only for each death between  *)
(* sending and recording and for each refusal after the first chats had it *)
(* (briefing.Sender.send, weekly.deliver, delivery.email).                 *)
THEOREM EachChannelOnce == Calendar => (TickSpec => []SentOnce)
<1>1. TickIInv => SentOnce
  BY TickIInvTells
<1>. QED
  BY <1>1, TickAlways, PTL

(* The evening's analysis is asked for once a day, wherever the worker     *)
(* dies: the day is recorded before the job is queued (schedule.evening).  *)
THEOREM EveningAskedOnce == Calendar => (TickSpec => []EveningOnce)
<1>1. TickIInv => EveningOnce
  BY TickIInvTells
<1>. QED
  BY <1>1, TickAlways, PTL

(* After the first briefing, a proposal that waits for a decision is told  *)
(* by the next one built, days without a briefing included                 *)
(* (briefing.build: what was proposed since the one before was built).     *)
THEOREM NextBriefingTells == Calendar => (TickSpec => []WaitingIsTold)
<1>1. TickIInv => WaitingIsTold
  BY TickIInvTells
<1>. QED
  BY <1>1, TickAlways, PTL

-----------------------------------------------------------------------------
(***************************************************************************)
(* The line of a site (module Profiles).  Every version but those that     *)
(* never were has what was saved, in the settings that are not its own;    *)
(* the one in use and those an analysis proposes beside it leave out what  *)
(* the owner took out, and say so; with no line in use nothing is out.     *)
(***************************************************************************)
VersionRow == [status : {"none", "draft", "approved", "retired"},
               origin : {"none", "analysis", "reanalysis", "manual"},
               topics : SUBSET Topic, removed : SUBSET Topic, settings : [Keys -> BOOLEAN], own : SUBSET Keys]
LineTables ==
  /\ page.more \in BOOLEAN
  /\ brief.settings \in [Keys -> BOOLEAN] /\ brief.removed \in SUBSET Topic
  /\ brief \in [step : {"none", "queued", "writing"}, settings : [Keys -> BOOLEAN], removed : SUBSET Topic]
  /\ saved \in [Keys -> BOOLEAN] /\ crossed \in BOOLEAN /\ out \in SUBSET Topic

HasSaved(row) == \A k \in Keys : k \in row.own \/ row.settings[k] = saved[k] \/ (k = "more" /\ crossed)
LeavesOut(row) == out \subseteq row.removed /\ row.topics \cap out = {}
VersionOK(row) ==
  /\ row.status # "none" => HasSaved(row)
  /\ row.status = "approved" \/ (row.status = "draft" /\ row.origin = "reanalysis") => LeavesOut(row)
  /\ row.status = "draft" /\ row.origin \notin {"manual", "reanalysis"} => out = {}
OneInUse(rows) == \A v, w \in Version : rows[v].status = "approved" /\ rows[w].status = "approved" => v = w
VersionsOK(rows) == /\ rows \in [Version -> VersionRow] /\ OneInUse(rows)
                    /\ \A v \in Version : VersionOK(rows[v])
LineIInv == LineTables /\ VersionsOK(profile) /\ (out # {} => InUse # {})

-----------------------------------------------------------------------------
\* A nonempty set of versions has a last one.
LEMMA LastOf ==
  ASSUME NEW n \in Nat, NEW S \in SUBSET (1..n), S # {}
  PROVE  \E v \in S : \A w \in S : w <= v
  <1> DEFINE T == {n - v : v \in S}
  <1>0. \A v \in S : v \in Nat /\ 1 <= v /\ v <= n /\ n - v \in Nat  OBVIOUS
  <1>1. T \subseteq Nat /\ T # {}  BY <1>0
  <1>2. PICK x \in T : \A y \in T : ~(<<y, x>> \in OpToRel(<, Nat))
    BY <1>1, NatLessThanWellFounded, WFMin, Zenon
  <1>3. \A y \in T : ~(y < x)
    <2>1. ASSUME NEW y \in T, y < x PROVE FALSE
      <3>1. <<y, x>> \in Nat \X Nat  BY <1>1
      <3>2. <<y, x>>[1] = y /\ <<y, x>>[2] = x  OBVIOUS
      <3>3. <<y, x>> \in OpToRel(<, Nat)  BY <2>1, <3>1, <3>2 DEF OpToRel
      <3>4. QED  BY <1>2, <3>3
    <2>2. QED  BY <2>1
  <1>4. PICK v \in S : x = n - v  OBVIOUS
  <1>5. ASSUME NEW w \in S PROVE w <= v
    <2>1. n - w \in T  OBVIOUS
    <2>2. ~(n - w < n - v)  BY <1>3, <1>4, <2>1
    <2>3. w \in Int /\ v \in Int /\ n \in Int  BY <1>0
    <2> HIDE DEF T
    <2>4. QED  BY <2>2, <2>3
  <1>6. QED  BY <1>5

LEMMA NewestOf ==
  ASSUME MaxVersion \in Nat, NEW S \in SUBSET Version, S # {}
  PROVE  Newest(S) \in S /\ \A w \in S : w <= Newest(S)
  <1>1. \E v \in S : \A w \in S : w <= v  BY LastOf DEF Version
  <1>2. QED  BY <1>1 DEF Newest

\* The next number is a new one.
LEMMA NextIsNew ==
  ASSUME MaxVersion \in Nat, Free
  PROVE  NextNumber \in Version /\ profile[NextNumber].status = "none"
  <1> DEFINE known == {v \in Version : profile[v].status # "none"}
  <1>1. known \in SUBSET Version  OBVIOUS
  <1>2. CASE known = {}  BY <1>2 DEF NextNumber, Free
  <1>3. CASE known # {}
    <2>1. Newest(known) \in known /\ \A w \in known : w <= Newest(known)  BY <1>1, <1>3, NewestOf
    <2>2. NextNumber = Newest(known) + 1  BY <1>3 DEF NextNumber
    <2>3. Newest(known) \in Int  BY <1>1, <2>1 DEF Version
    <2>4. NextNumber \notin known  BY <2>1, <2>2, <2>3
    <2>5. QED  BY <2>4 DEF Free
  <1>4. QED  BY <1>2, <1>3

\* The line in use, the version on screen.
LEMMA TheLine ==
  ASSUME LineIInv, MaxVersion \in Nat, InUse # {}
  PROVE  /\ Newest(InUse) \in Version /\ InUse = {Newest(InUse)} /\ Line \in VersionRow /\ Line.status = "approved"
         /\ Line = profile[Newest(InUse)] /\ HasSaved(Line) /\ LeavesOut(Line)
  <1>1. InUse \in SUBSET Version  BY DEF InUse
  <1>2. Newest(InUse) \in InUse  BY <1>1, NewestOf
  <1>3. Newest(InUse) \in Version /\ profile[Newest(InUse)].status = "approved"  BY <1>2 DEF InUse
  <1>4. \A v \in InUse : v = Newest(InUse)  BY <1>3 DEF InUse, LineIInv, VersionsOK, OneInUse
  <1>5. Line \in VersionRow /\ VersionOK(Line)  BY <1>3 DEF LineIInv, VersionsOK, Line
  <1>6. QED  BY <1>2, <1>3, <1>4, <1>5 DEF VersionOK, Line

LEMMA TheScreen ==
  ASSUME LineIInv, MaxVersion \in Nat, Waiting \cup InUse # {}
  PROVE  /\ OnScreen \in Version /\ profile[OnScreen] \in VersionRow /\ VersionOK(profile[OnScreen])
         /\ profile[OnScreen].status # "none"
         /\ Waiting # {} => OnScreen \in Waiting
         /\ Waiting = {} => OnScreen = Newest(InUse) /\ profile[OnScreen] = Line /\ InUse # {}
  <1>1. CASE Waiting # {}
    <2>1. Newest(Waiting) \in Waiting  BY <1>1, NewestOf DEF Waiting
    <2>2. OnScreen \in Waiting  BY <1>1, <2>1 DEF OnScreen
    <2>3. QED  BY <1>1, <2>2 DEF Waiting, LineIInv, VersionsOK
  <1>2. CASE Waiting = {}
    <2>1. InUse # {} /\ OnScreen = Newest(InUse)  BY <1>2 DEF OnScreen
    <2>2. QED  BY <1>2, <2>1, TheLine DEF LineIInv, VersionsOK
  <1>3. QED  BY <1>1, <1>2

-----------------------------------------------------------------------------
\* Versions that waited are retired; a new draft is added.
LEMMA RetiredOK ==
  ASSUME LineIInv, NEW S \in SUBSET Waiting
  PROVE  VersionsOK(Retired(S)) /\ \A v \in Version : Retired(S)[v].status = "approved" <=> profile[v].status = "approved"
  <1> DEFINE rows == Retired(S)
  <1>1. ASSUME NEW v \in Version
        PROVE  /\ rows[v] \in VersionRow /\ VersionOK(rows[v])
               /\ rows[v].status = "approved" <=> profile[v].status = "approved"
    <2>1. profile[v] \in VersionRow /\ VersionOK(profile[v])  BY DEF LineIInv, VersionsOK
    <2>2. CASE v \in S
      <3> DEFINE row == [profile[v] EXCEPT !.status = "retired"]
      <3>1. rows[v] = row /\ profile[v].status = "draft"  BY <2>2 DEF Retired, Waiting
      <3>2. /\ row \in VersionRow /\ row.status = "retired" /\ row.settings = profile[v].settings
            /\ row.own = profile[v].own
        BY <2>1 DEF VersionRow
      <3> HIDE DEF row
      <3>3. HasSaved(row)  BY <2>1, <3>1, <3>2 DEF VersionOK, HasSaved
      <3>4. QED  BY <3>1, <3>2, <3>3 DEF VersionOK
    <2>3. CASE v \notin S
      <3>1. rows[v] = profile[v]  BY <2>3 DEF Retired
      <3>2. QED  BY <2>1, <3>1
    <2>4. QED  BY <2>2, <2>3
  <1>2. rows = [v \in Version |-> rows[v]]  BY DEF Retired
  <1> HIDE DEF rows
  <1>3. rows \in [Version -> VersionRow]  BY <1>1, <1>2
  <1>4. OneInUse(rows)  BY <1>1 DEF LineIInv, VersionsOK, OneInUse
  <1>5. VersionsOK(rows)  BY <1>1, <1>3, <1>4 DEF VersionsOK
  <1>6. QED  BY <1>1, <1>5 DEF rows

LEMMA DraftSaved ==
  ASSUME LineIInv, MaxVersion \in Nat, Free, NEW S \in SUBSET Waiting, NEW row \in VersionRow,
         row.status = "draft", VersionOK(row),
         profile' = [Retired(S) EXCEPT ![NextNumber] = row], UNCHANGED <<saved, crossed, out>>, LineTables'
  PROVE  LineIInv'
  <1> DEFINE old == Retired(S)
             n == NextNumber
  <1>1. n \in Version /\ profile[n].status = "none"  BY NextIsNew
  <1>2. VersionsOK(old) /\ \A v \in Version : old[v].status = "approved" <=> profile[v].status = "approved"
    BY RetiredOK
  <1>3. profile' = [old EXCEPT ![n] = row]  OBVIOUS
  <1> HIDE DEF old, n
  <1>4. profile' \in [Version -> VersionRow] /\ \A v \in Version : profile'[v] = IF v = n THEN row ELSE old[v]
    BY <1>1, <1>2, <1>3 DEF VersionsOK
  <1>5. \A v \in Version : profile'[v].status = "approved" <=> profile[v].status = "approved"
    BY <1>1, <1>2, <1>4
  <1>6. \A v \in Version : VersionOK(profile'[v])  BY <1>2, <1>4 DEF VersionsOK
  <1>7. \A v \in Version : VersionOK(profile[v])'  BY <1>6 DEF VersionOK, HasSaved, LeavesOut
  <1>8. InUse' = InUse  BY <1>5 DEF InUse
  <1>9. OneInUse(profile)'  BY <1>5 DEF LineIInv, VersionsOK, OneInUse
  <1>10. QED  BY <1>4, <1>7, <1>8, <1>9 DEF LineIInv, VersionsOK

LEMMA ADraft ==
  ASSUME NEW origin \in {"analysis", "reanalysis", "manual"}, NEW found \in SUBSET Topic, NEW removed \in SUBSET Topic,
         NEW settings \in [Keys -> BOOLEAN], NEW mine \in SUBSET Keys
  PROVE  /\ Row(origin, found, removed, settings, mine) \in VersionRow
         /\ Row(origin, found, removed, settings, mine).status = "draft"
         /\ Row(origin, found, removed, settings, mine).origin = origin
         /\ Row(origin, found, removed, settings, mine).topics = found
         /\ Row(origin, found, removed, settings, mine).removed = removed
         /\ Row(origin, found, removed, settings, mine).settings = settings
         /\ Row(origin, found, removed, settings, mine).own = mine
  BY DEF Row, VersionRow

LEMMA Defaults == DefaultSettings \in [Keys -> BOOLEAN] /\ Keys \in SUBSET Keys
  BY DEF DefaultSettings

LEMMA NothingRetired == ASSUME LineIInv PROVE Retired({}) = profile
  <1>1. profile = [v \in Version |-> profile[v]]  BY DEF LineIInv, VersionsOK
  <1>2. \A v \in Version : Retired({})[v] = profile[v]  BY DEF Retired
  <1>3. Retired({}) = [v \in Version |-> profile[v]]  BY DEF Retired
  <1>4. QED  BY <1>1, <1>3

LEMMA AnalyseStep == ASSUME LineIInv, MaxVersion \in Nat, Analyse PROVE LineIInv'
  <1>1. UNCHANGED <<page, brief, out, saved, crossed>> /\ LineTables' /\ Free
    BY DEF Analyse, ghosts, LineIInv, LineTables
  <1>2. PICK found \in SUBSET Topic :
          LET topicsLeft == found \ TakenOut(Editable)
              old(origin) == {v \in Waiting : profile[v].origin = origin}
          IN IF InUse = {}
                THEN SaveDraft(Row("analysis", topicsLeft, TakenOut(Editable), DefaultSettings, Keys), Retired(old("analysis")))
                ELSE SaveDraft(Row("reanalysis", topicsLeft, Line.removed, Line.settings, Line.own), Retired(old("reanalysis")))
    BY DEF Analyse
  <1> DEFINE topicsLeft == found \ TakenOut(Editable)
             old(origin) == {v \in Waiting : profile[v].origin = origin}
  <1>3. topicsLeft \in SUBSET Topic  OBVIOUS
  <1>4. TakenOut(Editable) \in SUBSET Topic
    <2>1. Editable \subseteq Version
      <3>1. Waiting # {} => Newest(Waiting) \in Waiting  BY NewestOf DEF Waiting
      <3>2. QED  BY <3>1 DEF Editable, Waiting, InUse
    <2>2. \A v \in Version : profile[v].removed \subseteq Topic  BY DEF LineIInv, VersionsOK, VersionRow
    <2>3. QED  BY <2>1, <2>2 DEF TakenOut
  <1>5. CASE InUse = {}
    <2> DEFINE row == Row("analysis", topicsLeft, TakenOut(Editable), DefaultSettings, Keys)
    <2>1. /\ row \in VersionRow /\ row.status = "draft" /\ row.origin = "analysis" /\ row.own = Keys
      BY <1>3, <1>4, Defaults, ADraft
    <2>2. profile' = [Retired(old("analysis")) EXCEPT ![NextNumber] = row]  BY <1>2, <1>5 DEF SaveDraft
    <2>3. out = {}  BY <1>5 DEF LineIInv
    <2> HIDE DEF row
    <2>4. VersionOK(row)  BY <2>1, <2>3 DEF VersionOK, HasSaved
    <2>5. PICK S \in SUBSET Waiting : S = old("analysis")  OBVIOUS
    <2>6. profile' = [Retired(S) EXCEPT ![NextNumber] = row]  BY <2>2, <2>5
    <2>7. QED  BY <1>1, <2>1, <2>4, <2>6, DraftSaved
  <1>6. CASE InUse # {}
    <2> DEFINE row == Row("reanalysis", topicsLeft, Line.removed, Line.settings, Line.own)
    <2>1. /\ Newest(InUse) \in InUse /\ Line \in VersionRow /\ Line.status = "approved" /\ HasSaved(Line)
          /\ LeavesOut(Line) /\ Line = profile[Newest(InUse)]
      BY <1>6, TheLine
    <2>2. /\ Line.removed \in SUBSET Topic /\ Line.settings \in [Keys -> BOOLEAN] /\ Line.own \in SUBSET Keys
      BY <2>1 DEF VersionRow
    <2>3. /\ row \in VersionRow /\ row.status = "draft" /\ row.origin = "reanalysis" /\ row.topics = topicsLeft
          /\ row.removed = Line.removed /\ row.settings = Line.settings /\ row.own = Line.own
      BY <1>3, <2>2, ADraft
    <2>4. profile' = [Retired(old("reanalysis")) EXCEPT ![NextNumber] = row]  BY <1>2, <1>6 DEF SaveDraft
    <2>5. Line.removed \subseteq TakenOut(Editable)  BY <2>1 DEF TakenOut, Editable
    <2> HIDE DEF row
    <2>6. HasSaved(row)  BY <2>1, <2>3 DEF HasSaved
    <2>7. LeavesOut(row)  BY <2>1, <2>3, <2>5 DEF LeavesOut
    <2>8. VersionOK(row)  BY <2>3, <2>6, <2>7 DEF VersionOK
    <2>9. PICK S \in SUBSET Waiting : S = old("reanalysis")  OBVIOUS
    <2>10. profile' = [Retired(S) EXCEPT ![NextNumber] = row]  BY <2>4, <2>9
    <2>11. QED  BY <1>1, <2>3, <2>8, <2>10, DraftSaved
  <1>7. QED  BY <1>5, <1>6

\* A version written by hand, or from a brief.
LEMMA ManualStep ==
  ASSUME LineIInv, MaxVersion \in Nat, Free, NEW row \in VersionRow, row.status = "draft", row.origin = "manual",
         HasSaved(row), profile' = [profile EXCEPT ![NextNumber] = row], UNCHANGED <<saved, crossed, out>>, LineTables'
  PROVE  LineIInv'
  <1>1. VersionOK(row)  BY DEF VersionOK
  <1>2. profile' = [Retired({}) EXCEPT ![NextNumber] = row]  BY NothingRetired
  <1>3. QED  BY <1>1, <1>2, DraftSaved

LEMMA EditStep == ASSUME LineIInv, MaxVersion \in Nat, Edit PROVE LineIInv'
  <1>1. UNCHANGED <<page, brief, out, saved, crossed>> /\ LineTables' /\ Free
    BY DEF Edit, ghosts, LineIInv, LineTables
  <1>2. PICK found \in SUBSET Topic :
          \/ SaveDraft(Row("manual", found, {}, DefaultSettings, Keys), profile)
          \/ /\ InUse # {}
             /\ SaveDraft(Row("manual", found, Line.removed, Line.settings, Line.own), profile)
    BY DEF Edit
  <1>3. CASE SaveDraft(Row("manual", found, {}, DefaultSettings, Keys), profile)
    <2> DEFINE row == Row("manual", found, {}, DefaultSettings, Keys)
    <2>1. row \in VersionRow /\ row.status = "draft" /\ row.origin = "manual" /\ row.own = Keys
      BY Defaults, ADraft
    <2>2. profile' = [profile EXCEPT ![NextNumber] = row]  BY <1>3 DEF SaveDraft
    <2> HIDE DEF row
    <2>3. HasSaved(row)  BY <2>1 DEF HasSaved
    <2>4. QED  BY <1>1, <2>1, <2>2, <2>3, ManualStep
  <1>4. CASE InUse # {} /\ SaveDraft(Row("manual", found, Line.removed, Line.settings, Line.own), profile)
    <2> DEFINE row == Row("manual", found, Line.removed, Line.settings, Line.own)
    <2>1. Line \in VersionRow /\ HasSaved(Line)  BY <1>4, TheLine
    <2>2. Line.removed \in SUBSET Topic /\ Line.settings \in [Keys -> BOOLEAN] /\ Line.own \in SUBSET Keys
      BY <2>1 DEF VersionRow
    <2>3. /\ row \in VersionRow /\ row.status = "draft" /\ row.origin = "manual" /\ row.settings = Line.settings
          /\ row.own = Line.own
      BY <2>2, ADraft
    <2>4. profile' = [profile EXCEPT ![NextNumber] = row]  BY <1>4 DEF SaveDraft
    <2> HIDE DEF row
    <2>5. HasSaved(row)  BY <2>1, <2>3 DEF HasSaved
    <2>6. QED  BY <1>1, <2>3, <2>4, <2>5, ManualStep
  <1>5. QED  BY <1>2, <1>3, <1>4

LEMMA SaveBriefStep == ASSUME LineIInv, MaxVersion \in Nat, SaveBrief PROVE LineIInv'
  <1>1. UNCHANGED <<page, out, saved, crossed>> /\ brief' = NoBrief  BY DEF SaveBrief, ghosts
  <1>2. LineTables'  BY <1>1, Defaults DEF LineIInv, LineTables, NoBrief
  <1>3. CASE UNCHANGED profile
    BY <1>1, <1>2, <1>3 DEF LineIInv, VersionsOK, OneInUse, VersionOK, HasSaved, LeavesOut, InUse
  <1>4. ASSUME Free, NEW found \in SUBSET Topic,
               SaveDraft(Row("manual", found, brief.removed, brief.settings, Keys), profile)
        PROVE  LineIInv'
    <2> DEFINE row == Row("manual", found, brief.removed, brief.settings, Keys)
    <2>1. row \in VersionRow /\ row.status = "draft" /\ row.origin = "manual" /\ row.own = Keys
      BY ADraft DEF LineIInv, LineTables
    <2>2. profile' = [profile EXCEPT ![NextNumber] = row]  BY <1>4 DEF SaveDraft
    <2> HIDE DEF row
    <2>3. HasSaved(row)  BY <2>1 DEF HasSaved
    <2>4. QED  BY <1>1, <1>2, <1>4, <2>1, <2>2, <2>3, ManualStep
  <1>5. QED  BY <1>3, <1>4 DEF SaveBrief

-----------------------------------------------------------------------------
\* Settings saved in place: by the versions that take them, and the others.
StoredAs(v, new, values, D) ==
  /\ new \in VersionRow
  /\ new.status = profile[v].status /\ new.origin = profile[v].origin
  /\ new.topics = profile[v].topics /\ new.removed = profile[v].removed
  /\ v \in InUse \cup Waiting =>
       /\ new.own = profile[v].own \ D
       /\ \A k \in Keys : new.settings[k] = IF k \in D THEN values[k] ELSE profile[v].settings[k]
  /\ v \notin InUse \cup Waiting =>
       /\ new.settings = profile[v].settings
       /\ profile[v].status = "retired" => new.own = profile[v].own \cup D
       /\ profile[v].status # "retired" => new = profile[v]

LEMMA StoredRow ==
  ASSUME LineIInv, NEW D \in SUBSET Keys, NEW values, DOMAIN values = D, \A k \in D : values[k] \in BOOLEAN,
         NEW v \in Version
  PROVE  StoredAs(v, Stored(values)[v], values, D)
  <1>1. profile[v] \in VersionRow  BY DEF LineIInv, VersionsOK
  <1>2. CASE v \in InUse \cup Waiting
    <2> DEFINE settings == [k \in Keys |-> IF k \in DOMAIN values THEN values[k] ELSE profile[v].settings[k]]
               row == [profile[v] EXCEPT !.settings = settings, !.own = @ \ DOMAIN values]
    <2>1. Stored(values)[v] = row  BY <1>2 DEF Stored, Stores
    <2>2. settings \in [Keys -> BOOLEAN]  BY <1>1 DEF VersionRow
    <2>3. \A k \in Keys : settings[k] = IF k \in D THEN values[k] ELSE profile[v].settings[k]  OBVIOUS
    <2> HIDE DEF settings
    <2>4. /\ row \in VersionRow /\ row.settings = settings /\ row.own = profile[v].own \ D
          /\ row.status = profile[v].status /\ row.origin = profile[v].origin
          /\ row.topics = profile[v].topics /\ row.removed = profile[v].removed
      BY <1>1, <2>2 DEF VersionRow
    <2> HIDE DEF row
    <2>5. QED  BY <1>2, <2>1, <2>3, <2>4 DEF StoredAs
  <1>3. CASE v \notin InUse \cup Waiting
    <2> DEFINE row == [profile[v] EXCEPT !.own = @ \cup DOMAIN values]
    <2>1. Stored(values)[v] = IF profile[v].status = "retired" THEN row ELSE profile[v]  BY <1>3 DEF Stored, Stores
    <2>2. /\ row \in VersionRow /\ row.settings = profile[v].settings /\ row.own = profile[v].own \cup D
          /\ row.status = profile[v].status /\ row.origin = profile[v].origin
          /\ row.topics = profile[v].topics /\ row.removed = profile[v].removed
      BY <1>1 DEF VersionRow
    <2> HIDE DEF row
    <2>3. QED  BY <1>1, <1>3, <2>1, <2>2 DEF StoredAs
  <1>4. QED  BY <1>2, <1>3

LEMMA StoredStep ==
  ASSUME LineIInv, NEW D \in SUBSET Keys, NEW values, DOMAIN values = D, \A k \in D : values[k] \in BOOLEAN,
         profile' = Stored(values), out' = out, LineTables', crossed => crossed',
         \A k \in Keys \ D : saved'[k] = saved[k],
         InUse \cup Waiting # {} => \A k \in D : values[k] = saved'[k] \/ (k = "more" /\ crossed')
  PROVE  LineIInv'
  <1>0. \A v \in Version : StoredAs(v, Stored(values)[v], values, D)
    <2>1. ASSUME NEW v \in Version PROVE StoredAs(v, Stored(values)[v], values, D)  BY StoredRow
    <2>2. QED  BY <2>1
  <1>1. \A v \in Version : profile'[v] = Stored(values)[v]  OBVIOUS
  <1>2. profile' \in [Version -> VersionRow]
    <2>1. \A v \in Version : Stored(values)[v] \in VersionRow  BY <1>0 DEF StoredAs
    <2>2. Stored(values) = [v \in Version |-> Stored(values)[v]]  BY DEF Stored
    <2>3. QED  BY <2>1, <2>2
  <1>3. \A v \in Version : profile'[v].status = profile[v].status  BY <1>0, <1>1 DEF StoredAs
  <1>4. InUse' = InUse  BY <1>3 DEF InUse
  <1>5. OneInUse(profile)'  BY <1>3 DEF LineIInv, VersionsOK, OneInUse
  <1>6. ASSUME NEW v \in Version PROVE VersionOK(profile[v])'
    <2>1. PICK new : new = Stored(values)[v]  OBVIOUS
    <2>2. PICK row : row = profile[v]  OBVIOUS
    <2>0. StoredAs(v, new, values, D)  BY <1>0, <2>1
    <2>3. /\ new.status = row.status /\ new.origin = row.origin /\ new.topics = row.topics
          /\ new.removed = row.removed
      BY <2>0, <2>2 DEF StoredAs
    <2>4. VersionOK(row) /\ row \in VersionRow  BY <2>2 DEF LineIInv, VersionsOK
    <2>5. ASSUME new.status # "none", NEW k \in Keys
          PROVE  k \in new.own \/ new.settings[k] = saved'[k] \/ (k = "more" /\ crossed')
      <3>1. k \in row.own \/ row.settings[k] = saved[k] \/ (k = "more" /\ crossed)
        BY <2>3, <2>4, <2>5 DEF VersionOK, HasSaved
      <3>2. CASE v \in InUse \cup Waiting
        <4>1. new.own = row.own \ D /\ new.settings[k] = IF k \in D THEN values[k] ELSE row.settings[k]
          BY <2>0, <2>2, <2>5, <3>2 DEF StoredAs
        <4>2. QED  BY <3>1, <3>2, <4>1
      <3>3. CASE v \notin InUse \cup Waiting
        <4>1. row.status = "retired"
          BY <2>2, <2>3, <2>4, <2>5, <3>3 DEF InUse, Waiting, VersionRow
        <4>2. new.own = row.own \cup D /\ new.settings = row.settings  BY <2>0, <2>2, <3>3, <4>1 DEF StoredAs
        <4>3. QED  BY <3>1, <4>2
      <3>4. QED  BY <3>2, <3>3
    <2>6. new.status # "none" => HasSaved(new)'  BY <2>5 DEF HasSaved
    <2>7. VersionOK(new)'  BY <2>3, <2>4, <2>6 DEF VersionOK, LeavesOut
    <2>8. profile'[v] = new  BY <1>1, <2>1
    <2>9. QED  BY <2>7, <2>8
  <1>7. QED  BY <1>2, <1>4, <1>5, <1>6 DEF LineIInv, VersionsOK

LEMMA SaveRestStep == ASSUME LineIInv, SaveRest PROVE LineIInv'
  <1>1. PICK values : values = [rest |-> TRUE]  OBVIOUS
  <1>2. PICK D \in SUBSET Keys : D = {"rest"}  BY DEF Keys
  <1>3. DOMAIN values = D /\ \A k \in D : values[k] \in BOOLEAN /\ values[k] = TRUE  BY <1>1, <1>2
  <1>4. profile' = Stored(values) /\ UNCHANGED <<page, brief, out, crossed>> /\ saved' = [saved EXCEPT !.rest = TRUE]
    BY <1>1 DEF SaveRest
  <1>5. saved' \in [Keys -> BOOLEAN] /\ saved'["rest"] = TRUE /\ \A k \in Keys \ D : saved'[k] = saved[k]
    BY <1>2, <1>4 DEF LineIInv, LineTables, Keys
  <1>6. LineTables'  BY <1>4, <1>5 DEF LineIInv, LineTables
  <1>7. QED  BY <1>2, <1>3, <1>4, <1>5, <1>6, StoredStep

\* The pages that save the newsroom and the rest of it together.
LEMMA SaveAllStep ==
  ASSUME LineIInv, NEW auto \in BOOLEAN, NEW more \in BOOLEAN, SaveAll(auto, more), out' = out, LineTables',
         crossed => crossed', saved'["rest"] = saved["rest"],
         InUse \cup Waiting # {} => saved'["auto"] = auto /\ (more = saved'["more"] \/ crossed')
  PROVE  LineIInv'
  <1>1. PICK values : values = [auto |-> auto, more |-> more]  OBVIOUS
  <1>2. PICK D \in SUBSET Keys : D = {"auto", "more"}  BY DEF Keys
  <1>3. DOMAIN values = D /\ values["auto"] = auto /\ values["more"] = more  BY <1>1, <1>2
  <1>4. profile' = Stored(values)  BY <1>1 DEF SaveAll
  <1>5. \A k \in D : values[k] \in BOOLEAN  BY <1>2, <1>3
  <1>6. \A k \in Keys \ D : saved'[k] = saved[k]  BY <1>2 DEF Keys
  <1>7. InUse \cup Waiting # {} => \A k \in D : values[k] = saved'[k] \/ (k = "more" /\ crossed')
    BY <1>2, <1>3
  <1>8. QED  BY <1>2, <1>3, <1>4, <1>5, <1>6, <1>7, StoredStep

LEMMA SaveMoreStep == ASSUME LineIInv, MaxVersion \in Nat, SaveMore PROVE LineIInv'
  <1>1. PICK auto : auto = Line.settings.auto  OBVIOUS
  <1>2. Line \in VersionRow /\ auto \in BOOLEAN  BY <1>1, TheLine DEF SaveMore, VersionRow, Keys
  <1>3. /\ SaveAll(auto, TRUE) /\ saved' = [saved EXCEPT !.auto = auto, !.more = TRUE]
        /\ UNCHANGED <<page, brief, out, crossed>>
    BY <1>1 DEF SaveMore
  <1>4. saved' \in [Keys -> BOOLEAN] /\ saved'["auto"] = auto /\ saved'["more"] = TRUE /\ saved'["rest"] = saved["rest"]
    BY <1>2, <1>3 DEF LineIInv, LineTables, Keys
  <1>5. LineTables'  BY <1>3, <1>4 DEF LineIInv, LineTables
  <1>6. QED  BY <1>2, <1>3, <1>4, <1>5, SaveAllStep

LEMMA StopNewsroomStep == ASSUME LineIInv, MaxVersion \in Nat, StopNewsroom PROVE LineIInv'
  <1>1. PICK more : more = Line.settings.more  OBVIOUS
  <1>2. Line \in VersionRow /\ more \in BOOLEAN  BY <1>1, TheLine DEF StopNewsroom, VersionRow, Keys
  <1>3. /\ SaveAll(FALSE, more) /\ saved' = [saved EXCEPT !.auto = FALSE, !.more = more]
        /\ UNCHANGED <<page, brief, out, crossed>>
    BY <1>1 DEF StopNewsroom
  <1>4. saved' \in [Keys -> BOOLEAN] /\ saved'["auto"] = FALSE /\ saved'["more"] = more /\ saved'["rest"] = saved["rest"]
    BY <1>2, <1>3 DEF LineIInv, LineTables, Keys
  <1>5. LineTables'  BY <1>3, <1>4 DEF LineIInv, LineTables
  <1>6. QED  BY <1>2, <1>3, <1>4, <1>5, SaveAllStep

LEMMA SaveAutoStep == ASSUME LineIInv, SaveAuto PROVE LineIInv'
  <1>1. PICK more \in BOOLEAN : more = page.more  BY DEF LineIInv, LineTables
  <1>2. /\ SaveAll(TRUE, more) /\ saved' = IF Waiting \cup InUse = {} THEN saved ELSE [saved EXCEPT !.auto = TRUE]
        /\ crossed' = (crossed \/ (more # saved.more)) /\ out' = out /\ page' = NoPage
    BY <1>1 DEF SaveAuto
  <1>3. /\ saved' \in [Keys -> BOOLEAN] /\ saved'["rest"] = saved["rest"] /\ saved'["more"] = saved["more"]
        /\ InUse \cup Waiting # {} => saved'["auto"] = TRUE
    BY <1>2 DEF LineIInv, LineTables, Keys
  <1>4. \/ UNCHANGED brief
        \/ brief' = [NoBrief EXCEPT !.step = "queued", !.settings.auto = TRUE, !.settings.more = more]
    BY <1>1 DEF SaveAuto
  <1>5. ASSUME brief' = [NoBrief EXCEPT !.step = "queued", !.settings.auto = TRUE, !.settings.more = more]
        PROVE  /\ brief' \in [step : {"none", "queued", "writing"}, settings : [Keys -> BOOLEAN], removed : SUBSET Topic]
               /\ brief'.settings \in [Keys -> BOOLEAN] /\ brief'.removed \in SUBSET Topic
    <2> DEFINE settings == [DefaultSettings EXCEPT !.auto = TRUE, !.more = more]
    <2>1. settings \in [Keys -> BOOLEAN]  BY Defaults DEF Keys
    <2>2. brief' = [step |-> "queued", settings |-> settings, removed |-> {}]  BY <1>5 DEF NoBrief
    <2> HIDE DEF settings
    <2>3. QED  BY <2>1, <2>2
  <1>6. crossed' \in BOOLEAN /\ (crossed => crossed') /\ (more = saved["more"] \/ crossed')  BY <1>2
  <1>7. LineTables'
    <2>1. page'.more \in BOOLEAN  BY <1>2 DEF NoPage
    <2>2. QED  BY <1>2, <1>3, <1>4, <1>5, <1>6, <2>1 DEF LineIInv, LineTables
  <1>8. QED  BY <1>2, <1>3, <1>6, <1>7, SaveAllStep

LEMMA AskBriefStep == ASSUME LineIInv, MaxVersion \in Nat, AskBrief PROVE LineIInv'
  <1> DEFINE seen == IF Waiting \cup InUse = {} THEN DefaultSettings
                     ELSE profile[Newest(Waiting \cup InUse)].settings
  <1>1. PICK shown : shown = seen  OBVIOUS
  <1>2. shown \in [Keys -> BOOLEAN]
    <2>1. CASE Waiting \cup InUse = {}  BY <1>1, <2>1, Defaults
    <2>2. CASE Waiting \cup InUse # {}
      <3>1. Newest(Waiting \cup InUse) \in Waiting \cup InUse  BY <2>2, NewestOf DEF Waiting, InUse
      <3>2. Newest(Waiting \cup InUse) \in Version  BY <3>1 DEF Waiting, InUse
      <3>3. QED  BY <1>1, <2>2, <3>2 DEF LineIInv, VersionsOK, VersionRow
    <2>3. QED  BY <2>1, <2>2
  <1>3. /\ SaveAll(shown.auto, shown.more)
        /\ saved' = IF Waiting \cup InUse = {} THEN saved ELSE [saved EXCEPT !.auto = shown.auto, !.more = shown.more]
        /\ brief' = [NoBrief EXCEPT !.step = "queued", !.settings = [shown EXCEPT !.rest = FALSE]]
        /\ UNCHANGED <<page, out, crossed>>
    BY <1>1 DEF AskBrief
  <1> HIDE DEF seen
  <1>4. PICK auto \in BOOLEAN, more \in BOOLEAN : auto = shown.auto /\ more = shown.more  BY <1>2 DEF Keys
  <1>5. /\ saved' \in [Keys -> BOOLEAN] /\ saved'["rest"] = saved["rest"]
        /\ InUse \cup Waiting # {} => saved'["auto"] = auto /\ saved'["more"] = more
    BY <1>3, <1>4 DEF LineIInv, LineTables, Keys
  <1>6. LineTables'
    <2> DEFINE settings == [shown EXCEPT !.rest = FALSE]
    <2>1. settings \in [Keys -> BOOLEAN]  BY <1>2 DEF Keys
    <2>2. brief' = [step |-> "queued", settings |-> settings, removed |-> {}]  BY <1>3 DEF NoBrief
    <2> HIDE DEF settings
    <2>3. /\ brief' \in [step : {"none", "queued", "writing"}, settings : [Keys -> BOOLEAN], removed : SUBSET Topic]
          /\ brief'.settings \in [Keys -> BOOLEAN] /\ brief'.removed \in SUBSET Topic
      BY <2>1, <2>2
    <2>4. UNCHANGED <<page, out, crossed>>  BY <1>3
    <2>5. QED  BY <1>5, <2>3, <2>4 DEF LineIInv, LineTables
  <1>7. SaveAll(auto, more)  BY <1>3, <1>4
  <1>8. QED  BY <1>3, <1>5, <1>6, <1>7, SaveAllStep

\* Pages opened and lines read.
LEMMA ReadingStep == ASSUME LineIInv, MaxVersion \in Nat, OpenAuto \/ ReadForBrief PROVE LineIInv'
  <1>1. UNCHANGED <<profile, out, saved, crossed>>  BY DEF OpenAuto, ReadForBrief, ghosts
  <1>2. LineTables'
    <2>1. CASE OpenAuto
      <3>1. InUse # {} => Line.settings.more \in BOOLEAN  BY TheLine DEF VersionRow, Keys
      <3>2. page'.more \in BOOLEAN /\ brief' = brief  BY <2>1, <3>1 DEF OpenAuto
      <3>3. QED  BY <1>1, <3>2 DEF LineIInv, LineTables
    <2>2. CASE ReadForBrief
      <3>1. InUse # {} => Line.settings.rest \in BOOLEAN /\ Line.removed \in SUBSET Topic
        BY TheLine DEF VersionRow, Keys
      <3>2. PICK rest \in BOOLEAN, removed \in SUBSET Topic :
              /\ rest = (InUse # {} /\ Line.settings.rest)
              /\ removed = IF InUse = {} THEN {} ELSE Line.removed
        BY <3>1
      <3>3. brief' = [brief EXCEPT !.step = "writing", !.settings.rest = rest, !.removed = removed] /\ page' = page
        BY <2>2, <3>2 DEF ReadForBrief
      <3> DEFINE settings == [brief.settings EXCEPT !.rest = rest]
      <3>4. settings \in [Keys -> BOOLEAN]  BY DEF LineIInv, LineTables, Keys
      <3>5. brief' = [step |-> "writing", settings |-> settings, removed |-> removed]
        BY <3>3 DEF LineIInv, LineTables
      <3> HIDE DEF settings
      <3>6. QED  BY <1>1, <3>3, <3>4, <3>5 DEF LineIInv, LineTables
    <2>3. QED  BY <2>1, <2>2
  <1>3. QED  BY <1>1, <1>2 DEF LineIInv, VersionsOK, OneInUse, VersionOK, HasSaved, LeavesOut, InUse

-----------------------------------------------------------------------------
\* A version goes in use: the one before is retired, and the older drafts.
LEMMA ApprovedStep ==
  ASSUME LineTables', NEW rows \in [Version -> VersionRow], OneInUse(rows), NEW v \in Version,
         \A w \in Version : rows[w].status # "none" => HasSaved(rows[w])', HasSaved(rows[v])',
         profile' = Approved(v, rows), LeavesOut(rows[v])',
         \A w \in Version \ {v} : rows[w].status = "draft" =>
            /\ rows[w].origin = "reanalysis" => LeavesOut(rows[w])'
            /\ rows[w].origin \notin {"manual", "reanalysis"} => out' = {}
  PROVE  LineIInv'
  <1>1. ASSUME NEW w \in Version
        PROVE  /\ profile'[w] \in VersionRow /\ VersionOK(profile[w])'
               /\ profile'[w].status = "approved" <=> w = v
    <2>1. PICK old \in VersionRow : old = rows[w]  OBVIOUS
    <2>2. CASE w = v
      <3> DEFINE row == [old EXCEPT !.status = "approved"]
      <3>1. profile'[w] = row  BY <2>1, <2>2 DEF Approved
      <3>2. /\ row \in VersionRow /\ row.status = "approved" /\ row.settings = old.settings /\ row.own = old.own
            /\ row.topics = old.topics /\ row.removed = old.removed
        BY DEF VersionRow
      <3> HIDE DEF row
      <3>3. HasSaved(row)' /\ LeavesOut(row)'  BY <2>1, <2>2, <3>2 DEF HasSaved, LeavesOut
      <3>4. VersionOK(row)'  BY <3>2, <3>3 DEF VersionOK
      <3>5. QED  BY <2>2, <3>1, <3>2, <3>4
    <2>3. CASE w # v /\ (old.status = "approved" \/ (old.status = "draft" /\ w < v))
      <3> DEFINE row == [old EXCEPT !.status = "retired"]
      <3>1. profile'[w] = row  BY <2>1, <2>3 DEF Approved
      <3>2. /\ row \in VersionRow /\ row.status = "retired" /\ row.settings = old.settings /\ row.own = old.own
        BY DEF VersionRow
      <3> HIDE DEF row
      <3>3. HasSaved(row)'  BY <2>1, <2>3, <3>2 DEF HasSaved
      <3>4. VersionOK(row)'  BY <3>2, <3>3 DEF VersionOK
      <3>5. QED  BY <2>3, <3>1, <3>2, <3>4
    <2>4. CASE w # v /\ ~(old.status = "approved" \/ (old.status = "draft" /\ w < v))
      <3>1. profile'[w] = old  BY <2>1, <2>4 DEF Approved
      <3>2. VersionOK(old)'  BY <2>1, <2>4 DEF VersionOK
      <3>3. QED  BY <2>4, <3>1, <3>2
    <2>5. QED  BY <2>2, <2>3, <2>4
  <1>2. profile' = [w \in Version |-> profile'[w]]  BY DEF Approved
  <1>3. profile' \in [Version -> VersionRow]  BY <1>1, <1>2
  <1>4. OneInUse(profile)'  BY <1>1 DEF OneInUse
  <1>5. InUse' # {}  BY <1>1 DEF InUse
  <1>6. QED  BY <1>1, <1>3, <1>4, <1>5 DEF LineIInv, VersionsOK

LEMMA ApproveStep == ASSUME LineIInv, NEW v \in Version, Approve(v) PROVE LineIInv'
  <1>1. PICK rows : rows = profile  OBVIOUS
  <1>2. rows \in [Version -> VersionRow] /\ OneInUse(rows) /\ profile' = Approved(v, rows)
    BY <1>1 DEF LineIInv, VersionsOK, Approve
  <1>3. PICK row \in VersionRow : row = rows[v]  BY <1>2
  <1>4. row.status \in {"draft", "retired"} /\ VersionOK(row)  BY <1>1, <1>3 DEF LineIInv, VersionsOK, Approve
  <1>5. UNCHANGED <<page, brief, saved, crossed>>  BY DEF Approve, ghosts
  <1>6. \/ (row.origin = "manual" \/ row.status = "retired") /\ out' = (out \cap row.removed) \ row.topics
        \/ row.status = "draft" /\ row.origin # "manual" /\ out' = out
    BY <1>1, <1>3, <1>4 DEF Approve
  <1>7. out' \subseteq out  BY <1>6
  <1>8. LineTables'  BY <1>5, <1>7 DEF LineIInv, LineTables
  <1>10. LeavesOut(row)'
    <2>1. CASE out' = (out \cap row.removed) \ row.topics  BY <2>1 DEF LeavesOut
    <2>2. CASE row.status = "draft" /\ row.origin # "manual" /\ out' = out
      <3>1. row.origin = "reanalysis" \/ out = {}  BY <1>4, <2>2 DEF VersionOK
      <3>2. QED  BY <1>4, <2>2, <3>1 DEF VersionOK, LeavesOut
    <2>3. QED  BY <1>6, <2>1, <2>2
  <1>11. \A w \in Version : rows[w].status # "none" => HasSaved(rows[w])'
    BY <1>1, <1>5 DEF LineIInv, VersionsOK, VersionOK, HasSaved
  <1>12. HasSaved(rows[v])'  BY <1>3, <1>4, <1>11
  <1>13. ASSUME NEW w \in Version \ {v}, rows[w].status = "draft"
         PROVE  /\ rows[w].origin = "reanalysis" => LeavesOut(rows[w])'
                /\ rows[w].origin \notin {"manual", "reanalysis"} => out' = {}
    <2>1. VersionOK(rows[w])  BY <1>1 DEF LineIInv, VersionsOK
    <2>2. QED  BY <1>7, <1>13, <2>1 DEF VersionOK, LeavesOut
  <1>14. LeavesOut(rows[v])'  BY <1>3, <1>10
  <1>15. QED  BY <1>2, <1>8, <1>11, <1>12, <1>13, <1>14, ApprovedStep

\* A version that waited is discarded; one not in use is deleted.
LEMMA DiscardStep == ASSUME LineIInv, NEW v \in Version, Discard(v) PROVE LineIInv'
  <1>1. UNCHANGED <<page, brief, out, saved, crossed>> /\ profile' = Retired({v}) /\ {v} \in SUBSET Waiting
    BY DEF Discard, ghosts
  <1>2. VersionsOK(Retired({v})) /\ \A w \in Version : Retired({v})[w].status = "approved" <=> profile[w].status = "approved"
    BY <1>1, RetiredOK
  <1>3. PICK rows : rows = Retired({v})  OBVIOUS
  <1>4. VersionsOK(rows)'  BY <1>1, <1>2, <1>3 DEF VersionsOK, OneInUse, VersionOK, HasSaved, LeavesOut
  <1>5. InUse' = InUse  BY <1>1, <1>2 DEF InUse
  <1>6. VersionsOK(profile)'  BY <1>1, <1>3, <1>4
  <1>7. QED  BY <1>1, <1>5, <1>6 DEF LineIInv, LineTables

LEMMA NoVersionOK == NoVersion \in VersionRow /\ NoVersion.status = "none"
  BY Defaults DEF NoVersion, VersionRow

LEMMA DeleteStep == ASSUME LineIInv, NEW v \in Version, DeleteVersion(v) PROVE LineIInv'
  <1>1. /\ UNCHANGED <<page, brief, out, saved, crossed>> /\ profile' = [profile EXCEPT ![v] = NoVersion]
        /\ profile[v].status # "approved"
    BY DEF DeleteVersion, ghosts
  <1>2. /\ profile' \in [Version -> VersionRow]
        /\ \A w \in Version : profile'[w] = IF w = v THEN NoVersion ELSE profile[w]
    BY <1>1, NoVersionOK DEF LineIInv, VersionsOK
  <1>3. VersionOK(NoVersion)'  BY NoVersionOK DEF VersionOK
  <1>4. \A w \in Version : VersionOK(profile[w])'
    BY <1>1, <1>2, <1>3 DEF LineIInv, VersionsOK, VersionOK, HasSaved, LeavesOut
  <1>5. \A w \in Version : profile'[w].status = "approved" <=> profile[w].status = "approved"
    BY <1>1, <1>2, NoVersionOK
  <1>6. InUse' = InUse  BY <1>5 DEF InUse
  <1>7. OneInUse(profile)'  BY <1>5 DEF LineIInv, VersionsOK, OneInUse
  <1>8. QED  BY <1>1, <1>2, <1>4, <1>6, <1>7 DEF LineIInv, LineTables, VersionsOK

-----------------------------------------------------------------------------
\* A topic is taken out, or back in: on the version that waits, or on a new
\* one that goes in use.
LEMMA ChangeStep ==
  ASSUME LineIInv, MaxVersion \in Nat, Waiting \cup InUse # {}, NEW row \in VersionRow, ChangeTopics(row),
         row.status = profile[OnScreen].status, row.origin = profile[OnScreen].origin,
         row.settings = profile[OnScreen].settings, row.own = profile[OnScreen].own,
         UNCHANGED <<page, brief, saved, crossed>>, out' \in SUBSET Topic, Waiting # {} => out' \subseteq out,
         LeavesOut(profile[OnScreen]) => LeavesOut(row)'
  PROVE  LineIInv'
  <1>1. LineTables'  BY DEF LineIInv, LineTables
  <1>2. PICK v \in Version : v = OnScreen  BY TheScreen
  <1>3. PICK old \in VersionRow : old = profile[v]  BY DEF LineIInv, VersionsOK
  <1>4. /\ VersionOK(old) /\ old.status # "none" /\ HasSaved(row)
        /\ row.status = old.status /\ row.origin = old.origin /\ (LeavesOut(old) => LeavesOut(row)')
    BY <1>2, <1>3, TheScreen DEF VersionOK, HasSaved
  <1>5. CASE Waiting # {}
    <2>1. profile' = [profile EXCEPT ![v] = row] /\ out' \subseteq out /\ old.status = "draft"
      BY <1>2, <1>3, <1>5, TheScreen DEF ChangeTopics, Waiting
    <2>2. /\ profile' \in [Version -> VersionRow]
          /\ \A w \in Version : profile'[w] = IF w = v THEN row ELSE profile[w]
      BY <2>1 DEF LineIInv, VersionsOK
    <2>3. VersionOK(row)'  BY <1>4, <2>1 DEF VersionOK, HasSaved
    <2>4. ASSUME NEW w \in Version, w # v PROVE VersionOK(profile[w])'
      <3>1. PICK kept : kept = profile[w]  OBVIOUS
      <3>2. profile'[w] = kept /\ VersionOK(kept)  BY <2>2, <2>4, <3>1 DEF LineIInv, VersionsOK
      <3>3. VersionOK(kept)'
        <4>1. kept.status # "none" => HasSaved(kept)'  BY <3>2 DEF VersionOK, HasSaved
        <4>2. LeavesOut(kept) => LeavesOut(kept)'  BY <2>1 DEF LeavesOut
        <4>3. QED  BY <2>1, <3>2, <4>1, <4>2 DEF VersionOK
      <3>4. QED  BY <3>2, <3>3
    <2>5. \A w \in Version : VersionOK(profile[w])'  BY <2>2, <2>3, <2>4
    <2>6. \A w \in Version : profile'[w].status = profile[w].status  BY <1>3, <1>4, <2>2
    <2>7. InUse' = InUse  BY <2>6 DEF InUse
    <2>8. OneInUse(profile)'  BY <2>6 DEF LineIInv, VersionsOK, OneInUse
    <2>9. QED  BY <1>1, <2>1, <2>2, <2>5, <2>7, <2>8 DEF LineIInv, VersionsOK
  <1>6. CASE Waiting = {}
    <2>1. PICK n \in Version : n = NextNumber /\ profile[n].status = "none"
      BY <1>6, NextIsNew DEF ChangeTopics
    <2>2. PICK new : new = [row EXCEPT !.status = "draft", !.origin = "manual"]  OBVIOUS
    <2>3. PICK rows : rows = [profile EXCEPT ![n] = new]  OBVIOUS
    <2>a. profile' = Approved(n, rows)  BY <1>6, <2>1, <2>2, <2>3 DEF ChangeTopics
    <2>b. /\ new \in VersionRow /\ new.status = "draft" /\ new.settings = row.settings /\ new.own = row.own
          /\ new.topics = row.topics /\ new.removed = row.removed
      BY <2>2 DEF VersionRow
    <2>c. rows \in [Version -> VersionRow] /\ \A w \in Version : rows[w] = IF w = n THEN new ELSE profile[w]
      BY <2>1, <2>3, <2>b DEF LineIInv, VersionsOK
    <2>4. HasSaved(new)'  BY <1>4, <2>b DEF HasSaved
    <2>5. old.status = "approved"  BY <1>2, <1>3, <1>6, TheScreen, TheLine
    <2>6. LeavesOut(old)  BY <1>4, <2>5 DEF VersionOK
    <2>7. LeavesOut(new)'  BY <1>4, <2>b, <2>6 DEF LeavesOut
    <2>8. OneInUse(rows)  BY <2>b, <2>c DEF LineIInv, VersionsOK, OneInUse
    <2>9. ASSUME NEW w \in Version, rows[w].status # "none" PROVE HasSaved(rows[w])'
      <3>1. CASE w = n  BY <2>4, <2>c, <3>1
      <3>2. CASE w # n
        <4>1. rows[w] = profile[w]  BY <2>c, <3>2
        <4>2. HasSaved(rows[w])  BY <2>9, <4>1 DEF LineIInv, VersionsOK, VersionOK
        <4>3. PICK kept : kept = rows[w]  OBVIOUS
        <4>4. QED  BY <4>2, <4>3 DEF HasSaved
      <3>3. QED  BY <3>1, <3>2
    <2>10. \A w \in Version \ {n} : rows[w].status # "draft"  BY <1>6, <2>c DEF Waiting
    <2>11. HasSaved(rows[n])' /\ LeavesOut(rows[n])'  BY <2>4, <2>7, <2>c
    <2>12. QED  BY <1>1, <2>a, <2>c, <2>8, <2>9, <2>10, <2>11, ApprovedStep
  <1>7. QED  BY <1>5, <1>6

LEMMA RemoveStep == ASSUME LineIInv, MaxVersion \in Nat, NEW t \in Topic, RemoveTopic(t) PROVE LineIInv'
  <1>0. PICK row : row = [profile[OnScreen] EXCEPT !.topics = @ \ {t}, !.removed = @ \cup {t}]  OBVIOUS
  <1>1. /\ Waiting \cup InUse # {} /\ ChangeTopics(row) /\ UNCHANGED <<page, brief, saved, crossed>>
        /\ out' = IF Waiting = {} THEN out \cup {t} ELSE out
    BY <1>0 DEF RemoveTopic, ghosts
  <1>2. PICK old \in VersionRow : old = profile[OnScreen]  BY <1>1, TheScreen
  <1>3. /\ row \in VersionRow /\ row.status = old.status /\ row.origin = old.origin /\ row.settings = old.settings
        /\ row.own = old.own /\ row.topics = old.topics \ {t} /\ row.removed = old.removed \cup {t}
    BY <1>0, <1>2 DEF VersionRow
  <1>4. LeavesOut(old) => LeavesOut(row)'  BY <1>1, <1>3 DEF LeavesOut
  <1>5. out' \in SUBSET Topic /\ (Waiting # {} => out' \subseteq out)  BY <1>1 DEF LineIInv, LineTables
  <1>6. QED  BY <1>1, <1>2, <1>3, <1>4, <1>5, ChangeStep

LEMMA RestoreStep == ASSUME LineIInv, MaxVersion \in Nat, NEW t \in Topic, RestoreTopic(t) PROVE LineIInv'
  <1>0. PICK row : row = [profile[OnScreen] EXCEPT !.topics = @ \cup {t}, !.removed = @ \ {t}]  OBVIOUS
  <1>1. /\ Waiting \cup InUse # {} /\ ChangeTopics(row) /\ UNCHANGED <<page, brief, saved, crossed>> /\ out' = out \ {t}
    BY <1>0 DEF RestoreTopic, ghosts
  <1>2. PICK old \in VersionRow : old = profile[OnScreen]  BY <1>1, TheScreen
  <1>3. /\ row \in VersionRow /\ row.status = old.status /\ row.origin = old.origin /\ row.settings = old.settings
        /\ row.own = old.own /\ row.topics = old.topics \cup {t} /\ row.removed = old.removed \ {t}
    BY <1>0, <1>2 DEF VersionRow
  <1>4. LeavesOut(old) => LeavesOut(row)'  BY <1>1, <1>3 DEF LeavesOut
  <1>5. out' \in SUBSET Topic /\ (Waiting # {} => out' \subseteq out)  BY <1>1 DEF LineIInv, LineTables
  <1>6. QED  BY <1>1, <1>2, <1>3, <1>4, <1>5, ChangeStep

-----------------------------------------------------------------------------
LEMMA LineInitHolds == ProfilesInit => LineIInv
  <1> SUFFICES ASSUME ProfilesInit PROVE LineIInv  OBVIOUS
  <1>1. LineTables  BY Defaults DEF ProfilesInit, LineTables, NoPage, NoBrief
  <1>2. profile \in [Version -> VersionRow] /\ \A v \in Version : profile[v].status = "none"
    BY NoVersionOK DEF ProfilesInit
  <1>3. VersionsOK(profile)  BY <1>2 DEF VersionsOK, OneInUse, VersionOK
  <1>4. out = {}  BY DEF ProfilesInit
  <1>5. QED  BY <1>1, <1>3, <1>4 DEF LineIInv

LEMMA LineStep == ASSUME LineIInv, MaxVersion \in Nat, [ProfilesNext]_profileVars PROVE LineIInv'
  <1>1. CASE UNCHANGED profileVars
    BY <1>1 DEF profileVars, LineIInv, LineTables, VersionsOK, OneInUse, VersionOK, HasSaved, LeavesOut, InUse
  <1>2. CASE Analyse  BY <1>2, AnalyseStep
  <1>3. CASE Edit  BY <1>3, EditStep
  <1>4. CASE ReadForBrief  BY <1>4, ReadingStep
  <1>5. CASE SaveBrief  BY <1>5, SaveBriefStep
  <1>6. CASE Pages
    <2>1. CASE SaveRest  BY <2>1, SaveRestStep
    <2>2. CASE SaveMore  BY <2>2, SaveMoreStep
    <2>3. CASE StopNewsroom  BY <2>3, StopNewsroomStep
    <2>4. CASE OpenAuto  BY <2>4, ReadingStep
    <2>5. CASE SaveAuto  BY <2>5, SaveAutoStep
    <2>6. CASE AskBrief  BY <2>6, AskBriefStep
    <2>7. CASE \E v \in Version : Approve(v) \/ Discard(v) \/ DeleteVersion(v)
      BY <2>7, ApproveStep, DiscardStep, DeleteStep
    <2>8. CASE \E t \in Topic : RemoveTopic(t) \/ RestoreTopic(t)  BY <2>8, RemoveStep, RestoreStep
    <2>9. QED  BY <1>6, <2>1, <2>2, <2>3, <2>4, <2>5, <2>6, <2>7, <2>8 DEF Pages
  <1>7. QED  BY <1>1, <1>2, <1>3, <1>4, <1>5, <1>6 DEF ProfilesNext

LEMMA LineTells ==
  ASSUME LineIInv, MaxVersion \in Nat PROVE ProfilesTypeOK /\ TakenOutStaysOut /\ SavedIsInUse
  <1>1. Cardinality(InUse) <= 1
    <2>1. CASE InUse = {}  BY <2>1, FS_EmptySet
    <2>2. CASE InUse # {}  BY <2>2, TheLine, FS_Singleton
    <2>3. QED  BY <2>1, <2>2
  <1>2. ProfilesTypeOK  BY <1>1 DEF LineIInv, VersionsOK, VersionRow, ProfilesTypeOK
  <1>3. TakenOutStaysOut
    BY DEF LineIInv, VersionsOK, VersionOK, LeavesOut, TakenOutStaysOut, InUse, Waiting
  <1>4. SavedIsInUse
    <2>1. ASSUME InUse # {} PROVE HasSaved(Line)  BY <2>1, TheLine
    <2>2. QED  BY <2>1 DEF SavedIsInUse, HasSaved
  <1>5. QED  BY <1>2, <1>3, <1>4

\* One version at most is in use, whatever is analysed, approved and deleted
\* (profile.py, approve); a topic the owner took out of it stays out, also
\* when an analysis finds it again; and it has the settings last saved.
THEOREM OwnersLineStands ==
  MaxVersion \in Nat => (ProfilesSpec => [](ProfilesTypeOK /\ TakenOutStaysOut /\ SavedIsInUse))
  <1> SUFFICES ASSUME MaxVersion \in Nat PROVE ProfilesSpec => [](ProfilesTypeOK /\ TakenOutStaysOut /\ SavedIsInUse)
    OBVIOUS
  <1>1. ProfilesInit => LineIInv  BY LineInitHolds
  <1>2. LineIInv /\ [ProfilesNext]_profileVars => LineIInv'  BY LineStep
  <1>3. LineIInv => ProfilesTypeOK /\ TakenOutStaysOut /\ SavedIsInUse  BY LineTells
  <1>4. QED  BY <1>1, <1>2, <1>3, PTL DEF ProfilesSpec
=============================================================================
