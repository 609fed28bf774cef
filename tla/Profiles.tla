------------------------------ MODULE Profiles ------------------------------
(***************************************************************************)
(* The editorial line of a site (profile.py and its pages in ui.py):       *)
(* numbered versions written by analyses, by hand or from the owner's      *)
(* brief, of which at most one is the line in use; the topics the owner    *)
(* takes out of it; the settings, which several pages save in place on the *)
(* line in use and on the versions that wait.                              *)
(***************************************************************************)
EXTENDS Naturals, FiniteSets

CONSTANTS Topic,
          MaxVersion, \* bounds of the exploration: versions of the profile,
          MaxSaves    \* pages saved

Version == 1..MaxVersion

VARIABLES profile,  \* editorial_profiles, by version
          page,     \* ui_auto between its two transactions
          brief,    \* the `brief` job and what it has read
          saved, crossed,         \* settings last saved; a page overwrote another's
          out,      \* topics taken out of the line in use
          saves

profileVars == <<profile, page, brief, saved, crossed, out, saves>>
ghosts == <<saved, crossed, saves>>

\* `auto`: the page of the newsroom; `more`: analysis, breaking news; `rest`: the other pages.
\* `own`: those of a version that are its own, not saved from a page.
Keys == {"auto", "more", "rest"}
DefaultSettings == [k \in Keys |-> FALSE]
NoVersion == [status |-> "none", origin |-> "none", topics |-> {}, removed |-> {}, settings |-> DefaultSettings, own |-> {}]
NoPage == [step |-> "none", more |-> FALSE]
NoBrief == [step |-> "none", settings |-> DefaultSettings, removed |-> {}]

ProfilesInit ==
  /\ profile = [v \in Version |-> NoVersion] /\ page = NoPage /\ brief = NoBrief
  /\ saved = DefaultSettings /\ crossed = FALSE /\ saves = 0
  /\ out = {}

Waiting == {v \in Version : profile[v].status = "draft"}
InUse == {v \in Version : profile[v].status = "approved"}
Newest(S) == CHOOSE v \in S : \A w \in S : w <= v
OnScreen == IF Waiting # {} THEN Newest(Waiting) ELSE Newest(InUse)     \* _editable
Line == profile[Newest(InUse)]
NextNumber == LET known == {v \in Version : profile[v].status # "none"}
              IN IF known = {} THEN 1 ELSE Newest(known) + 1            \* _next_version
Free == NextNumber \in Version

Row(origin, found, removed, settings, own) ==
  [status |-> "draft", origin |-> origin, topics |-> found, removed |-> removed, settings |-> settings, own |-> own]
SaveDraft(row, old) == profile' = [old EXCEPT ![NextNumber] = row]
Retired(drafts) == [v \in Version |-> IF v \in drafts THEN [profile[v] EXCEPT !.status = "retired"] ELSE profile[v]]

(* approve: the version before and the older drafts are retired.           *)
Approved(v, rows) ==
  [w \in Version |-> IF w = v THEN [rows[w] EXCEPT !.status = "approved"]
                     ELSE IF rows[w].status = "approved" \/ (rows[w].status = "draft" /\ w < v)
                     THEN [rows[w] EXCEPT !.status = "retired"] ELSE rows[w]]

-----------------------------------------------------------------------------
(* analyse_site: the topics taken out stay out; with no line in use the    *)
(* older analysis is replaced, else the changes are proposed, with the     *)
(* settings of the line in use.                                            *)
TakenOut(editable) == UNION {profile[v].removed : v \in editable}
Editable == (IF Waiting = {} THEN {} ELSE {Newest(Waiting)}) \cup InUse

Analyse ==
  /\ Free
  /\ \E found \in SUBSET Topic :
       LET topicsLeft == found \ TakenOut(Editable)
           old(origin) == {v \in Waiting : profile[v].origin = origin}
       IN IF InUse = {}
             THEN SaveDraft(Row("analysis", topicsLeft, TakenOut(Editable), DefaultSettings, Keys), Retired(old("analysis")))
             ELSE SaveDraft(Row("reanalysis", topicsLeft, Line.removed, Line.settings, Line.own), Retired(old("reanalysis")))
  /\ UNCHANGED <<page, brief, out, ghosts>>

(* edit: by hand, with settings of its own or those of the line in use.    *)
Edit ==
  /\ Free
  /\ \E found \in SUBSET Topic :
       \/ SaveDraft(Row("manual", found, {}, DefaultSettings, Keys), profile)
       \/ /\ InUse # {}
          /\ SaveDraft(Row("manual", found, Line.removed, Line.settings, Line.own), profile)
  /\ UNCHANGED <<page, brief, out, ghosts>>

Approve(v) ==
  /\ profile[v].status \in {"draft", "retired"}
  /\ profile' = Approved(v, profile)
  /\ LET decided == profile[v].origin = "manual" \/ profile[v].status = "retired"
     IN /\ out' = IF decided THEN (out \cap profile[v].removed) \ profile[v].topics ELSE out
  /\ UNCHANGED <<page, brief, ghosts>>

Discard(v) ==
  /\ v \in Waiting /\ profile' = Retired({v})
  /\ UNCHANGED <<page, brief, out, ghosts>>

DeleteVersion(v) ==
  /\ profile[v].status \in {"draft", "retired"}     \* and nothing was proposed from it
  /\ profile' = [profile EXCEPT ![v] = NoVersion]
  /\ UNCHANGED <<page, brief, out, ghosts>>

(* _change_topics: on the version that waits, else a new version in use.   *)
ChangeTopics(row) ==
  IF Waiting # {} THEN profile' = [profile EXCEPT ![OnScreen] = row]
  ELSE /\ Free
       /\ profile' = Approved(NextNumber, [profile EXCEPT ![NextNumber] = [row EXCEPT !.status = "draft", !.origin = "manual"]])

RemoveTopic(t) ==
  /\ Waiting \cup InUse # {} /\ t \in profile[OnScreen].topics
  /\ ChangeTopics([profile[OnScreen] EXCEPT !.topics = @ \ {t}, !.removed = @ \cup {t}])
  /\ out' = IF Waiting = {} THEN out \cup {t} ELSE out
  /\ UNCHANGED <<page, brief, ghosts>>

RestoreTopic(t) ==
  /\ Waiting \cup InUse # {} /\ t \in profile[OnScreen].removed
  /\ ChangeTopics([profile[OnScreen] EXCEPT !.topics = @ \cup {t}, !.removed = @ \ {t}])
  /\ out' = out \ {t}
  /\ UNCHANGED <<page, brief, ghosts>>

-----------------------------------------------------------------------------
(* _set_settings: on the line in use and on the versions that wait.  A     *)
(* version retired meanwhile keeps what it had.                            *)
\* A slip: only the line in use is changed.
StoresOnLine(v) == v \in InUse
Stores(v) == v \in InUse \cup Waiting
Stored(values) ==
  [v \in Version |->
    IF Stores(v)
    THEN [profile[v] EXCEPT !.settings = [k \in Keys |-> IF k \in DOMAIN values THEN values[k] ELSE @[k]],
                            !.own = @ \ DOMAIN values]
    ELSE IF profile[v].status = "retired" THEN [profile[v] EXCEPT !.own = @ \cup DOMAIN values] ELSE profile[v]]
SaveAll(auto, more) == profile' = Stored([auto |-> auto, more |-> more])
Saves == saves < MaxSaves /\ saves' = saves + 1

(* ui_per_day, ui_cover, ui_evening, ui_content_mode, ui_sources_style *)
SaveRest ==
  /\ Waiting \cup InUse # {} /\ Saves
  /\ profile' = Stored([rest |-> TRUE]) /\ saved' = [saved EXCEPT !.rest = TRUE]
  /\ UNCHANGED <<page, brief, out, crossed>>

(* ui_analysis, ui_breaking, ui_auto_stop: read and saved at once.         *)
SaveMore ==
  /\ InUse # {} /\ Saves
  /\ SaveAll(Line.settings.auto, TRUE) /\ saved' = [saved EXCEPT !.auto = Line.settings.auto, !.more = TRUE]
  /\ UNCHANGED <<page, brief, out, crossed>>

StopNewsroom ==
  /\ InUse # {} /\ Saves
  /\ SaveAll(FALSE, Line.settings.more)
  /\ saved' = [saved EXCEPT !.auto = FALSE, !.more = Line.settings.more]
  /\ UNCHANGED <<page, brief, out, crossed>>

(* ui_auto: what other pages save is read first, and saved with its own.   *)
OpenAuto ==
  /\ page = NoPage
  /\ page' = [step |-> "saving", more |-> IF InUse = {} THEN FALSE ELSE Line.settings.more]
  /\ UNCHANGED <<profile, brief, out, ghosts>>

SaveAuto ==
  /\ page.step = "saving" /\ page' = NoPage /\ Saves
  /\ SaveAll(TRUE, page.more)
  /\ saved' = IF Waiting \cup InUse = {} THEN saved ELSE [saved EXCEPT !.auto = TRUE]
  /\ \/ UNCHANGED brief
     \/ /\ brief = NoBrief      \* the profile is written again
        /\ brief' = [NoBrief EXCEPT !.step = "queued", !.settings.auto = TRUE, !.settings.more = page.more]
  /\ crossed' = (crossed \/ (page.more # saved.more))
  /\ UNCHANGED out

(* ui_brief: the settings on screen are read and saved, for the profile    *)
(* that the job writes from the owner's words.                             *)
AskBrief ==
  /\ brief = NoBrief /\ Saves
  /\ LET now == IF Waiting \cup InUse = {} THEN DefaultSettings
                ELSE profile[Newest(Waiting \cup InUse)].settings
     IN /\ SaveAll(now.auto, now.more)
        /\ saved' = IF Waiting \cup InUse = {} THEN saved ELSE [saved EXCEPT !.auto = now.auto, !.more = now.more]
        /\ brief' = [NoBrief EXCEPT !.step = "queued", !.settings = [now EXCEPT !.rest = FALSE]]
  /\ UNCHANGED <<page, out, crossed>>

(* profile_from_brief: the line in use is read, and the version saved when *)
(* the model has answered, with the settings the job was asked with.       *)
ReadForBrief ==
  /\ brief.step = "queued"
  /\ brief' = [brief EXCEPT !.step = "writing", !.settings.rest = InUse # {} /\ Line.settings.rest,
                            !.removed = IF InUse = {} THEN {} ELSE Line.removed]
  /\ UNCHANGED <<profile, page, out, ghosts>>

SaveBrief ==
  /\ brief.step = "writing" /\ brief' = NoBrief
  /\ \/ /\ Free
        /\ \E found \in SUBSET Topic : SaveDraft(Row("manual", found, brief.removed, brief.settings, Keys), profile)
     \/ UNCHANGED profile      \* the model did not answer
  /\ UNCHANGED <<page, out, ghosts>>

Pages ==
  \/ SaveRest \/ SaveMore \/ StopNewsroom \/ OpenAuto \/ SaveAuto \/ AskBrief
  \/ \E v \in Version : Approve(v) \/ Discard(v) \/ DeleteVersion(v)
  \/ \E t \in Topic : RemoveTopic(t) \/ RestoreTopic(t)

ProfilesNext == Pages \/ Analyse \/ Edit \/ ReadForBrief \/ SaveBrief
ProfilesSpec == ProfilesInit /\ [][ProfilesNext]_profileVars

-----------------------------------------------------------------------------
(* Every version is what the code may write, one at most in use. *)
ProfilesTypeOK ==
  /\ profile \in [Version -> [status : {"none", "draft", "approved", "retired"},
                              origin : {"none", "analysis", "reanalysis", "manual"},
                              topics : SUBSET Topic, removed : SUBSET Topic, settings : [Keys -> BOOLEAN], own : SUBSET Keys]]
  /\ Cardinality(InUse) <= 1

(* "The topics the owner took out stay out, also when an analysis finds    *)
(* them again": whatever analyses, approvals of what they propose and      *)
(* topic changes follow, a topic taken out of the line in use is neither   *)
(* there nor proposed by an analysis.                                      *)
TakenOutStaysOut ==
  \A v \in Version : (v \in InUse \/ (v \in Waiting /\ profile[v].origin = "reanalysis"))
                     => profile[v].topics \cap out = {}

(* What a page saved is what the line in use has, also after a version     *)
(* that waited meanwhile was approved: leaving out settings of its own     *)
(* (written by hand, from a brief, before the first approval, or saved     *)
(* while it was retired), and a page that overwrote another (crossed).     *)
SavedIsInUse ==
  InUse # {} => \A k \in Keys \ Line.own :
    Line.settings[k] = saved[k] \/ (k = "more" /\ crossed)
=============================================================================
