---------------------------- MODULE MemoryPanel ----------------------------
(***************************************************************************)
(* The Memory surface (src/web/components/memory) on procedural memory and *)
(* on one remembered thing with its corrections                            *)
(* (src/server/src/saaya/memory/store.py, api/memory_routes.py).  The      *)
(* panel shows the overview that arrived last and never polls.             *)
(***************************************************************************)
EXTENDS PromptMemory, FiniteSets

CONSTANT MaxWordings   \* the thing as first remembered and its corrections

ASSUME WordingsAssumption == MaxWordings \in Nat \ {0}

VARIABLES
    wording,      \* per wording: "none", "live", or "gone" when it is linked to
                  \* a successor or forgotten
    corrections,  \* wordings inserted whose old one is not linked yet
    hasty,        \* history: the owner acted on a list that was not current
    overview,     \* what is on screen, or NoOverview
    overviews,    \* answers on their way
    preview,      \* the Restore dialog, or NoPreview
    memoryBusy, memoryError

itemVars == <<wording, corrections, hasty>>
memoryPanelVars == <<overview, overviews, preview, memoryBusy, memoryError>>

Wordings == 1..MaxWordings
LiveWordings == {w \in Wordings : wording[w] = "live"}
NoOverview == [version |-> -1, items |-> {}]
NoPreview == [version |-> 0, text |-> -1]

MemoryPanelTypeOK ==
    /\ wording \in [Wordings -> {"none", "live", "gone"}] /\ hasty \in BOOLEAN
    /\ corrections \subseteq [old : Wordings, new : Wordings]
    /\ overview.items \subseteq Wordings /\ Cardinality(overviews) <= 2
    /\ preview.version \in Nat /\ preview.text \in -1..MaxTexts
    /\ memoryBusy \in BOOLEAN /\ memoryError \in BOOLEAN

(* GET /api/memory. *)
Overview == [version |-> Len(ledger), items |-> LiveWordings]

MemoryPanelInit ==
    /\ wording = [w \in Wordings |-> IF w = 1 THEN "live" ELSE "none"]
    /\ corrections = {} /\ hasty = FALSE
    /\ overview = NoOverview /\ overviews = {Overview} /\ preview = NoPreview
    /\ memoryBusy = FALSE /\ memoryError = FALSE

(* load: clears the error; answered in any order. *)
LoadOverview ==
    /\ memoryError' = FALSE
    /\ overviews' = IF Cardinality(overviews) < 2 THEN overviews \cup {Overview'}
                                                  ELSE {Overview'}

OverviewArrives(o) ==
    /\ o \in overviews /\ overviews' = overviews \ {o} /\ overview' = o
    /\ UNCHANGED <<memoryVars, itemVars, preview, memoryBusy, memoryError>>

(* A failed load replaces the panel by its error. *)
OverviewLost(o) ==
    /\ o \in overviews /\ overviews' = overviews \ {o} /\ memoryError' = TRUE
    /\ preview' = NoPreview
    /\ UNCHANGED <<memoryVars, itemVars, overview, memoryBusy>>

OnScreen == overview # NoOverview /\ ~memoryError

(* Every version but the newest shown can be restored. *)
Restorable(v) == v \in 1..(overview.version - 1)

(* GET /api/memory/versions/{version}/content. *)
fetchVersionContent(v) == ledger[v]

(* The dialog, and the text of the version for its diff. *)
OpenPreview(v) ==
    /\ OnScreen /\ ~memoryBusy /\ Restorable(v)
    /\ preview' = [version |-> v, text |-> -1]
    /\ UNCHANGED <<memoryVars, itemVars, overview, overviews, memoryBusy, memoryError>>

PreviewArrives ==
    /\ preview # NoPreview /\ preview.text = -1
    /\ preview' = [preview EXCEPT !.text = fetchVersionContent(preview.version)]
    /\ UNCHANGED <<memoryVars, itemVars, overview, overviews, memoryBusy, memoryError>>

(* The dialog confirms with or without its diff. *)
ConfirmRestore ==
    /\ OnScreen /\ preview # NoPreview
    /\ RestoreFile(preview.version)
    /\ preview' = NoPreview /\ memoryBusy' = TRUE
    /\ UNCHANGED <<itemVars, overview, overviews, memoryError>>

(* The steps of the runs; the panel hears of its rollback. *)
MemoryServes(i) ==
    /\ MemoryRunStep(i) /\ UNCHANGED <<itemVars, overview, preview>>
    /\ IF runs[i].by = "rollback" /\ runs[i].at = "rebuilding" /\ memoryBusy
       THEN LoadOverview /\ memoryBusy' = FALSE
       ELSE UNCHANGED <<overviews, memoryBusy, memoryError>>

(* The answer of a rollback is an error or is lost: the panel gives way to *)
(* the message until it is opened again or something else loads it.        *)
MemoryFails(i) ==
    /\ RunFails(i) /\ UNCHANGED <<itemVars, overview, overviews, preview>>
    /\ IF runs[i].by = "rollback" /\ memoryBusy
       THEN memoryError' = TRUE /\ memoryBusy' = FALSE
       ELSE UNCHANGED <<memoryBusy, memoryError>>

MemoryServerRestarts ==
    /\ RestartMemory /\ corrections' = {}
    /\ hasty' = (hasty \/ corrections # {})
    /\ memoryError' = (memoryError \/ memoryBusy) /\ memoryBusy' = FALSE
    /\ UNCHANGED <<wording, overview, overviews, preview>>

ReopenMemory ==
    /\ overview' = NoOverview /\ overviews' = {Overview} /\ preview' = NoPreview
    /\ memoryBusy' = FALSE /\ memoryError' = FALSE
    /\ UNCHANGED <<memoryVars, itemVars>>

-----------------------------------------------------------------------------
(* The section of remembered things. *)
Listed(w) == OnScreen /\ w \in overview.items

(* An item is acted on as it is listed; nothing is disabled meanwhile. *)
ActsOn(w) ==
    /\ Listed(w)
    /\ hasty' = (hasty \/ overview.items # LiveWordings \/ corrections # {})

(* The answer of a change loads the overview; a lost one shows a toast and *)
(* leaves the list as it is.                                               *)
ChangeAnswered == LoadOverview \/ UNCHANGED <<overviews, memoryError>>

(* POST /api/memory/items/{id}/forget. *)
forgetMemory(w) == wording' = [wording EXCEPT ![w] = "gone"]

Forget(w) ==
    /\ Whole /\ ActsOn(w) /\ forgetMemory(w)
    /\ UNCHANGED <<memoryVars, corrections, overview, preview, memoryBusy>>
    /\ ChangeAnswered

(* POST /api/memory/items/{id}/supersede: the new wording is remembered .. *)
supersedeMemory(w, new) ==
    /\ wording' = [wording EXCEPT ![new] = "live"]
    /\ corrections' = corrections \cup {[old |-> w, new |-> new]}

Correct(w) ==
    /\ Whole /\ ActsOn(w)
    /\ \E new \in Wordings :
        /\ wording[new] = "none" /\ \A v \in 1..(new - 1) : wording[v] # "none"
        /\ supersedeMemory(w, new)
    /\ UNCHANGED <<memoryVars, memoryPanelVars>>

\* Mutant: the new wording is linked, the old one stays live.
LinkCorrectionKept ==
    /\ Whole
    /\ \E c \in corrections : corrections' = corrections \ {c}
    /\ UNCHANGED <<memoryVars, wording, hasty, overview, preview, memoryBusy>>
    /\ ChangeAnswered

(* .. and the old one is linked to it, whatever it is by then. *)
LinkCorrection ==
    /\ Whole
    /\ \E c \in corrections :
        /\ corrections' = corrections \ {c}
        /\ wording' = [wording EXCEPT ![c.old] = "gone"]
    /\ UNCHANGED <<memoryVars, hasty, overview, preview, memoryBusy>>
    /\ ChangeAnswered

ItemRow(w) == Forget(w) \/ Correct(w)

-----------------------------------------------------------------------------
(* "The new wording takes over": a remembered thing that was corrected and *)
(* forgotten one step at a time reaches recall in one wording at most.     *)
OneWording == corrections = {} /\ ~hasty => Cardinality(LiveWordings) <= 1

(* Restoring brings back the text that the dialog compared with, however   *)
(* long it was open.                                                       *)
RestoresAsPreviewed ==
    [][preview.text # -1 /\ preview' = NoPreview /\ memoryBusy' /\ ~memoryBusy
        => file' = preview.text]_<<memoryVars, memoryPanelVars>>
=============================================================================
