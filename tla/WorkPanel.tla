----------------------------- MODULE WorkPanel -----------------------------
(***************************************************************************)
(* The Work surface (src/web/components/work/work-panel.tsx): the list of  *)
(* all jobs and the detail of one, polled while its state is live.  Its    *)
(* answers name their job and are dropped when another one was opened      *)
(* since.  A cancel or a retry comes back later and opens its job again.   *)
(***************************************************************************)
EXTENDS Workbench

VARIABLES
    openId,   \* the ref: the job opened last, or NoJob
    opened,   \* the detail on screen, or NoDetail
    answers,  \* snapshots on their way to the panel
    listed,   \* ids in the list
    acts      \* jobs whose cancel or retry the server has taken

panelVars == <<openId, opened, answers, listed, acts>>

PanelTypeOK ==
    /\ openId \in Jobs \cup {NoJob} /\ opened \in Snapshots \cup {NoDetail}
    /\ answers \subseteq Snapshots /\ Cardinality(answers) <= MaxLoads
    /\ listed \subseteq Jobs /\ acts \subseteq Jobs

PanelInit ==
    /\ openId = NoJob /\ opened = NoDetail /\ answers = {} /\ listed = {} /\ acts = {}

(* A panel that is mounted anew, or unmounted: answers of the old one are  *)
(* dropped.                                                                *)
PanelFresh(rowsListed) ==
    /\ openId' = NoJob /\ opened' = NoDetail /\ answers' = {} /\ acts' = {}
    /\ listed' = rowsListed

(* The sidebar's Work entry toggles; the bench is mounted in chat only. *)
ToggleWork ==
    /\ view' = IF view = "chat" THEN "work" ELSE "chat"
    /\ PanelFresh(IF view = "chat" THEN Existing ELSE {})
    /\ UNCHANGED <<home, thread, allJobs, benchOpen, benchClosed, byHand>>
    /\ FollowShown

InPanel == view = "work"
InList == InPanel /\ opened = NoDetail
InDetail == InPanel /\ opened # NoDetail

loadList == listed' = Existing

(* fetchJob: as the server answers now.  Bound: MaxLoads on their way. *)
Fetch(j) == Cardinality(answers) < MaxLoads /\ answers' = answers \cup {SnapshotAfter(j)}

(* open(id), from the list or the last run of a schedule. *)
Open(j) ==
    /\ InList /\ j \in listed
    /\ openId' = j /\ UNCHANGED ledgerVars /\ Fetch(j)
    /\ UNCHANGED <<opened, listed, acts>>

Back ==
    /\ InDetail
    /\ openId' = NoJob /\ opened' = NoDetail /\ loadList
    /\ UNCHANGED <<answers, acts>>

\* Mutant: an answer is shown whatever was opened since.
PanelAnsweredLate(d) ==
    /\ d \in answers /\ answers' = answers \ {d}
    /\ opened' = d
    /\ UNCHANGED <<openId, listed, acts>>

(* An answer, for open and for the poll: kept only if its job is open. *)
PanelAnswered(d) ==
    /\ d \in answers /\ answers' = answers \ {d}
    /\ opened' = IF openId = d.job THEN d ELSE opened
    /\ UNCHANGED <<openId, listed, acts>>

PanelLost(d) ==
    /\ d \in answers /\ faults < MaxFaults
    /\ answers' = answers \ {d}
    /\ UNCHANGED <<openId, opened, listed, acts>>

\* Mutant: the interval watches the states in which a job stands still.
PanelPollStill ==
    /\ InDetail /\ opened.state = "still"
    /\ UNCHANGED ledgerVars /\ Fetch(opened.job)
    /\ UNCHANGED <<openId, opened, listed, acts>>

(* The interval of 1500 ms exists while the detail on screen is live. *)
PanelPoll ==
    /\ InDetail /\ opened.state = "live"
    /\ UNCHANGED ledgerVars /\ Fetch(opened.job)
    /\ UNCHANGED <<openId, opened, listed, acts>>

(* decide: the decision is sent for the job opened last, which is then     *)
(* opened again, whatever came of it.                                      *)
PanelDecides ==
    /\ InDetail /\ CardShown(opened) /\ openId # NoJob
    /\ IF opened.job = openId THEN PostDecision(openId) ELSE UNCHANGED ledgerVars
    /\ Fetch(openId)
    /\ UNCHANGED <<openId, opened, listed, acts>>

(* act: a refused one (409) changes nothing on screen. *)
PanelActs ==
    /\ InDetail
    /\ \E to \in {CANCELLED, RETRYING} :
        /\ IF to = CANCELLED THEN Stoppable(opened) ELSE Retriable(opened)
        /\ acts' = IF Refused(opened.job, to) THEN acts ELSE acts \cup {opened.job}
        /\ Post(opened.job, to)
    /\ UNCHANGED <<openId, opened, answers, listed>>

(* Its answer: open(id) and loadList, wherever the owner is by now. *)
ActAnswered(j) ==
    /\ j \in acts /\ acts' = acts \ {j}
    /\ openId' = j /\ loadList
    /\ UNCHANGED ledgerVars /\ Fetch(j)
    /\ UNCHANGED opened
=============================================================================
