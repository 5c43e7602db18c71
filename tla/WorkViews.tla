------------------------------ MODULE WorkViews ------------------------------
(***************************************************************************)
(* The two views of the job ledger, the workbench beside the conversation  *)
(* and the Work panel, with the worker that moves the jobs.  One of the    *)
(* two is on screen at a time.  The owner acts at most MaxGestures times.  *)
(***************************************************************************)
EXTENDS WorkPanel

CONSTANT MaxGestures

ASSUME GesturesAssumption == MaxGestures \in Nat

VARIABLE gestures

vars == <<ledgerVars, chatVars, benchVars, panelVars, gestures>>

TypeOK ==
    /\ LedgerTypeOK /\ BenchTypeOK /\ PanelTypeOK /\ gestures \in 0..MaxGestures

(* A job may be running when the page is loaded. *)
Init ==
    /\ \E first \in {NoRow, "live"} :
        /\ state = [j \in Jobs |-> IF j = 1 THEN first ELSE NoRow]
        /\ rows = [j \in Jobs |-> IF j = 1 /\ first # NoRow THEN 1 ELSE 0]
    /\ asked = [j \in Jobs |-> "none"]
    /\ BenchInit /\ PanelInit /\ gestures = 0

Worker ==
    /\ \E j \in Jobs : CreateJob(j) \/ RunnerMoves(j)
    /\ UNCHANGED <<chatVars, benchVars, panelVars, gestures>>

Gesture == gestures < MaxGestures /\ gestures' = gestures + 1

OwnerNavigates ==
    /\ Gesture /\ UNCHANGED ledgerVars
    /\ \/ (\E t \in Threads : SelectThread(t)) /\ PanelFresh({})
       \/ (CloseBench \/ OpenBench) /\ UNCHANGED panelVars
       \/ ToggleWork

OwnerAtBench ==
    /\ Gesture /\ UNCHANGED panelVars
    /\ BenchDecides \/ BenchActs

OwnerAtPanel ==
    /\ Gesture
    /\ \/ (\E j \in Jobs : Open(j)) \/ PanelDecides \/ PanelActs
       \/ Back /\ UNCHANGED ledgerVars
    /\ UNCHANGED <<chatVars, benchVars>>

BenchHears ==
    /\ \/ PollJobs \/ StreamRow \/ StreamEnd \/ StreamBreaks \/ Reconnect
       \/ \E i \in DOMAIN loads : LoadAnswered(i) \/ LoadLost(i)
    /\ UNCHANGED <<ledgerVars, panelVars, gestures>>

PanelHears ==
    /\ \/ PanelPoll /\ UNCHANGED faults
       \/ (\E j \in Jobs : ActAnswered(j)) /\ UNCHANGED faults
       \/ (\E d \in answers : PanelAnswered(d)) /\ UNCHANGED <<ledgerVars, faults>>
       \/ (\E d \in answers : PanelLost(d)) /\ faults' = faults + 1 /\ UNCHANGED ledgerVars
    /\ UNCHANGED <<chatVars, detail, loads, streamVars, orderly, gestures>>

Next ==
    \/ Worker \/ OwnerNavigates \/ OwnerAtBench \/ OwnerAtPanel
    \/ BenchHears \/ PanelHears

(* The server answers the oldest load and streams, the timers of the page  *)
(* run: of a page that is visible, as useAllJobs asks.  Nothing obliges    *)
(* the worker or the owner.                                                *)
BenchProgress ==
    /\ PollJobs \/ StreamRow \/ StreamEnd \/ Reconnect \/ LoadAnswered(1)
    /\ UNCHANGED <<ledgerVars, panelVars, gestures>>
PanelProgress ==
    /\ \/ PanelPoll
       \/ (\E d \in answers : PanelAnswered(d)) /\ UNCHANGED ledgerVars
    /\ UNCHANGED <<chatVars, benchVars, gestures>>


Fairness == WF_vars(BenchProgress) /\ WF_vars(PanelProgress)

Spec == Init /\ [][Next]_vars /\ Fairness

-----------------------------------------------------------------------------
(* "A close wins until the thread changes" (chat-app.tsx): work that starts *)
(* in a conversation never reopens the bench the owner closed there.       *)
CloseWins == byHand => ~benchOpen

(* What the bench shows, and where its buttons point, is the job the page  *)
(* picked, as long as no answer was lost, overtaken or still on its way    *)
(* when the job changed: the answers are not tied to a job.                *)
BenchShowsItsJob == orderly => detail = NoDetail \/ detail.job = Shown

(* An answer that arrives after the owner has gone back or opened another  *)
(* job never takes the panel over.                                         *)
PanelShowsOpened ==
    [][opened' # opened /\ opened' # NoDetail => openId = opened'.job]_vars

(* "The ledger tail replaces polling" (workbench.tsx): a job that is over  *)
(* is shown as it ended.                                                   *)
BenchConverges ==
    (Shown # NoJob /\ state[Shown] \in Terminal) ~>
        (\/ Shown = NoJob \/ ~orderly \/ detail = Snapshot(Shown)
         \/ state[Shown] \notin Terminal)

(* Every job that waits for the owner gets marked at its conversation,     *)
(* whatever other jobs run there and whichever conversation is shown: the  *)
(* bench prefers a live job and would hide the card.                       *)
Unmarked ==
    \E j \in Jobs : /\ state[j] = WAITING_APPROVAL
                    /\ dominantJobState(allJobs, home[j]) # WAITING_APPROVAL
WaitingIsMarked == Unmarked ~> ~Unmarked

(* A detail that shows a live state is polled until it shows how the job   *)
(* went on.                                                                *)
ShowsLive == InDetail /\ opened.state = "live" /\ openId = opened.job
PanelFollows ==
    (ShowsLive /\ state[opened.job] # "live") ~>
        (~ShowsLive \/ state[opened.job] = "live")

(* "A live open job refreshes from persistence until it settles"           *)
(* (work-panel.tsx): a job that has ended is not shown in a state before.  *)
OpenJobSettles ==
    (InDetail /\ state[opened.job] \in Terminal) ~>
        (\/ ~InDetail \/ opened.state = state[opened.job]
         \/ openId # opened.job)
=============================================================================
