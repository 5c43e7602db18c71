---------------------------- MODULE Conversation ----------------------------
(***************************************************************************)
(* The chat page as a whole: the door, the chat client and its composer,   *)
(* against a server that streams turns, crashes and restarts.  A reload of *)
(* the page is the client's crash: localStorage and sessionStorage survive.*)
(* The owner acts at most MaxGestures times inside the app; guesses at the *)
(* door are not counted.                                                   *)
(***************************************************************************)
EXTENDS Composer, SessionGate

CONSTANTS
    Kept,         \* conversations of an earlier visit, as the server lists them
    MaxGestures,  \* what the owner does inside the app
    MaxCrashes    \* crashes of the server

ASSUME KeptAssumption == Kept \subseteq Threads
ASSUME GestureBounds == MaxGestures \in Nat /\ MaxCrashes \in Nat

VARIABLES gestures, crashes   \* spent so far

vars == <<clientVars, composerVars, gateVars, gestures, crashes>>

TypeOK ==
    /\ ServerTypeOK /\ ClientTypeOK /\ ComposerTypeOK /\ GateTypeOK
    /\ gestures \in 0..MaxGestures /\ crashes \in 0..MaxCrashes

(* Conversations of an earlier visit may exist, and the browser may *)
(* remember one of them.                                            *)
Init ==
    /\ up = TRUE /\ turn = [i \in Slots |-> NoTurn]
    /\ row = [t \in Threads |-> IF t \in Kept THEN "listed" ELSE "unused"]
    /\ stored \in {NoThread} \cup Kept
    /\ threadRef = NoThread /\ activeThread = NoThread
    /\ messages = <<>> /\ status = "idle" /\ loadError = FALSE
    /\ continuity = NoThread /\ loads = {} /\ abortOf = 0
    /\ threads = {} /\ refreshes = {} /\ archives = {} /\ archivedShown = {}
    /\ offline = FALSE /\ view = "chat" /\ patient = TRUE
    /\ ComposerInit /\ GateInit
    /\ gestures = 0 /\ crashes = 0

InApp == gate = "app"
Gesture == gestures < MaxGestures /\ gestures' = gestures + 1 /\ UNCHANGED crashes
NoGesture == UNCHANGED <<gestures, crashes>>

(* The first effects of ChatApp: the composer's, then the list and the     *)
(* remembered conversation.                                                *)
Mount ==
    /\ IF stored # NoThread
       THEN LoadThread(stored)
       ELSE UNCHANGED <<selection, messages, status, loadError, continuity, loads,
                        abortOf, patient>>
    /\ UNCHANGED <<serverVars, threads, archives, archivedShown, offline, view>>
    /\ RefreshThreads(row)
    /\ DraftSyncOnMount(stored)
    /\ UNCHANGED <<files, latch, pending, frame, sentCount, attached, typed>>

OpenDoor ==
    /\ SessionAnswer(up) /\ NoGesture
    /\ IF gate' = "app" THEN Mount ELSE UNCHANGED <<clientVars, composerVars>>

Door ==
    /\ \/ LoginAnswer /\ NoGesture
       \/ LoginLost /\ NoGesture
       \/ WindowEnds /\ NoGesture
       \/ (\E guess \in {"right", "wrong"} : Login(guess)) /\ NoGesture
    /\ UNCHANGED <<clientVars, composerVars>>

(* What the owner does outside the composer. *)
Click == Stop \/ Suggest \/ Retry \/ Sidebar \/ Palette \/ Topbar

OwnerClicks == /\ InApp /\ Rendered /\ Gesture /\ Click /\ Follow /\ UNCHANGED gateVars

OwnerWrites ==
    /\ InApp /\ Gesture /\ UNCHANGED gateVars
    /\ \/ \E w \in Words : Type(w)
       \/ DropFile \/ PasteFile \/ RemoveFile \/ Submit

(* What arrives from the server or the network. *)
Arrival ==
    \/ DeliverThreads \/ LoseLoad
    \/ \E t \in Threads :
        DeliverMessages(t) \/ DeliverContext(t) \/ ArchiveAnswered(t) \/ ArchiveLost(t)
    \/ \E i \in Slots : ReadEvent(i) \/ FinishRead(i) \/ BreakTurn(i)

Network == /\ InApp /\ Rendered /\ Arrival /\ Follow /\ NoGesture /\ UNCHANGED gateVars

Timers ==
    /\ InApp /\ NoGesture /\ UNCHANGED gateVars
    /\ \/ Rendered /\ PollHealth /\ Follow
       \/ Render \/ Unlatch
       \/ \E i \in DOMAIN pending : ConversionEnds(i) \/ ConversionDropped(i)

ServerTurns ==
    /\ Rendered /\ \E i \in Slots : TurnStep(i)
    /\ UNCHANGED <<selection, feed, shell, composerVars, gateVars>> /\ NoGesture

(* The failure counts of the login route are memory of the process. *)
ServerCrash ==
    /\ crashes < MaxCrashes /\ crashes' = crashes + 1
    /\ Rendered /\ Crash /\ failures' = 0 /\ window' = FALSE
    /\ UNCHANGED <<selection, feed, shell, composerVars, gate, asking, attempt,
                   cookie, gestures>>

ServerRestart ==
    /\ Rendered /\ Restart /\ NoGesture
    /\ UNCHANGED <<selection, feed, shell, composerVars, gateVars>>

(* The page is loaded again: requests in flight are gone, the server cuts  *)
(* the turns nobody reads.                                                 *)
Reload ==
    /\ Rendered /\ gate # "loading" /\ Gesture /\ ReloadGate
    /\ Fresh /\ loads' = {} /\ refreshes' = {}
    /\ turn' = [i \in Slots |-> NoTurn]
    /\ threadRef' = NoThread /\ activeThread' = NoThread
    /\ ClearInput /\ latch' = FALSE /\ pending' = <<>>
    /\ frame' = NoFrame
    /\ UNCHANGED <<up, row, stored, drafts, sentCount, attached, typed>>

Next ==
    \/ OpenDoor \/ Door \/ OwnerClicks \/ OwnerWrites \/ Network \/ Timers
    \/ ServerTurns \/ ServerCrash \/ ServerRestart \/ Reload

(* The server goes on with the turns it runs and is started again after a  *)
(* crash; frames and ends of streams arrive, broken ones are noticed; the  *)
(* timers of the page run.  Nothing obliges the owner to act.              *)
Reading(i) ==
    /\ \/ ReadEvent(i) \/ FinishRead(i)
       \/ (~up \/ turn[i].phase = "cut") /\ BreakTurn(i)
    /\ Follow
PageProgress ==
    /\ InApp /\ Rendered /\ NoGesture /\ UNCHANGED gateVars
    /\ \/ PollHealth /\ Follow
       \/ \E i \in Slots : Reading(i)
Progress ==
    \/ ServerTurns \/ ServerRestart \/ PageProgress
    \/ InApp /\ Render /\ NoGesture /\ UNCHANGED gateVars

Fairness == WF_vars(Progress)

Spec == Init /\ [][Next]_vars /\ Fairness

-----------------------------------------------------------------------------
(* The ref that sends post to, the state the page renders and the thread a *)
(* reload returns to are written in five places (load, thread.started,     *)
(* archive, new conversation, mount) and never disagree.                   *)
SelectionAgrees == InApp => threadRef = activeThread /\ stored = activeThread

(* The transcript on screen is the active conversation's, provided no      *)
(* selection overtook a load, no load failed, and turns did not overlap:   *)
(* what loadThread assumes, as its answers carry no identity.              *)
HistoryIsActive ==
    InApp /\ patient /\ ~LoadingMessages =>
        \A i \in DOMAIN messages : messages[i].from \in {activeThread, Live}

(* "Typed text survives switching conversations" (composer.tsx): what is   *)
(* typed is the saved draft of the thread that is shown.  A submit with    *)
(* attachments breaks this: its conversion may outlive the composer and    *)
(* clear a draft under the text that a new composer has restored.          *)
DraftMirrorsText == InApp /\ mounted /\ attached = {} => drafts[activeThread] = text

(* "Each thread keeps its own draft in sessionStorage, restored ... when the *)
(* thread returns" (composer.tsx): whenever the composer comes to show a   *)
(* thread, after a switch, a panel or a load of the page, its text is what *)
(* was last typed there, and no other thread loses its draft.  Two         *)
(* exceptions: something was attached, as above, and a load of the page    *)
(* that selects a remembered thread, which erases the draft of the new     *)
(* conversation.                                                           *)
Showing == InApp /\ mounted
Written(t) == IF Showing /\ t = activeThread THEN text ELSE drafts[t]
Shows == Showing' /\ (~Showing \/ activeThread' # activeThread)
Spared(t) == t # NoThread \/ InApp \/ stored = NoThread

DraftSurvivesSwitch ==
    [][Shows /\ attached = {} =>
       /\ text' = Written(activeThread')
       /\ \A t \in ThreadIds : Spared(t) => drafts'[t] = Written(t)]_vars

(* Two Enters before React flushes the first send post one message, as     *)
(* long as nothing is attached to it.                                      *)
PlainSentOnce == \A w \in Words \ attached : sentCount[w] <= 1

(* "One message never sends twice" (composer.tsx). *)
SentOnce == \A w \in Words : sentCount[w] <= 1

(* "Session first, app second": no part of the app is mounted before the   *)
(* server accepts its calls.                                               *)
AppNeedsSession == InApp => ~Required \/ cookie

(* "Nothing spins forever", "the composer re-enables without a reload"     *)
(* (docs/MANUAL-TEST-PLAN.md): a turn or an outage always ends.            *)
EchoSettles == (InApp /\ EchoState # "idle") ~> (~InApp \/ EchoState = "idle")
=============================================================================
