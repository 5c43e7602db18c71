-------------------------- MODULE Conversation_proofs --------------------------
(***************************************************************************)
(* Theorems about the chat page, for every number of threads, words, turns *)
(* and files, and for any number of gestures, crashes and reloads.         *)
(***************************************************************************)
EXTENDS Conversation, Removal_proofs, WellFoundedInduction

-----------------------------------------------------------------------------
(* What a step of the page is. *)

(* What the client does while the app is mounted; the composer follows. *)
ClientAct == Click \/ Arrival \/ PollHealth
Shown == InApp /\ Rendered /\ ClientAct /\ Follow

(* What the composer does. *)
Write == (\E w \in Words : Type(w)) \/ DropFile \/ RemoveFile \/ Submit
         \/ Render \/ Unlatch
         \/ (\E i \in DOMAIN pending : ConversionEnds(i) \/ ConversionDropped(i))

(* What the server does by itself. *)
ServerAct == (\E i \in Slots : TurnStep(i)) \/ Crash \/ Restart

DoorAct ==
    \/ OpenDoor \/ LoginAnswer \/ LoginLost \/ Reload
    \/ \E guess \in {"right", "wrong"} : Login(guess)
    \/ UNCHANGED <<gate, asking, attempt, cookie>>

LEMMA DoorMoves == [Next]_vars => DoorAct
  BY DEF Next, vars, gateVars, DoorAct, Door, WindowEnds, OwnerClicks, OwnerWrites, Network, Timers,
         ServerTurns, ServerCrash, ServerRestart

PageStep ==
    \/ OpenDoor /\ gate' = "app" /\ Mount
    \/ gate' = gate /\ Shown
    \/ gate' = gate /\ InApp /\ Write
    \/ gate' = gate /\ ServerAct /\ UNCHANGED <<selection, feed, shell, composerVars>>
    \/ Reload
    \/ gate' = gate /\ UNCHANGED <<clientVars, composerVars>>
    \/ OpenDoor /\ gate' # "app" /\ UNCHANGED <<clientVars, composerVars>>

LEMMA PageMoves == [Next]_vars => PageStep
<1>1. OpenDoor => PageStep
  BY DEF OpenDoor, PageStep
<1>2. Door => PageStep
  <2>1. Door => gate' = gate /\ UNCHANGED <<clientVars, composerVars>>
    BY DEF Door, LoginAnswer, LoginLost, WindowEnds, Login
  <2>2. QED
    BY <2>1 DEF PageStep
<1>3. OwnerClicks \/ Network => PageStep
  BY DEF OwnerClicks, Network, PageStep, Shown, ClientAct, gateVars
<1>4. OwnerWrites => PageStep
  BY DEF OwnerWrites, PageStep, Write, PasteFile, gateVars
<1>5. Timers => PageStep
  BY DEF Timers, PageStep, Shown, ClientAct, Write, gateVars
<1>6. ServerTurns \/ ServerCrash \/ ServerRestart => PageStep
  BY DEF ServerTurns, ServerCrash, ServerRestart, PageStep, ServerAct, gateVars
<1>7. UNCHANGED vars => PageStep
  <2>1. UNCHANGED vars => gate' = gate /\ UNCHANGED <<clientVars, composerVars>>
    BY DEF vars, gateVars
  <2>2. QED
    BY <2>1 DEF PageStep
<1>8. QED
  BY <1>1, <1>2, <1>3, <1>4, <1>5, <1>6, <1>7 DEF Next, PageStep

-----------------------------------------------------------------------------
(* The door. *)

(* A login is under way only on the login screen, and the app is mounted   *)
(* only after the last question was answered.                              *)
DoorInv ==
    /\ attempt \in {"right", "wrong"} => gate = "login" /\ ~asking
    /\ asking => gate \in {"loading", "login"}
    /\ AppNeedsSession

LEMMA DoorKeeps == DoorInv /\ [Next]_vars => DoorInv'
<1> SUFFICES ASSUME DoorInv, DoorAct PROVE DoorInv'
  BY DoorMoves
<1>1. CASE OpenDoor
  BY <1>1 DEF OpenDoor, SessionAnswer, Rendering, DoorInv, AppNeedsSession, InApp
<1>2. CASE LoginAnswer
  BY <1>2 DEF LoginAnswer, LoginRefused, LoginFailed, LoginGranted, DoorInv, AppNeedsSession, InApp
<1>3. CASE LoginLost
  BY <1>3 DEF LoginLost, DoorInv, AppNeedsSession, InApp
<1>4. CASE Reload
  BY <1>4 DEF Reload, ReloadGate, DoorInv, AppNeedsSession, InApp
<1>5. CASE \E guess \in {"right", "wrong"} : Login(guess)
  BY <1>5 DEF Login, DoorInv, AppNeedsSession, InApp
<1>6. CASE UNCHANGED <<gate, asking, attempt, cookie>>
  BY <1>6 DEF DoorInv, AppNeedsSession, InApp
<1>7. QED
  BY <1>1, <1>2, <1>3, <1>4, <1>5, <1>6 DEF DoorAct

LEMMA DoorHolds == Spec => []DoorInv
<1>1. Init => DoorInv
  BY DEF Init, GateInit, DoorInv, AppNeedsSession, InApp
<1>2. QED
  BY <1>1, DoorKeeps, PTL DEF Spec

(* use-session.ts, app-gate.tsx: whatever logins, lost answers, lockouts,    *)
(* restarts and reloads interleave, the app is mounted only in a browser     *)
(* that holds a session, when one is required.                             *)
THEOREM NoAppBeforeSession == Spec => []AppNeedsSession
<1>1. DoorInv => AppNeedsSession
  BY DEF DoorInv
<1>2. QED
  BY <1>1, DoorHolds, PTL

-----------------------------------------------------------------------------
(* The shape of the turns and of the selection. *)

Replies == {<<>>} \cup {<<e>> : e \in WireEvents}
Phases == {"free", "posted", "running", "ended", "cut"}
TurnRecord == [phase : Phases, thread : ThreadIds, calls : Int, left : Int, queue : Replies]

ShapeInv ==
    /\ turn \in [Slots -> TurnRecord]
    /\ threadRef \in ThreadIds /\ activeThread \in ThreadIds /\ stored \in ThreadIds
    /\ offline \in BOOLEAN

(* Every change of the selection is a Select. *)
Selects == UNCHANGED selection \/ \E t \in ThreadIds : Select(t)

LEMMA NoThreadKnown == NoThread \in ThreadIds
  BY DEF ThreadIds

LEMMA NoTurnShape == NoTurn \in TurnRecord
  BY NoThreadKnown DEF NoTurn, TurnRecord, Phases, Replies

LEMMA ClickSelects == ShapeInv /\ Click => Selects
<1> SUFFICES ASSUME ShapeInv, Click PROVE Selects
  OBVIOUS
<1>1. CASE Stop \/ Suggest \/ Retry
  BY <1>1 DEF Stop, Suggest, Retry, Resend, Send, Settle, Selects
<1>2. CASE StartNew
  BY <1>2, NoThreadKnown DEF StartNew, ClearConversation, Selects
<1>3. ASSUME NEW t \in Threads, SelectThread(t) PROVE Selects
  BY <1>3 DEF SelectThread, LoadThread, Selects, ThreadIds
<1>4. ASSUME NEW to, SelectView(to) PROVE Selects
  BY <1>4 DEF SelectView, Selects
<1>5. CASE OpenArchived
  BY <1>5 DEF OpenArchived, Selects
<1>6. ASSUME NEW t \in Threads, Rename(t) \/ ArchiveAsked(t) \/ RestoreThread(t) PROVE Selects
  BY <1>6 DEF Rename, ArchiveAsked, RestoreThread, Selects
<1>7. QED
  BY <1>1, <1>2, <1>3, <1>4, <1>5, <1>6 DEF Click, Sidebar, Palette, Topbar, ThreadRow

LEMMA ArrivalSelects == ShapeInv /\ Arrival => Selects
<1> SUFFICES ASSUME ShapeInv, Arrival PROVE Selects
  OBVIOUS
<1>1. CASE DeliverThreads \/ LoseLoad
  BY <1>1 DEF DeliverThreads, LoseLoad, Selects
<1>2. ASSUME NEW t \in Threads,
             DeliverMessages(t) \/ DeliverContext(t) \/ ArchiveAnswered(t) \/ ArchiveLost(t)
      PROVE  Selects
  BY <1>2, NoThreadKnown
     DEF DeliverMessages, DeliverContext, ArchiveAnswered, ArchiveLost, ClearConversation, Selects
<1>3. ASSUME NEW i \in Slots, ReadEvent(i) PROVE Selects
  BY <1>3 DEF ReadEvent, Selects, ShapeInv, TurnRecord
<1>4. ASSUME NEW i \in Slots, FinishRead(i) \/ BreakTurn(i) PROVE Selects
  BY <1>4 DEF FinishRead, BreakTurn, Settle, Selects
<1>5. QED
  BY <1>1, <1>2, <1>3, <1>4 DEF Arrival

LEMMA ActSelects == ShapeInv /\ ClientAct => Selects
  BY ClickSelects, ArrivalSelects DEF ClientAct, PollHealth, fetchHealth, Selects

(* The slot that a send takes is free. *)
LEMMA LeastSlot ==
    ASSUME FreeSlots # {}
    PROVE  (CHOOSE s \in FreeSlots : \A o \in FreeSlots : s <= o) \in FreeSlots
<1> DEFINE R == OpToRel(<, Nat)
<1>1. FreeSlots \subseteq Nat
  BY TurnBounds DEF FreeSlots, Slots
<1>2. IsWellFoundedOn(R, Nat)
  BY NatLessThanWellFounded
<1>3. PICK n \in FreeSlots : \A m \in FreeSlots : ~(<<m, n>> \in R)
  BY <1>1, <1>2, WFMin
<1>4. \A m \in FreeSlots : ~(m < n)
  BY <1>1, <1>3 DEF OpToRel
<1>5. \A m \in FreeSlots : n <= m
  BY <1>1, <1>4
<1>6. QED
  BY <1>5

LEMMA SentShape == ShapeInv /\ Send => turn' \in [Slots -> TurnRecord] /\ UNCHANGED <<selection, shell>>
<1> SUFFICES ASSUME ShapeInv, Send PROVE turn' \in [Slots -> TurnRecord] /\ UNCHANGED <<selection, shell>>
  OBVIOUS
<1> DEFINE i == CHOOSE s \in FreeSlots : \A o \in FreeSlots : s <= o
<1>1. i \in Slots
  BY LeastSlot DEF Send, CanSend, FreeSlots
<1>2. turn' = [turn EXCEPT ![i].phase = "posted", ![i].thread = threadRef]
  BY DEF Send
<1> HIDE DEF i
<1>3. "posted" \in Phases /\ threadRef \in ThreadIds /\ turn \in [Slots -> TurnRecord]
  BY DEF Phases, ShapeInv
<1>4. turn' \in [Slots -> TurnRecord]
  BY <1>1, <1>2, <1>3 DEF TurnRecord
<1>5. QED
  BY <1>4 DEF Send

LEMMA SettledShape ==
    ASSUME ShapeInv, NEW i, Settle(i)
    PROVE  turn' \in [Slots -> TurnRecord] /\ offline' = offline
  BY NoTurnShape DEF ShapeInv, Settle

LEMMA ClickShape ==
    ShapeInv /\ Click => turn' \in [Slots -> TurnRecord] /\ offline' = offline
<1> SUFFICES ASSUME ShapeInv, Click
             PROVE  turn' \in [Slots -> TurnRecord] /\ offline' = offline
  OBVIOUS
<1>1. CASE Stop
  BY <1>1, SettledShape DEF Stop
<1>2. CASE Suggest \/ Retry
  BY <1>2, SentShape DEF Suggest, Retry, Resend, shell
<1>3. CASE StartNew \/ OpenArchived
  BY <1>3 DEF StartNew, OpenArchived, serverVars, ShapeInv
<1>4. ASSUME NEW t \in Threads,
             SelectThread(t) \/ Rename(t) \/ ArchiveAsked(t) \/ RestoreThread(t)
      PROVE  turn' \in [Slots -> TurnRecord] /\ offline' = offline
  BY <1>4 DEF SelectThread, Rename, ArchiveAsked, archiveThread, RestoreThread, serverVars, ShapeInv
<1>5. ASSUME NEW to, SelectView(to)
      PROVE  turn' \in [Slots -> TurnRecord] /\ offline' = offline
  BY <1>5 DEF SelectView, serverVars, ShapeInv
<1>6. QED
  BY <1>1, <1>2, <1>3, <1>4, <1>5 DEF Click, Sidebar, Palette, Topbar, ThreadRow

LEMMA ArrivalShape ==
    ShapeInv /\ Arrival => turn' \in [Slots -> TurnRecord] /\ offline' = offline
<1> SUFFICES ASSUME ShapeInv, Arrival
             PROVE  turn' \in [Slots -> TurnRecord] /\ offline' = offline
  OBVIOUS
<1>1. CASE DeliverThreads \/ LoseLoad
  BY <1>1 DEF DeliverThreads, LoseLoad, serverVars, shell, ShapeInv
<1>2. ASSUME NEW t \in Threads,
             DeliverMessages(t) \/ DeliverContext(t) \/ ArchiveAnswered(t) \/ ArchiveLost(t)
      PROVE  turn' \in [Slots -> TurnRecord] /\ offline' = offline
  BY <1>2 DEF DeliverMessages, DeliverContext, ArchiveAnswered, ArchiveLost, serverVars, shell, ShapeInv
<1>3. ASSUME NEW i \in Slots, ReadEvent(i)
      PROVE  turn' \in [Slots -> TurnRecord] /\ offline' = offline
  BY <1>3 DEF ReadEvent, ConsumeFrame, shell, ShapeInv, TurnRecord, Replies
<1>4. ASSUME NEW i \in Slots, FinishRead(i) \/ BreakTurn(i)
      PROVE  turn' \in [Slots -> TurnRecord] /\ offline' = offline
  BY <1>4, SettledShape DEF FinishRead, BreakTurn
<1>5. QED
  BY <1>1, <1>2, <1>3, <1>4 DEF Arrival

LEMMA ServerShape == ShapeInv /\ ServerAct => turn' \in [Slots -> TurnRecord]
<1> SUFFICES ASSUME ShapeInv, ServerAct PROVE turn' \in [Slots -> TurnRecord]
  OBVIOUS
<1>t. turn \in [Slots -> TurnRecord]
  BY DEF ShapeInv
<1>1. ASSUME NEW i \in Slots, AcceptTurn(i) PROVE turn' \in [Slots -> TurnRecord]
  <2>1. PICK t \in Threads :
          turn' = [turn EXCEPT ![i].phase = "running", ![i].thread = t,
                               ![i].left = MaxEvents, ![i].queue = <<"thread.started">>]
    BY <1>1 DEF AcceptTurn
  <2>2. /\ "running" \in Phases /\ t \in ThreadIds
        /\ MaxEvents \in Int /\ <<"thread.started">> \in Replies
    BY TurnBounds DEF Phases, ThreadIds, Replies, WireEvents
  <2>3. QED
    BY <1>t, <2>1, <2>2 DEF TurnRecord
<1>2. ASSUME NEW i \in Slots, EmitDelta(i) \/ EmitToolStarted(i) \/ EmitToolFinished(i)
      PROVE  turn' \in [Slots -> TurnRecord]
  <2>1. \A e \in WireEvents : <<e>> \in Replies
    BY DEF Replies
  <2>2. {"text.delta", "tool.started", "tool.finished"} \subseteq WireEvents
    BY DEF WireEvents
  <2>3. turn[i].left - 1 \in Int /\ turn[i].calls + 1 \in Int /\ turn[i].calls - 1 \in Int
    BY <1>t DEF TurnRecord
  <2>4. CASE EmitDelta(i)
    <3>1. turn' = [turn EXCEPT ![i] = [turn[i] EXCEPT !.left = turn[i].left - 1,
                                                      !.queue = <<"text.delta">>]]
      BY <1>t, <2>4 DEF EmitDelta
    <3>2. QED
      BY <1>t, <2>1, <2>2, <2>3, <3>1 DEF TurnRecord
  <2>5. CASE EmitToolStarted(i)
    <3>1. turn' = [turn EXCEPT ![i] = [turn[i] EXCEPT !.left = turn[i].left - 1,
                                                      !.calls = turn[i].calls + 1,
                                                      !.queue = <<"tool.started">>]]
      BY <1>t, <2>5 DEF EmitToolStarted
    <3>2. QED
      BY <1>t, <2>1, <2>2, <2>3, <3>1 DEF TurnRecord
  <2>6. CASE EmitToolFinished(i)
    <3>1. turn' = [turn EXCEPT ![i] = [turn[i] EXCEPT !.calls = turn[i].calls - 1,
                                                      !.queue = <<"tool.finished">>]]
      BY <1>t, <2>6 DEF EmitToolFinished
    <3>2. QED
      BY <1>t, <2>1, <2>2, <2>3, <3>1 DEF TurnRecord
  <2>7. QED
    BY <1>2, <2>4, <2>5, <2>6
<1>3. ASSUME NEW i \in Slots, EndTurn(i) PROVE turn' \in [Slots -> TurnRecord]
  <2>1. PICK last \in {"turn.done", "turn.error"} :
          turn' = [turn EXCEPT ![i].phase = "ended", ![i].queue = <<last>>,
                               ![i].left = 0, ![i].calls = 0]
    BY <1>3 DEF EndTurn
  <2>2. "ended" \in Phases /\ <<last>> \in Replies /\ 0 \in Int
    BY DEF Phases, Replies, WireEvents
  <2>3. turn' = [turn EXCEPT ![i] = [turn[i] EXCEPT !.phase = "ended", !.queue = <<last>>,
                                                    !.left = 0, !.calls = 0]]
    BY <1>t, <2>1
  <2>4. [turn[i] EXCEPT !.phase = "ended", !.queue = <<last>>, !.left = 0, !.calls = 0]
          \in TurnRecord
    BY <1>t, <2>2 DEF TurnRecord
  <2>5. QED
    BY <1>t, <2>3, <2>4
<1>4. CASE Crash
  <2>1. [NoTurn EXCEPT !.phase = "cut"] \in TurnRecord
    BY NoThreadKnown DEF NoTurn, TurnRecord, Phases, Replies
  <2>2. QED
    BY <1>4, <2>1 DEF Crash, ShapeInv
<1>5. CASE Restart
  BY <1>5 DEF Restart, ShapeInv
<1>6. QED
  BY <1>1, <1>2, <1>3, <1>4, <1>5 DEF ServerAct, TurnStep

LEMMA DeliverShape ==
    ASSUME ShapeInv, NEW s, NEW c, Deliver(s, c)
    PROVE  turn' \in [Slots -> TurnRecord] /\ UNCHANGED <<selection, shell>>
<1>1. CASE Passes(s)
  BY <1>1, SentShape DEF Deliver
<1>2. CASE ~Passes(s)
  BY <1>2 DEF Deliver, clientVars, serverVars, ShapeInv
<1>3. QED
  BY <1>1, <1>2

LEMMA WriteShape ==
    ShapeInv /\ Write => turn' \in [Slots -> TurnRecord] /\ UNCHANGED <<selection, shell>>
<1> SUFFICES ASSUME ShapeInv, Write
             PROVE  turn' \in [Slots -> TurnRecord] /\ UNCHANGED <<selection, shell>>
  OBVIOUS
<1>1. CASE UNCHANGED clientVars
  BY <1>1 DEF clientVars, serverVars, ShapeInv
<1>2. CASE (\E w \in Words : Type(w)) \/ DropFile \/ RemoveFile \/ Render \/ Unlatch
  BY <1>1, <1>2 DEF Type, DropFile, RemoveFile, Render, Unlatch
<1>3. CASE Submit
  <2>1. UNCHANGED clientVars \/ \E s, c : Deliver(s, c)
    BY <1>3 DEF Submit
  <2>2. QED
    BY <1>1, <2>1, DeliverShape
<1>4. ASSUME NEW i \in DOMAIN pending, ConversionEnds(i) \/ ConversionDropped(i)
      PROVE  turn' \in [Slots -> TurnRecord] /\ UNCHANGED <<selection, shell>>
  <2>1. UNCHANGED clientVars \/ Send \/ \E s, c : Deliver(s, c)
    BY <1>4 DEF ConversionEnds, ConversionDropped
  <2>2. QED
    BY <1>1, <2>1, DeliverShape, SentShape
<1>5. QED
  BY <1>2, <1>3, <1>4 DEF Write

LEMMA MountShape ==
    ShapeInv /\ Mount => turn' \in [Slots -> TurnRecord] /\ Selects /\ offline' = offline
  BY DEF Mount, LoadThread, Selects, serverVars, ShapeInv

LEMMA ShapeKeeps == ShapeInv /\ [Next]_vars => ShapeInv'
<1> SUFFICES ASSUME ShapeInv, PageStep PROVE ShapeInv'
  BY PageMoves
<1>1. ASSUME turn' \in [Slots -> TurnRecord], Selects, offline' \in BOOLEAN PROVE ShapeInv'
  BY <1>1 DEF ShapeInv, Selects, Select, selection
<1>2. CASE Mount
  BY <1>1, <1>2, MountShape DEF ShapeInv
<1>3. CASE Click \/ Arrival
  BY <1>1, <1>3, ClickSelects, ArrivalSelects, ClickShape, ArrivalShape DEF ShapeInv
<1>4. CASE PollHealth
  <2>1. offline' \in BOOLEAN /\ turn' = turn /\ Selects
    BY <1>4 DEF PollHealth, fetchHealth, serverVars, Selects
  <2>2. QED
    BY <1>1, <2>1 DEF ShapeInv
<1>5. CASE Write
  BY <1>1, <1>5, WriteShape DEF ShapeInv, Selects, shell
<1>6. CASE ServerAct /\ UNCHANGED <<selection, feed, shell, composerVars>>
  BY <1>1, <1>6, ServerShape DEF ShapeInv, Selects, shell
<1>7. CASE Reload
  BY <1>7, NoThreadKnown, NoTurnShape DEF Reload, Fresh, ShapeInv
<1>8. CASE UNCHANGED <<clientVars, composerVars>>
  BY <1>8 DEF clientVars, serverVars, selection, shell, ShapeInv
<1>9. QED
  BY <1>2, <1>3, <1>4, <1>5, <1>6, <1>7, <1>8 DEF PageStep, Shown, ClientAct

LEMMA ShapeHolds == Spec => []ShapeInv
<1>1. Init => ShapeInv
  BY NoTurnShape, NoThreadKnown, KeptAssumption DEF Init, ShapeInv, ThreadIds
<1>2. QED
  BY <1>1, ShapeKeeps, PTL DEF Spec

-----------------------------------------------------------------------------
(* The three copies of the selection. *)

SelectionInv ==
    /\ threadRef = activeThread
    /\ ~InApp => activeThread = NoThread
    /\ InApp => stored = activeThread

LEMMA SelectionKeeps == DoorInv /\ ShapeInv /\ SelectionInv /\ [Next]_vars => SelectionInv'
<1> SUFFICES ASSUME DoorInv, ShapeInv, SelectionInv, PageStep PROVE SelectionInv'
  BY PageMoves
<1>1. ASSUME gate' = gate, UNCHANGED selection PROVE SelectionInv'
  BY <1>1 DEF SelectionInv, selection, InApp
<1>2. ASSUME gate' = gate, InApp, Selects PROVE SelectionInv'
  BY <1>1, <1>2 DEF SelectionInv, Selects, Select, InApp
<1>3. CASE OpenDoor /\ gate' = "app" /\ Mount
  <2>1. ~InApp
    BY <1>3 DEF OpenDoor, SessionAnswer, DoorInv, InApp
  <2>2. QED
    BY <1>3, <2>1 DEF Mount, LoadThread, Select, SelectionInv, selection, InApp
<1>4. CASE gate' = gate /\ Shown
  BY <1>2, <1>4, ActSelects DEF Shown
<1>5. CASE gate' = gate /\ InApp /\ Write
  BY <1>1, <1>5, WriteShape
<1>6. CASE Reload
  BY <1>6 DEF Reload, ReloadGate, SelectionInv, InApp
<1>7. CASE OpenDoor /\ gate' # "app" /\ UNCHANGED <<clientVars, composerVars>>
  <2>1. ~InApp
    BY <1>7 DEF OpenDoor, SessionAnswer, DoorInv, InApp
  <2>2. QED
    BY <1>7, <2>1 DEF clientVars, SelectionInv, selection, InApp
<1>8. CASE gate' = gate /\ UNCHANGED <<clientVars, composerVars>>
  BY <1>1, <1>8 DEF clientVars
<1>9. QED
  BY <1>1, <1>3, <1>4, <1>5, <1>6, <1>7, <1>8 DEF PageStep

LEMMA SelectionHolds == Spec => []SelectionInv
<1>1. Init => SelectionInv
  BY DEF Init, GateInit, SelectionInv, InApp
<1>2. QED
  BY <1>1, SelectionKeeps, DoorHolds, ShapeHolds, PTL DEF Spec

(* use-chat.ts, chat-app.tsx: the thread a send posts to, the thread the     *)
(* page shows and the thread a reload returns to agree, whatever answers,    *)
(* turns and reloads interleave.                                           *)
THEOREM SelectionStaysOne == Spec => []SelectionAgrees
<1>1. SelectionInv => SelectionAgrees
  BY DEF SelectionInv, SelectionAgrees
<1>2. QED
  BY <1>1, SelectionHolds, PTL

-----------------------------------------------------------------------------
(* The shape of the composer. *)

Frames == [lag : BOOLEAN, text : Texts, files : Nat]

ComposerInv ==
    /\ text \in Texts /\ files \in Nat /\ latch \in BOOLEAN
    /\ drafts \in [ThreadIds -> Texts] /\ sentCount \in [Words -> 0..2]
    /\ pending \in Seq(Submission) /\ frame \in Frames

LEMMA EmptyText == Empty \in Texts
  BY DEF Texts

LEMMA NoFrameShape == NoFrame \in Frames
  BY EmptyText DEF NoFrame, Frames

(* Reading the draft of a thread changes no draft. *)
LEMMA Synced ==
    ASSUME NEW saved \in [ThreadIds -> Texts], NEW t \in ThreadIds, NEW shown,
           DraftSync(saved, t, shown)
    PROVE  text' = saved[t] /\ drafts' = saved /\ text' \in Texts
  BY DEF DraftSync

LEMMA OrphanedShape ==
    ASSUME NEW s \in Seq(Submission)
    PROVE  /\ Orphaned(s) \in Seq(Submission) /\ DOMAIN Orphaned(s) = DOMAIN s
           /\ \A i \in DOMAIN s : Orphaned(s)[i].text = s[i].text
<1>1. DOMAIN s = 1..Len(s) /\ Len(s) \in Nat /\ \A i \in DOMAIN s : s[i] \in Submission
  BY LenProperties, ElementOfSeq
<1>2. \A i \in DOMAIN s : [s[i] EXCEPT !.live = FALSE] \in Submission
                          /\ [s[i] EXCEPT !.live = FALSE].text = s[i].text
  BY <1>1 DEF Submission
<1>3. Orphaned(s) \in [1..Len(s) -> Submission] /\ DOMAIN Orphaned(s) = DOMAIN s
  BY <1>1, <1>2 DEF Orphaned
<1>4. Orphaned(s) \in Seq(Submission)
  BY <1>1, <1>3, IsASeq
<1>5. QED
  BY <1>2, <1>3, <1>4 DEF Orphaned

(* What a step of the client does to the composer. *)
FollowForm ==
    /\ UNCHANGED <<drafts, sentCount, attached, typed>>
    /\ \/ /\ UNCHANGED composerVars
          /\ (view # "chat" /\ view' # "chat") \/ (activeThread' = activeThread /\ view' = view)
       \/ Unmount /\ view' # "chat"
       \/ /\ text' = drafts[activeThread'] /\ text' \in Texts /\ view' = "chat"
          /\ UNCHANGED <<files, latch, pending, frame>>

LEMMA FollowForms ==
    ASSUME ComposerInv, activeThread' \in ThreadIds, Follow
    PROVE  FollowForm
<1>1. CASE view # "chat" /\ view' # "chat"
  BY <1>1 DEF Follow, FollowForm, composerVars
<1>2. CASE view = "chat" /\ view' # "chat"
  BY <1>2 DEF Follow, FollowForm, Unmount
<1>3. CASE view # "chat" /\ view' = "chat"
  <2>1. DraftSync(drafts, activeThread', Empty)
        /\ UNCHANGED <<files, latch, pending, frame, sentCount, attached, typed>>
    BY <1>3 DEF Follow
  <2>2. QED
    BY <1>3, <2>1, Synced DEF FollowForm, ComposerInv
<1>4. CASE view = "chat" /\ view' = "chat"
  <2>1. (IF activeThread' # activeThread THEN DraftSync(drafts, activeThread', text)
                                         ELSE UNCHANGED <<text, drafts>>)
        /\ UNCHANGED <<files, latch, pending, frame, sentCount, attached, typed>>
    BY <1>4 DEF Follow
  <2>2. CASE activeThread' # activeThread
    BY <1>4, <2>1, <2>2, Synced DEF FollowForm, ComposerInv
  <2>3. CASE activeThread' = activeThread
    BY <1>4, <2>1, <2>3 DEF FollowForm, composerVars
  <2>4. QED
    BY <2>2, <2>3
<1>5. QED
  BY <1>1, <1>2, <1>3, <1>4

(* A load of the page shows the draft of the remembered thread; it erases the *)
(* draft of the new conversation if that is not the one.                     *)
LEMMA MountForms ==
    ASSUME ComposerInv, ShapeInv, SelectionInv, ~InApp, Mount
    PROVE  /\ text' = drafts[activeThread'] /\ text' = drafts'[activeThread'] /\ text' \in Texts
           /\ drafts' \in [ThreadIds -> Texts] /\ view' = view
           /\ \A t \in ThreadIds : drafts'[t] \in {drafts[t], Empty}
           /\ \A t \in ThreadIds : Spared(t) => drafts'[t] = drafts[t]
           /\ UNCHANGED <<files, latch, pending, frame, sentCount, attached, typed>>
<1>1. activeThread' = stored /\ stored \in ThreadIds
  BY DEF Mount, LoadThread, Select, selection, SelectionInv, ShapeInv
<1>2. view' = view /\ UNCHANGED <<files, latch, pending, frame, sentCount, attached, typed>>
  BY DEF Mount
<1>3. CASE stored = NoThread
  <2>1. DraftSync(drafts, stored, Empty)
    BY <1>3 DEF Mount, DraftSyncOnMount
  <2>2. text' = drafts[stored] /\ drafts' = drafts /\ text' \in Texts
    BY <1>1, <2>1, Synced DEF ComposerInv
  <2>3. QED
    BY <1>1, <1>2, <2>2 DEF ComposerInv
<1>4. CASE stored # NoThread
  <2> DEFINE erased == [drafts EXCEPT ![NoThread] = Empty]
  <2>1. DraftSync(erased, stored, drafts[NoThread])
    BY <1>4 DEF Mount, DraftSyncOnMount
  <2>2. erased \in [ThreadIds -> Texts]
    BY EmptyText DEF ComposerInv
  <2>3. text' = erased[stored] /\ drafts' = erased /\ text' \in Texts
    BY <1>1, <2>1, <2>2, Synced
  <2>4. \A t \in ThreadIds : erased[t] = IF t = NoThread THEN Empty ELSE drafts[t]
    BY DEF ComposerInv
  <2>5. \A t \in ThreadIds : Spared(t) => t # NoThread
    BY <1>4 DEF Spared
  <2>6. QED
    BY <1>1, <1>2, <1>4, <2>2, <2>3, <2>4, <2>5
<1>5. QED
  BY <1>3, <1>4

LEMMA ClosureShape == ComposerInv => Closure \in Frames
  BY DEF ComposerInv, Closure, Frames

LEMMA CountedShape ==
    ASSUME ComposerInv, NEW w, Counted(w)
    PROVE  sentCount' \in [Words -> 0..2]
<1>1. \A v \in Words : sentCount'[v] \in 0..2
  BY DEF Counted, ComposerInv
<1>2. QED
  BY <1>1 DEF Counted, ComposerInv

LEMMA DeliverComposer ==
    ASSUME ComposerInv, NEW s, NEW c, c.text \in Texts, c.files \in Nat, Deliver(s, c)
    PROVE  /\ text' = Empty /\ files' = 0 /\ latch' \in BOOLEAN
           /\ drafts' \in [ThreadIds -> Texts] /\ frame' \in Frames
           /\ sentCount' \in [Words -> 0..2]
<1>1. CASE Passes(s)
  <2>1. Counted(s.text) /\ frame' = [lag |-> TRUE, text |-> c.text, files |-> c.files]
        /\ drafts' = [drafts EXCEPT ![s.thread] = Empty, ![activeThread] = Empty]
        /\ latch' = TRUE /\ text' = Empty /\ files' = 0
    BY <1>1 DEF Deliver, ClearInput
  <2>2. drafts' \in [ThreadIds -> Texts]
    BY <2>1, EmptyText DEF ComposerInv
  <2>3. frame' \in Frames
    BY <2>1 DEF Frames
  <2>4. QED
    BY <2>1, <2>2, <2>3, CountedShape
<1>2. CASE ~Passes(s)
  BY <1>2, EmptyText DEF Deliver, ClearInput, ComposerInv
<1>3. QED
  BY <1>1, <1>2

LEMMA SubmitShape == ShapeInv /\ ComposerInv /\ Submit => ComposerInv'
<1> SUFFICES ASSUME ShapeInv, ComposerInv, Submit PROVE ComposerInv'
  OBVIOUS
<1> DEFINE c == Closure
           s == [text |-> c.text, thread |-> activeThread, offline |-> offline, live |-> TRUE]
<1>1. c \in Frames /\ c.text \in Texts /\ c.files \in Nat
  BY ClosureShape DEF Frames
<1>2. s \in Submission
  BY <1>1 DEF Submission, ShapeInv
<1>3. CASE Deliver(s, c) /\ UNCHANGED pending
  <2> HIDE DEF c, s
  <2>1. QED
    BY <1>1, <1>3, DeliverComposer, EmptyText DEF ComposerInv
<1>4. CASE /\ pending' = Append(pending, s)
           /\ UNCHANGED <<clientVars, text, files, drafts, latch, frame, sentCount>>
  <2> HIDE DEF c, s
  <2>1. pending' \in Seq(Submission)
    BY <1>2, <1>4, Appended DEF ComposerInv
  <2>2. QED
    BY <1>4, <2>1 DEF ComposerInv
<1>5. QED
  BY <1>3, <1>4 DEF Submit

LEMMA ConversionShape ==
    ASSUME ShapeInv, ComposerInv, NEW i \in DOMAIN pending,
           ConversionEnds(i) \/ ConversionDropped(i)
    PROVE  ComposerInv'
<1>1. pending' \in Seq(Submission)
  BY RestOf DEF ConversionEnds, ConversionDropped, Converted, ComposerInv
<1>2. CASE ConversionDropped(i)
  BY <1>1, <1>2 DEF ConversionDropped, ComposerInv
<1>3. CASE ConversionEnds(i) /\ pending[i].live
  <2> DEFINE c == [text |-> text, files |-> files]
  <2>1. Deliver(pending[i], c)
    BY <1>3 DEF ConversionEnds
  <2>2. c.text \in Texts /\ c.files \in Nat
    BY DEF ComposerInv
  <2> HIDE DEF c
  <2>3. QED
    BY <1>1, <2>1, <2>2, DeliverComposer, EmptyText DEF ComposerInv
<1>4. CASE ConversionEnds(i) /\ ~pending[i].live
  <2>1. Counted(pending[i].text) /\ drafts' = [drafts EXCEPT ![pending[i].thread] = Empty]
        /\ UNCHANGED <<text, files, latch, frame>>
    BY <1>4 DEF ConversionEnds
  <2>2. drafts' \in [ThreadIds -> Texts]
    BY <2>1, EmptyText DEF ComposerInv
  <2>3. QED
    BY <1>1, <2>1, <2>2, CountedShape DEF ComposerInv
<1>5. QED
  BY <1>2, <1>3, <1>4

LEMMA WriteComposer == ShapeInv /\ ComposerInv /\ Write => ComposerInv'
<1> SUFFICES ASSUME ShapeInv, ComposerInv, Write PROVE ComposerInv'
  OBVIOUS
<1>1. ASSUME NEW w \in Words, Type(w) PROVE ComposerInv'
  BY <1>1 DEF Type, ComposerInv, Texts
<1>2. CASE DropFile
  BY <1>2 DEF DropFile, AddFile, ComposerInv
<1>3. CASE RemoveFile
  BY <1>3 DEF RemoveFile, DropLastFile, ComposerInv
<1>4. CASE Render \/ Unlatch
  BY <1>4, NoFrameShape DEF Render, Unlatch, ComposerInv
<1>5. QED
  BY <1>1, <1>2, <1>3, <1>4, SubmitShape, ConversionShape DEF Write

LEMMA FollowShape == ComposerInv /\ FollowForm => ComposerInv'
<1> SUFFICES ASSUME ComposerInv, FollowForm PROVE ComposerInv'
  OBVIOUS
<1>1. CASE Unmount
  BY <1>1, OrphanedShape, NoFrameShape, EmptyText DEF Unmount, ClearInput, ComposerInv
<1>2. CASE UNCHANGED composerVars
  BY <1>2 DEF composerVars, ComposerInv
<1>3. CASE text' \in Texts /\ UNCHANGED <<files, latch, pending, frame>>
  BY <1>3 DEF FollowForm, ComposerInv
<1>4. QED
  BY <1>1, <1>2, <1>3 DEF FollowForm

LEMMA ComposerKeeps ==
    DoorInv /\ ShapeInv /\ SelectionInv /\ ComposerInv /\ [Next]_vars => ComposerInv'
<1> SUFFICES ASSUME DoorInv, ShapeInv, ShapeInv', SelectionInv, ComposerInv, PageStep
             PROVE  ComposerInv'
  BY PageMoves, ShapeKeeps
<1>1. CASE OpenDoor /\ gate' = "app" /\ Mount
  <2>1. ~InApp
    BY <1>1 DEF OpenDoor, SessionAnswer, DoorInv, InApp
  <2>2. QED
    BY <1>1, <2>1, MountForms DEF ComposerInv
<1>2. CASE gate' = gate /\ Shown
  BY <1>2, FollowForms, FollowShape DEF Shown, ShapeInv
<1>3. CASE gate' = gate /\ InApp /\ Write
  BY <1>3, WriteComposer
<1>4. CASE Reload
  BY <1>4, NoFrameShape, EmptyText, EmptySeq DEF Reload, ClearInput, ComposerInv
<1>5. CASE UNCHANGED composerVars
  BY <1>5 DEF composerVars, ComposerInv
<1>6. QED
  BY <1>1, <1>2, <1>3, <1>4, <1>5 DEF PageStep

LEMMA ComposerHolds == Spec => []ComposerInv
<1>1. Init => ComposerInv
  <2>1. <<>> \in Seq(Submission)
    BY EmptySeq
  <2>2. [w \in Words |-> 0] \in [Words -> 0..2]
    OBVIOUS
  <2>3. [t \in ThreadIds |-> Empty] \in [ThreadIds -> Texts]
    BY EmptyText
  <2>4. ASSUME ComposerInit PROVE ComposerInv
    <3>1. text \in Texts /\ files \in Nat /\ latch \in BOOLEAN /\ frame \in Frames
      BY <2>4, EmptyText, NoFrameShape DEF ComposerInit
    <3>2. drafts \in [ThreadIds -> Texts] /\ sentCount \in [Words -> 0..2]
      BY <2>2, <2>3, <2>4 DEF ComposerInit
    <3>3. pending \in Seq(Submission)
      BY <2>1, <2>4 DEF ComposerInit
    <3>4. QED
      BY <3>1, <3>2, <3>3 DEF ComposerInv
  <2>5. QED
    BY <2>4 DEF Init
<1>2. QED
  BY <1>1, ComposerKeeps, DoorHolds, ShapeHolds, SelectionHolds, PTL DEF Spec

-----------------------------------------------------------------------------
(* The drafts. *)

(* A composer that is not shown holds no text; the page opens on the chat;   *)
(* while a rendering lags behind a send, the latch is set; a submit waits for *)
(* a conversion only if something was attached to its text.                  *)
DraftInv ==
    /\ DraftMirrorsText
    /\ (InApp /\ mounted) \/ text = Empty
    /\ ~InApp => mounted
    /\ frame.lag => latch
    /\ \A i \in DOMAIN pending : pending[i].text \in attached \cup {Empty}

LEMMA DeliverForm ==
    ASSUME ComposerInv, ShapeInv, NEW s, NEW c, Deliver(s, c)
    PROVE  /\ text' = Empty /\ drafts'[activeThread] = Empty
           /\ \A t \in ThreadIds : drafts'[t] \in {drafts[t], Empty}
           /\ UNCHANGED <<selection, view>>
           /\ sentCount' = sentCount \/ (Passes(s) /\ Counted(s.text))
           /\ (frame.lag => latch) => (frame'.lag => latch')
<1>1. CASE Passes(s)
  <2>1. drafts' = [drafts EXCEPT ![s.thread] = Empty, ![activeThread] = Empty]
        /\ latch' = TRUE /\ text' = Empty /\ Send /\ Counted(s.text)
    BY <1>1 DEF Deliver, ClearInput
  <2>2. drafts'[activeThread] = Empty /\ \A t \in ThreadIds : drafts'[t] \in {drafts[t], Empty}
    BY <2>1 DEF ComposerInv, ShapeInv
  <2>3. QED
    BY <1>1, <2>1, <2>2 DEF Send, shell
<1>2. CASE ~Passes(s)
  <2>1. drafts' = [drafts EXCEPT ![activeThread] = Empty] /\ text' = Empty
        /\ UNCHANGED <<clientVars, latch, sentCount, frame>>
    BY <1>2 DEF Deliver, ClearInput
  <2>2. drafts'[activeThread] = Empty /\ \A t \in ThreadIds : drafts'[t] \in {drafts[t], Empty}
    BY <2>1 DEF ComposerInv, ShapeInv
  <2>3. QED
    BY <2>1, <2>2 DEF clientVars, shell
<1>3. QED
  BY <1>1, <1>2

LEMMA SubmitDraft ==
    ASSUME gate' = gate, InApp, ShapeInv, ComposerInv, DraftInv, Submit
    PROVE  DraftInv'
<1> DEFINE c == Closure
           s == [text |-> c.text, thread |-> activeThread, offline |-> offline, live |-> TRUE]
<1>1. c \in Frames /\ c.text \in Texts /\ c.files \in Nat /\ s.text = c.text
  BY ClosureShape DEF Frames
<1>2. s \in Submission
  BY <1>1 DEF Submission, ShapeInv
<1>3. attached \subseteq attached' /\ mounted
  BY DEF Submit, SubmitButton
<1>4. CASE Deliver(s, c) /\ UNCHANGED pending
  <2> HIDE DEF c, s
  <2>1. /\ text' = Empty /\ drafts'[activeThread] = Empty /\ UNCHANGED <<selection, view>>
        /\ frame'.lag => latch'
    BY <1>4, DeliverForm DEF DraftInv
  <2>2. QED
    BY <1>3, <1>4, <2>1 DEF DraftInv, DraftMirrorsText, selection, mounted, InApp
<1>5. CASE /\ pending' = Append(pending, s) /\ c.files # 0
           /\ UNCHANGED <<clientVars, text, files, drafts, latch, frame, sentCount>>
  <2>1. attached' = IF c.text # Empty THEN attached \cup {c.text} ELSE attached
    BY <1>1, <1>5 DEF Submit
  <2> HIDE DEF c, s
  <2>2. \A i \in DOMAIN pending' : pending'[i].text \in attached' \cup {Empty}
    BY <1>1, <1>2, <1>3, <1>5, <2>1, Appended DEF ComposerInv, DraftInv
  <2>3. DraftMirrorsText'
    BY <1>3, <1>5
       DEF DraftInv, DraftMirrorsText, clientVars, selection, shell, mounted, InApp
  <2>4. QED
    BY <1>5, <2>2, <2>3 DEF DraftInv, clientVars, shell, mounted, InApp
<1>6. QED
  BY <1>4, <1>5 DEF Submit

LEMMA ConversionDraft ==
    ASSUME gate' = gate, InApp, ShapeInv, ComposerInv, DraftInv,
           NEW i \in DOMAIN pending, ConversionEnds(i) \/ ConversionDropped(i)
    PROVE  DraftInv'
<1>1. attached' = attached
  BY DEF ConversionEnds, ConversionDropped
<1>2. \A k \in DOMAIN pending' : pending'[k].text \in attached' \cup {Empty}
  <2>1. pending' = RemoveAt(pending, i)
    BY DEF ConversionEnds, ConversionDropped, Converted
  <2>2. PICK was : Rest(pending', pending, i, was)
    BY <2>1, RestOf DEF ComposerInv
  <2>3. QED
    BY <1>1, <2>2 DEF Rest, DraftInv
<1>3. CASE ConversionDropped(i)
  BY <1>1, <1>2, <1>3 DEF ConversionDropped, DraftInv, DraftMirrorsText, clientVars, selection, shell,
                          mounted, InApp
<1>4. CASE ConversionEnds(i) /\ pending[i].live
  <2> DEFINE c == [text |-> text, files |-> files]
  <2>1. Deliver(pending[i], c)
    BY <1>4 DEF ConversionEnds
  <2> HIDE DEF c
  <2>2. /\ text' = Empty /\ drafts'[activeThread] = Empty /\ UNCHANGED <<selection, view>>
        /\ frame'.lag => latch'
    BY <2>1, DeliverForm DEF DraftInv
  <2>3. QED
    BY <1>2, <2>2 DEF DraftInv, DraftMirrorsText, selection, mounted, InApp
<1>5. CASE ConversionEnds(i) /\ ~pending[i].live
  <2>1. pending[i].text # Empty /\ UNCHANGED <<text, latch, frame>> /\ Send
    BY <1>5 DEF ConversionEnds
  <2>2. attached # {}
    BY <2>1 DEF DraftInv
  <2>3. QED
    BY <1>1, <1>2, <2>1, <2>2 DEF DraftInv, DraftMirrorsText, Send, shell, mounted, InApp
<1>6. QED
  BY <1>3, <1>4, <1>5

LEMMA WriteDraft ==
    ASSUME gate' = gate, InApp, ShapeInv, ComposerInv, DraftInv, Write
    PROVE  DraftInv'
<1>1. ASSUME NEW w \in Words, Type(w) PROVE DraftInv'
  BY <1>1 DEF Type, DraftInv, DraftMirrorsText, ComposerInv, ShapeInv, clientVars, selection, shell,
              mounted, InApp
<1>2. CASE DropFile \/ RemoveFile
  BY <1>2 DEF DropFile, RemoveFile, DraftInv, DraftMirrorsText, clientVars, selection, shell,
              mounted, InApp
<1>3. CASE Render
  BY <1>3 DEF Render, NoFrame, DraftInv, DraftMirrorsText, clientVars, selection, shell,
              mounted, InApp
<1>4. CASE Unlatch
  BY <1>4 DEF Unlatch, Rendered, DraftInv, DraftMirrorsText, clientVars, selection, shell,
              mounted, InApp
<1>5. QED
  BY <1>1, <1>2, <1>3, <1>4, SubmitDraft, ConversionDraft DEF Write

LEMMA ShownDraft ==
    ASSUME gate' = gate, InApp, ComposerInv, DraftInv, ShapeInv', FollowForm
    PROVE  DraftInv'
<1>1. CASE UNCHANGED composerVars /\ view # "chat" /\ view' # "chat"
  BY <1>1 DEF composerVars, DraftInv, DraftMirrorsText, mounted, InApp
<1>2. CASE UNCHANGED composerVars /\ activeThread' = activeThread /\ view' = view
  BY <1>2 DEF composerVars, DraftInv, DraftMirrorsText, mounted, InApp
<1>3. CASE Unmount /\ view' # "chat"
  BY <1>3, OrphanedShape DEF Unmount, ClearInput, NoFrame, ComposerInv, DraftInv, DraftMirrorsText,
                             mounted, InApp
<1>4. CASE /\ text' = drafts[activeThread'] /\ text' \in Texts /\ view' = "chat"
           /\ UNCHANGED <<files, latch, pending, frame>>
  BY <1>4 DEF FollowForm, DraftInv, DraftMirrorsText, mounted, InApp
<1>5. QED
  BY <1>1, <1>2, <1>3, <1>4 DEF FollowForm

LEMMA DraftKeeps ==
    DoorInv /\ ShapeInv /\ SelectionInv /\ ComposerInv /\ DraftInv /\ [Next]_vars => DraftInv'
<1> SUFFICES ASSUME DoorInv, ShapeInv, ShapeInv', SelectionInv, ComposerInv, DraftInv, PageStep
             PROVE  DraftInv'
  BY PageMoves, ShapeKeeps
<1>1. ASSUME OpenDoor PROVE ~InApp
  BY <1>1 DEF OpenDoor, SessionAnswer, DoorInv, InApp
<1>2. CASE OpenDoor /\ gate' = "app" /\ Mount
  BY <1>1, <1>2, MountForms DEF DraftInv, DraftMirrorsText, mounted, InApp
<1>3. CASE gate' = gate /\ Shown
  BY <1>3, FollowForms, ShownDraft DEF Shown, ShapeInv
<1>4. CASE gate' = gate /\ InApp /\ Write
  BY <1>4, WriteDraft
<1>5. CASE gate' = gate /\ UNCHANGED <<selection, feed, shell, composerVars>>
  BY <1>5 DEF composerVars, selection, shell, DraftInv, DraftMirrorsText, mounted, InApp
<1>6. CASE Reload
  BY <1>6 DEF Reload, ReloadGate, Fresh, ClearInput, NoFrame, DraftInv, DraftMirrorsText, mounted,
              InApp
<1>7. CASE gate' = gate /\ UNCHANGED <<clientVars, composerVars>>
  BY <1>7 DEF clientVars, composerVars, selection, shell, DraftInv, DraftMirrorsText, mounted, InApp
<1>8. CASE OpenDoor /\ gate' # "app" /\ UNCHANGED <<clientVars, composerVars>>
  BY <1>1, <1>8 DEF clientVars, composerVars, selection, shell, DraftInv, DraftMirrorsText, mounted,
                    InApp
<1>9. QED
  BY <1>2, <1>3, <1>4, <1>5, <1>6, <1>7, <1>8 DEF PageStep

LEMMA DraftHolds == Spec => []DraftInv
<1>1. Init => DraftInv
  BY DEF Init, ComposerInit, GateInit, NoFrame, DraftInv, DraftMirrorsText, mounted, InApp
<1>2. QED
  BY <1>1, DraftKeeps, DoorHolds, ShapeHolds, SelectionHolds, ComposerHolds, PTL DEF Spec

(* composer.tsx DraftSync: what is typed is the saved draft of the thread     *)
(* shown, whatever switches, panels, sends and reloads interleave, as long as *)
(* nothing was attached.                                                    *)
THEOREM DraftIsText == Spec => []DraftMirrorsText
<1>1. DraftInv => DraftMirrorsText
  BY DEF DraftInv
<1>2. QED
  BY <1>1, DraftHolds, PTL

(* What a composer that comes to be shown restores, by the way it comes.     *)
Restores ==
    /\ text' = Written(activeThread')
    /\ \A t \in ThreadIds : Spared(t) => drafts'[t] = Written(t)

LEMMA ShowRestores ==
    ASSUME DoorInv, ShapeInv, ShapeInv', SelectionInv, ComposerInv, DraftInv, PageStep,
           Shows, attached = {}
    PROVE  Restores
<1>1. \A t \in ThreadIds : Written(t) = drafts[t]
  BY DEF Written, Showing, DraftInv, DraftMirrorsText
<1>2. activeThread' \in ThreadIds
  BY DEF ShapeInv
<1>3. CASE OpenDoor /\ gate' = "app" /\ Mount
  <2>1. ~InApp
    BY <1>3 DEF OpenDoor, SessionAnswer, DoorInv, InApp
  <2>2. QED
    BY <1>1, <1>2, <1>3, <2>1, MountForms DEF Restores
<1>4. CASE gate' = gate /\ Shown
  <2>1. FollowForm
    BY <1>2, <1>4, FollowForms DEF Shown
  <2>2. drafts' = drafts /\ text' = drafts[activeThread']
    BY <1>4, <2>1 DEF FollowForm, Shows, Showing, mounted, InApp, Unmount, composerVars
  <2>3. QED
    BY <1>1, <1>2, <2>2 DEF Restores
<1>5. ASSUME gate' = gate, UNCHANGED <<selection, shell>>
      PROVE  FALSE
  BY <1>5 DEF selection, shell, Shows, Showing, mounted, InApp
<1>6. CASE gate' = gate /\ Write
  BY <1>5, <1>6, WriteShape
<1>7. ASSUME gate' # "app" PROVE FALSE
  BY <1>7 DEF Shows, Showing, InApp
<1>8. CASE Reload
  BY <1>7, <1>8 DEF Reload, ReloadGate
<1>9. QED
  BY <1>3, <1>4, <1>5, <1>6, <1>7, <1>8 DEF PageStep, clientVars

(* composer.tsx DraftSync: whenever the composer comes to show a thread, by a *)
(* switch, back from a panel or at a load of the page, it restores what was   *)
(* last typed there and spares the draft of every other thread, but for the   *)
(* new conversation's when a load selects a remembered thread.               *)
THEOREM SwitchKeepsDrafts == Spec => DraftSurvivesSwitch
<1>1. DoorInv /\ ShapeInv /\ SelectionInv /\ ComposerInv /\ DraftInv /\ [Next]_vars
        => [Shows /\ attached = {} => Restores]_vars
  BY PageMoves, ShapeKeeps, ShowRestores
<1>2. QED
  BY <1>1, DoorHolds, ShapeHolds, SelectionHolds, ComposerHolds, DraftHolds, PTL
     DEF Spec, DraftSurvivesSwitch, Restores

-----------------------------------------------------------------------------
(* One send for a message without files. *)

Gone(w) == text # w /\ \A t \in ThreadIds : drafts[t] # w

(* A word is in at most one draft, the one of the thread shown once it is the *)
(* text; it is nowhere before it is typed and after it is sent.               *)
WordInv(w) ==
    /\ \A t, u \in ThreadIds : drafts[t] = w /\ drafts[u] = w => t = u
    /\ text = w => \A t \in ThreadIds : drafts[t] = w => t = activeThread
    /\ sentCount[w] # 0 => Gone(w) /\ w \in typed
    /\ w \notin typed => Gone(w)
    /\ sentCount[w] <= 1

WordsInv == \A w \in Words \ attached : WordInv(w)

LEMMA WordKept ==
    ASSUME NEW w, WordInv(w), typed \subseteq typed', UNCHANGED <<text, drafts, activeThread>>,
           sentCount'[w] = sentCount[w]
    PROVE  WordInv(w)'
  BY DEF WordInv, Gone

LEMMA DeliverWord ==
    ASSUME ShapeInv, ComposerInv, NEW s, NEW c, Deliver(s, c), UNCHANGED typed,
           NEW w \in Words, WordInv(w), s.text = w /\ ~latch => text = w
    PROVE  WordInv(w)'
<1>1. /\ text' = Empty /\ drafts'[activeThread] = Empty /\ activeThread' = activeThread
      /\ \A t \in ThreadIds : drafts'[t] \in {drafts[t], Empty}
      /\ sentCount' = sentCount \/ (Passes(s) /\ Counted(s.text))
  BY DeliverForm DEF selection
<1>2. w # Empty
  BY WordsAssumption
<1>3. CASE sentCount'[w] = sentCount[w]
  BY <1>1, <1>2, <1>3 DEF WordInv, Gone
<1>4. CASE sentCount'[w] # sentCount[w]
  <2>1. Passes(s) /\ Counted(s.text) /\ s.text = w
    BY <1>1, <1>4 DEF Counted, ComposerInv
  <2>2. text = w /\ sentCount[w] = 0 /\ w \in typed
    BY <2>1 DEF Passes, WordInv, Gone
  <2>3. sentCount'[w] = 1
    BY <2>1, <2>2 DEF Counted, ComposerInv
  <2>4. \A t \in ThreadIds : drafts'[t] # w
    BY <1>1, <1>2, <2>2 DEF WordInv
  <2>5. QED
    BY <1>1, <1>2, <2>2, <2>3, <2>4 DEF WordInv, Gone
<1>5. QED
  BY <1>3, <1>4

LEMMA WriteWords ==
    ASSUME ShapeInv, ComposerInv, DraftInv, WordsInv, Write
    PROVE  WordsInv'
<1> SUFFICES ASSUME NEW w \in Words, w \notin attached' PROVE WordInv(w)'
  BY DEF WordsInv
<1>1. attached \subseteq attached'
  BY DEF Write, Type, DropFile, RemoveFile, Submit, Render, Unlatch, ConversionEnds, ConversionDropped
<1>2. WordInv(w) /\ w # Empty
  BY <1>1, WordsAssumption DEF WordsInv
<1>3. ASSUME NEW v \in Words, Type(v) PROVE WordInv(w)'
  <2>1. /\ v \notin typed /\ text' = v /\ drafts' = [drafts EXCEPT ![activeThread] = v]
        /\ typed' = typed \cup {v} /\ UNCHANGED <<activeThread, sentCount>>
    BY <1>3 DEF Type, clientVars, selection
  <2>2. CASE v = w
    BY <1>2, <2>1, <2>2 DEF WordInv, Gone, ComposerInv, ShapeInv
  <2>3. CASE v # w
    BY <1>2, <2>1, <2>3 DEF WordInv, Gone, ComposerInv, ShapeInv
  <2>4. QED
    BY <2>2, <2>3
<1>4. CASE DropFile \/ RemoveFile \/ Render \/ Unlatch
  BY <1>2, <1>4, WordKept DEF DropFile, RemoveFile, Render, Unlatch, clientVars, selection
<1>5. CASE Submit
  <2> DEFINE c == Closure
             s == [text |-> c.text, thread |-> activeThread, offline |-> offline, live |-> TRUE]
  <2>1. CASE Deliver(s, c)
    <3>1. s.text = w /\ ~latch => text = w
      BY DEF Closure, DraftInv
    <3>2. UNCHANGED typed
      BY <1>5 DEF Submit
    <3> HIDE DEF c, s
    <3>3. QED
      BY <1>2, <2>1, <3>1, <3>2, DeliverWord
  <2>2. CASE UNCHANGED <<clientVars, text, files, drafts, latch, frame, sentCount>>
    <3>1. UNCHANGED <<text, drafts, activeThread, sentCount, typed>>
      BY <1>5, <2>2 DEF Submit, clientVars, selection
    <3>2. QED
      BY <1>2, <3>1, WordKept
  <2>3. QED
    BY <1>5, <2>1, <2>2 DEF Submit
<1>6. ASSUME NEW i \in DOMAIN pending, ConversionEnds(i) PROVE WordInv(w)'
  <2>1. attached' = attached /\ typed' = typed
    BY <1>6 DEF ConversionEnds
  <2>2. pending[i].text # w
    BY <1>2, <2>1 DEF DraftInv
  <2>3. CASE pending[i].live
    <3> DEFINE c == [text |-> text, files |-> files]
    <3>1. Deliver(pending[i], c)
      BY <1>6, <2>3 DEF ConversionEnds
    <3> HIDE DEF c
    <3>2. QED
      BY <1>2, <2>1, <2>2, <3>1, DeliverWord
  <2>4. CASE ~pending[i].live
    <3>1. /\ Send /\ Counted(pending[i].text) /\ UNCHANGED text
          /\ drafts' = [drafts EXCEPT ![pending[i].thread] = Empty]
      BY <1>6, <2>4 DEF ConversionEnds
    <3>2. sentCount'[w] = sentCount[w] /\ activeThread' = activeThread
      BY <2>2, <3>1 DEF Counted, ComposerInv, Send, selection
    <3>3. \A t \in ThreadIds : drafts'[t] \in {drafts[t], Empty}
      BY <3>1 DEF ComposerInv
    <3>4. QED
      BY <1>2, <2>1, <3>1, <3>2, <3>3 DEF WordInv, Gone
  <2>5. QED
    BY <2>3, <2>4
<1>7. ASSUME NEW i \in DOMAIN pending, ConversionDropped(i) PROVE WordInv(w)'
  BY <1>2, <1>7, WordKept DEF ConversionDropped, clientVars, selection
<1>8. QED
  BY <1>3, <1>4, <1>5, <1>6, <1>7 DEF Write

(* The text comes to be the draft of the thread shown, and nothing is sent; a *)
(* draft may be erased.                                                      *)
LEMMA RestoredWord ==
    ASSUME NEW w \in Words, WordInv(w), activeThread' \in ThreadIds, text' = drafts[activeThread'],
           \A t \in ThreadIds : drafts'[t] \in {drafts[t], Empty},
           UNCHANGED <<sentCount, typed>>
    PROVE  WordInv(w)'
<1>1. w # Empty
  BY WordsAssumption
<1>2. QED
  BY <1>1 DEF WordInv, Gone

(* The text is gone. *)
LEMMA ClearedWord ==
    ASSUME NEW w, WordInv(w), text' # w, UNCHANGED <<drafts, sentCount, typed>>
    PROVE  WordInv(w)'
  BY DEF WordInv, Gone

LEMMA WordsKeep ==
    DoorInv /\ ShapeInv /\ SelectionInv /\ ComposerInv /\ DraftInv /\ WordsInv /\ [Next]_vars
        => WordsInv'
<1> SUFFICES ASSUME DoorInv, ShapeInv, ShapeInv', SelectionInv, ComposerInv, DraftInv, WordsInv,
                    PageStep
             PROVE  WordsInv'
  BY PageMoves, ShapeKeeps
<1>0. ASSUME attached' = attached,
             \A w \in Words : WordInv(w) => WordInv(w)'
      PROVE  WordsInv'
  BY <1>0 DEF WordsInv
<1>1. CASE OpenDoor /\ gate' = "app" /\ Mount
  <2>1. ~InApp
    BY <1>1 DEF OpenDoor, SessionAnswer, DoorInv, InApp
  <2>2. /\ text' = drafts[activeThread'] /\ activeThread' \in ThreadIds
        /\ \A t \in ThreadIds : drafts'[t] \in {drafts[t], Empty}
        /\ UNCHANGED <<sentCount, typed, attached>>
    BY <1>1, <2>1, MountForms DEF ShapeInv
  <2>3. QED
    BY <1>0, <2>2, RestoredWord
<1>2. CASE gate' = gate /\ Shown
  <2>1. FollowForm /\ activeThread' \in ThreadIds
    BY <1>2, FollowForms DEF Shown, ShapeInv
  <2>2. UNCHANGED <<drafts, sentCount, attached, typed>>
    BY <2>1 DEF FollowForm
  <2>3. CASE text' = Empty
    BY <1>0, <2>2, <2>3, ClearedWord, WordsAssumption
  <2>4. CASE UNCHANGED text /\ activeThread' = activeThread
    BY <1>0, <2>2, <2>4, WordKept
  <2>5. CASE text' = drafts[activeThread']
    BY <1>0, <2>1, <2>2, <2>5, RestoredWord
  <2>6. QED
    BY <2>1, <2>3, <2>4, <2>5 DEF FollowForm, composerVars, Unmount, ClearInput, DraftInv, mounted
<1>3. CASE Write
  BY <1>3, WriteWords
<1>4. CASE Reload
  BY <1>0, <1>4, ClearedWord, WordsAssumption DEF Reload, ClearInput
<1>5. CASE UNCHANGED <<selection, composerVars>>
  BY <1>0, <1>5, WordKept DEF selection, composerVars
<1>6. QED
  BY <1>1, <1>2, <1>3, <1>4, <1>5 DEF PageStep, clientVars

LEMMA WordsHold == Spec => []WordsInv
<1>1. Init => WordsInv
  BY WordsAssumption DEF Init, ComposerInit, WordsInv, WordInv, Gone
<1>2. QED
  BY <1>1, WordsKeep, DoorHolds, ShapeHolds, SelectionHolds, ComposerHolds, DraftHolds, PTL DEF Spec

(* composer.tsx handleSubmit: a message without files is posted at most once, *)
(* however often Enter is pressed, the thread is switched or the page reloaded. *)
THEOREM PlainIsSentOnce == Spec => []PlainSentOnce
<1>1. WordsInv => PlainSentOnce
  BY DEF WordsInv, WordInv, PlainSentOnce
<1>2. QED
  BY <1>1, WordsHold, PTL

-----------------------------------------------------------------------------
(* The transcript. *)

(* The shape of the feed; a free slot holds no turn. *)
FeedShape ==
    /\ messages \in Seq(Entry)
    /\ loads \subseteq [kind : {"messages", "context"}, thread : Threads]
    /\ \A i \in FreeSlots : turn[i] = NoTurn

(* The transcript under way is the selected thread's, the entries are its     *)
(* own, and the open turn, the one that Stop ends, is on it or names it.       *)
LoadsFit == \A q \in loads : q.kind = "messages" => q.thread = threadRef
EntriesFit ==
    ~LoadingMessages => \A i \in DOMAIN messages : messages[i].from \in {threadRef, Live}
TurnFits(i) ==
    /\ turn[i].phase = "posted" => turn[i].thread = threadRef
    /\ turn[i].queue = <<"thread.started">> =>
            turn[i].thread = threadRef \/ threadRef = NoThread
TurnsFit == \A i \in OpenTurns : working /\ abortOf = i /\ TurnFits(i)

FeedInv == FeedShape /\ (patient => LoadsFit /\ EntriesFit /\ TurnsFit)

LEMMA NoTurnIsFree == NoTurn.phase = "free" /\ NoTurn.queue = <<>>
  BY DEF NoTurn

LEMMA OneEntry ==
    ASSUME NEW e \in Entry
    PROVE  <<e>> \in Seq(Entry) /\ DOMAIN <<e>> = {1} /\ <<e>>[1] = e
  OBVIOUS

(* Patching the last entry leaves where the entries come from. *)
LEMMA Patched ==
    ASSUME messages \in Seq(Entry),
           NEW change \in {WithToolRunning, WithToolDone, WithError}, UpdateLast(change)
    PROVE  /\ messages' \in Seq(Entry) /\ DOMAIN messages' = DOMAIN messages
           /\ \A i \in DOMAIN messages : messages'[i].from = messages[i].from
<1>1. DOMAIN messages = 1..Len(messages) /\ Len(messages) \in Nat
      /\ messages \in [1..Len(messages) -> Entry]
  BY LenProperties
<1>2. \A m \in Entry : change[m] \in Entry /\ change[m].from = m.from
  <2>1. CASE change = WithToolRunning
    BY <2>1 DEF WithToolRunning, Entry
  <2>2. CASE change = WithToolDone
    BY <2>2 DEF WithToolDone, Entry
  <2>3. CASE change = WithError
    BY <2>3 DEF WithError, Entry
  <2>4. QED
    BY <2>1, <2>2, <2>3
<1>3. CASE messages = <<>>
  BY <1>3 DEF UpdateLast
<1>4. CASE messages # <<>>
  <2>1. messages' = [messages EXCEPT ![Len(messages)] = change[messages[Len(messages)]]]
    BY <1>1, <1>4 DEF UpdateLast
  <2>2. Len(messages) \in 1..Len(messages)
    BY <1>1, <1>4, EmptySeq
  <2>3. messages' \in [1..Len(messages) -> Entry]
        /\ \A i \in DOMAIN messages : messages'[i].from = messages[i].from
    BY <1>1, <1>2, <2>1, <2>2
  <2>4. QED
    BY <1>1, <2>3, IsASeq
<1>5. QED
  BY <1>3, <1>4

LEMMA SentFeed == ShapeInv /\ FeedInv /\ Send => FeedInv'
<1> SUFFICES ASSUME ShapeInv, FeedInv, Send PROVE FeedInv'
  OBVIOUS
<1>1. (CHOOSE s \in FreeSlots : \A o \in FreeSlots : s <= o) \in FreeSlots
  BY LeastSlot DEF Send, CanSend
<1>2. PICK n \in FreeSlots :
        /\ turn' = [turn EXCEPT ![n].phase = "posted", ![n].thread = threadRef]
        /\ abortOf' = n
  BY <1>1 DEF Send
<1>3. /\ n \in Slots /\ turn'[n].phase = "posted" /\ turn'[n].thread = threadRef
      /\ turn'[n].queue = <<>>
      /\ \A i \in Slots : i # n => turn'[i] = turn[i]
  <2>1. n \in Slots /\ turn[n] = NoTurn /\ turn[n] \in TurnRecord
    BY DEF FeedInv, FeedShape, FreeSlots, ShapeInv
  <2>2. turn' = [turn EXCEPT ![n] = [turn[n] EXCEPT !.phase = "posted", !.thread = threadRef]]
    BY <1>2, <2>1 DEF ShapeInv
  <2>3. QED
    BY <2>1, <2>2 DEF NoTurn, ShapeInv
<1>4. messages' \in Seq(Entry)
      /\ \A i \in DOMAIN messages' :
            messages'[i].from = Live \/ (i \in DOMAIN messages /\ messages'[i] = messages[i])
  <2>1. Exchange \in Entry /\ Exchange.from = Live /\ messages \in Seq(Entry)
    BY DEF Exchange, Entry, FeedInv, FeedShape
  <2>2. messages' = Append(messages, Exchange)
    BY DEF Send
  <2>3. QED
    BY <2>1, <2>2, Appended
<1>5. UNCHANGED <<loads, threadRef>> /\ working'
      /\ (patient' => patient /\ OpenTurns = {})
  BY DEF Send, selection, working
<1>6. \A i \in FreeSlots' : turn'[i] = NoTurn
  BY <1>3 DEF FeedInv, FeedShape, FreeSlots, OpenTurns
<1>7. ASSUME patient' PROVE LoadsFit' /\ EntriesFit' /\ TurnsFit'
  <2>1. LoadsFit'
    BY <1>5, <1>7 DEF FeedInv, LoadsFit
  <2>2. EntriesFit'
    BY <1>4, <1>5, <1>7 DEF FeedInv, EntriesFit, LoadingMessages
  <2>3. \A i \in OpenTurns' : i = n
    BY <1>3, <1>5, <1>7 DEF OpenTurns
  <2>4. TurnFits(n)'
    BY <1>3, <1>5 DEF TurnFits
  <2>5. QED
    BY <1>2, <1>5, <2>1, <2>2, <2>3, <2>4 DEF TurnsFit
<1>8. QED
  BY <1>4, <1>5, <1>6, <1>7 DEF FeedInv, FeedShape

LEMMA SettledFeed ==
    ASSUME ShapeInv, FeedInv, NEW i, Settle(i), patient => OpenTurns \subseteq {i},
           \/ messages' = messages
           \/ UpdateLast(WithError)
    PROVE  FeedInv'
<1>1. /\ messages' \in Seq(Entry) /\ DOMAIN messages' = DOMAIN messages
      /\ \A k \in DOMAIN messages : messages'[k].from = messages[k].from
  BY Patched DEF FeedInv, FeedShape
<1>2. turn' = [turn EXCEPT ![i] = NoTurn] /\ UNCHANGED <<loads, threadRef, patient>>
  BY DEF Settle, selection
<1>3. \A k \in FreeSlots' : turn'[k] = NoTurn
  BY <1>2 DEF FeedInv, FeedShape, FreeSlots, OpenTurns, ShapeInv
<1>4. OpenTurns' \subseteq OpenTurns \ {i}
  BY <1>2, NoTurnIsFree DEF OpenTurns, ShapeInv
<1>5. ASSUME patient' PROVE LoadsFit' /\ EntriesFit' /\ TurnsFit'
  BY <1>1, <1>2, <1>4, <1>5 DEF FeedInv, LoadsFit, EntriesFit, TurnsFit, LoadingMessages
<1>6. QED
  BY <1>1, <1>2, <1>3, <1>5 DEF FeedInv, FeedShape

(* Nothing of the feed, of the selection or of the turns changes. *)
LEMMA FeedKept ==
    ASSUME FeedInv, turn' = turn, UNCHANGED <<selection, feed>>
    PROVE  FeedInv'
  BY DEF FeedInv, FeedShape, LoadsFit, EntriesFit, TurnsFit, TurnFits, OpenTurns, FreeSlots, working,
         LoadingMessages, selection, feed

LEMMA ClearedFeed ==
    ASSUME FeedInv, ClearConversation, turn' = turn, UNCHANGED loads
    PROVE  FeedInv'
<1>1. messages' = <<>> /\ messages' \in Seq(Entry) /\ DOMAIN messages' = {}
  BY EmptySeq DEF ClearConversation
<1>2. patient' => ~LoadingMessages' /\ OpenTurns' = {}
  BY DEF ClearConversation, LoadingMessages, OpenTurns
<1>3. patient' => LoadsFit' /\ EntriesFit' /\ TurnsFit'
  BY <1>1, <1>2 DEF LoadsFit, EntriesFit, TurnsFit, LoadingMessages
<1>4. QED
  BY <1>1, <1>3 DEF FeedInv, FeedShape, FreeSlots, OpenTurns

LEMMA LoadedFeed ==
    ASSUME FeedInv, NEW t \in Threads, LoadThread(t), turn' = turn,
           patient => OpenTurns = {}
    PROVE  FeedInv'
<1>1. /\ threadRef' = t /\ UNCHANGED messages
      /\ loads' = loads \cup {[kind |-> "messages", thread |-> t]}
      /\ patient' => patient /\ ~LoadingMessages
  BY DEF LoadThread, Select
<1>2. loads' \subseteq [kind : {"messages", "context"}, thread : Threads]
  BY <1>1 DEF FeedInv, FeedShape
<1>3. LoadingMessages' /\ (patient' => LoadsFit')
  <2> DEFINE asked == [kind |-> "messages", thread |-> t]
  <2>1. asked \in loads' /\ asked.kind = "messages" /\ asked.thread = t
    BY <1>1
  <2>2. \A q \in loads' : q \in loads \/ q.thread = t
    BY <1>1
  <2>3. QED
    BY <1>1, <2>1, <2>2 DEF LoadingMessages, LoadsFit
<1>4. patient' => OpenTurns' = {}
  BY <1>1 DEF OpenTurns
<1>5. patient' => LoadsFit' /\ EntriesFit' /\ TurnsFit'
  BY <1>3, <1>4 DEF EntriesFit, TurnsFit
<1>6. QED
  BY <1>1, <1>2, <1>5 DEF FeedInv, FeedShape, FreeSlots, OpenTurns

LEMMA ClickFeed == ShapeInv /\ FeedInv /\ Click => FeedInv'
<1> SUFFICES ASSUME ShapeInv, FeedInv, Click PROVE FeedInv'
  OBVIOUS
<1>1. CASE Stop
  <2>1. Settle(abortOf) /\ UpdateLast(WithError)
    BY <1>1 DEF Stop
  <2>2. patient => OpenTurns \subseteq {abortOf}
    BY DEF FeedInv, TurnsFit
  <2>3. QED
    BY <2>1, <2>2, SettledFeed
<1>2. CASE Suggest \/ Retry
  BY <1>2, SentFeed DEF Suggest, Retry, Resend
<1>3. CASE StartNew
  <2>1. CASE UNCHANGED <<selection, feed>>
    BY <1>3, <2>1, FeedKept DEF StartNew, serverVars
  <2>2. CASE ClearConversation /\ UNCHANGED loads
    BY <1>3, <2>2, ClearedFeed DEF StartNew, serverVars
  <2>3. QED
    BY <1>3, <2>1, <2>2 DEF StartNew
<1>4. ASSUME NEW t \in Threads, SelectThread(t) PROVE FeedInv'
  <2>1. CASE UNCHANGED <<selection, feed>>
    BY <1>4, <2>1, FeedKept DEF SelectThread, serverVars
  <2>2. CASE ~working /\ LoadThread(t)
    BY <1>4, <2>2, LoadedFeed DEF SelectThread, serverVars, FeedInv, TurnsFit
  <2>3. QED
    BY <1>4, <2>1, <2>2 DEF SelectThread
<1>5. CASE OpenArchived \/ \E to \in {"chat", "panel"} : SelectView(to)
  BY <1>5, FeedKept DEF OpenArchived, SelectView, serverVars
<1>6. ASSUME NEW t \in Threads, Rename(t) \/ ArchiveAsked(t) \/ RestoreThread(t) PROVE FeedInv'
  BY <1>6, FeedKept DEF Rename, ArchiveAsked, archiveThread, RestoreThread, serverVars
<1>7. QED
  BY <1>1, <1>2, <1>3, <1>4, <1>5, <1>6 DEF Click, Sidebar, Palette, Topbar, ThreadRow

LEMMA DeliveredFeed ==
    ASSUME ShapeInv, FeedInv, NEW t \in Threads, DeliverMessages(t)
    PROVE  FeedInv'
<1>1. PICK q \in loads :
        /\ q = [kind |-> "messages", thread |-> t]
        /\ loads' = (loads \ {q}) \cup {[kind |-> "context", thread |-> t]}
  BY DEF DeliverMessages
<1>2. /\ messages' = Transcript(t) /\ turn' = turn
      /\ UNCHANGED <<threadRef, status, abortOf>>
      /\ patient' => patient \/ (/\ t = threadRef /\ OpenTurns = {}
                                 /\ \A p \in loads : p.kind = "messages" => p.thread = t)
  BY DEF DeliverMessages, serverVars, selection
<1>3. messages' \in Seq(Entry) /\ \A i \in DOMAIN messages' : messages'[i].from = t
  <2>1. [from |-> t, tool |-> "done", error |-> FALSE] \in Entry
    BY DEF Entry
  <2>2. QED
    BY <1>2, <2>1, OneEntry DEF Transcript
<1>4. loads' \subseteq [kind : {"messages", "context"}, thread : Threads]
  BY <1>1 DEF FeedInv, FeedShape
<1>5. \A p \in loads' : p.kind = "messages" => p \in loads
  BY <1>1
<1>6. ASSUME patient' PROVE LoadsFit' /\ EntriesFit' /\ TurnsFit'
  <2>1. t = threadRef /\ LoadsFit /\ TurnsFit
    BY <1>1, <1>2, <1>6 DEF FeedInv, LoadsFit, TurnsFit
  <2>2. LoadsFit' /\ EntriesFit'
    BY <1>2, <1>3, <1>5, <2>1 DEF LoadsFit, EntriesFit
  <2>3. TurnsFit'
    BY <1>2, <2>1 DEF TurnsFit, TurnFits, OpenTurns, working
  <2>4. QED
    BY <2>2, <2>3
<1>7. QED
  BY <1>2, <1>3, <1>4, <1>6 DEF FeedInv, FeedShape, FreeSlots, OpenTurns

(* Requests other than a transcript under way end. *)
LEMMA FewerLoads ==
    ASSUME FeedInv, UNCHANGED <<turn, threadRef, messages, status, abortOf, patient>>,
           loads' \subseteq loads,
           \A q \in loads : q.kind = "messages" => q \in loads'
    PROVE  FeedInv'
<1>1. LoadingMessages' = LoadingMessages
  BY DEF LoadingMessages
<1>2. QED
  BY <1>1 DEF FeedInv, FeedShape, LoadsFit, EntriesFit, TurnsFit, TurnFits, OpenTurns, FreeSlots,
              working

LEMMA LostFeed == FeedInv /\ LoseLoad => FeedInv'
<1> SUFFICES ASSUME FeedInv, LoseLoad PROVE FeedInv'
  OBVIOUS
<1>1. PICK q \in loads : loads' = loads \ {q} /\ patient' = (patient /\ q.kind # "messages")
  BY DEF LoseLoad
<1>2. UNCHANGED <<turn, threadRef, messages, status, abortOf>>
  BY DEF LoseLoad, serverVars, selection
<1>3. CASE q.kind = "messages"
  BY <1>1, <1>2, <1>3 DEF FeedInv, FeedShape, FreeSlots, OpenTurns
<1>4. CASE q.kind # "messages" /\ patient
  BY <1>1, <1>2, <1>4, FewerLoads
<1>5. CASE ~patient
  BY <1>1, <1>2, <1>5 DEF FeedInv, FeedShape, FreeSlots, OpenTurns
<1>6. QED
  BY <1>3, <1>4, <1>5

LEMMA ReadFeed ==
    ASSUME ShapeInv, FeedInv, NEW i \in Slots, ReadEvent(i)
    PROVE  FeedInv'
<1>1. /\ turn' = [turn EXCEPT ![i].queue = <<>>] /\ turn[i].queue # <<>>
      /\ UNCHANGED <<status, loads, abortOf, patient>>
  BY DEF ReadEvent, ConsumeFrame
<1>2. /\ messages' \in Seq(Entry) /\ DOMAIN messages' = DOMAIN messages
      /\ \A k \in DOMAIN messages : messages'[k].from = messages[k].from
  <2>1. messages' = messages \/ \E change \in {WithToolRunning, WithToolDone, WithError} :
                                    UpdateLast(change)
    BY DEF ReadEvent
  <2>2. QED
    BY <2>1, Patched DEF FeedInv, FeedShape
<1>3. /\ \A k \in Slots : k # i => turn'[k] = turn[k]
      /\ turn'[i].phase = turn[i].phase /\ turn'[i].thread = turn[i].thread
      /\ turn'[i].queue = <<>>
  BY <1>1 DEF ShapeInv, TurnRecord
<1>4. i \in OpenTurns /\ OpenTurns' = OpenTurns
  <2>1. i \in OpenTurns
    BY <1>1, NoTurnIsFree DEF FeedInv, FeedShape, FreeSlots
  <2>2. QED
    BY <1>3, <2>1 DEF OpenTurns
<1>5. \A k \in FreeSlots' : turn'[k] = NoTurn
  BY <1>3, <1>4 DEF FeedInv, FeedShape, FreeSlots
<1>6. ASSUME patient' PROVE LoadsFit' /\ EntriesFit' /\ TurnsFit'
  <2>1. LoadsFit /\ EntriesFit /\ TurnsFit
    BY <1>1, <1>6 DEF FeedInv
  <2>2. OpenTurns' = {i} /\ working' /\ abortOf' = i
    BY <1>1, <1>4, <2>1 DEF TurnsFit, working
  <2>3. TurnFits(i)
    BY <1>4, <2>1 DEF TurnsFit
  <2>4. threadRef' = threadRef \/ (threadRef' = turn[i].thread /\ threadRef = NoThread)
    <3>1. CASE UNCHANGED selection
      BY <3>1 DEF selection
    <3>2. CASE Head(turn[i].queue) = "thread.started" /\ Select(turn[i].thread)
      <4>1. turn[i].queue = <<"thread.started">>
        BY <1>1, <3>2 DEF ShapeInv, TurnRecord, Replies
      <4>2. QED
        BY <2>3, <3>2, <4>1 DEF TurnFits, Select
    <3>3. QED
      BY <3>1, <3>2 DEF ReadEvent
  <2>5. TurnFits(i)'
    BY <1>3, <2>3, <2>4 DEF TurnFits
  <2>6. threadRef = NoThread => ~LoadingMessages
    BY <2>1, ThreadsAssumption DEF LoadsFit, LoadingMessages, FeedInv, FeedShape
  <2>7. LoadsFit'
    BY <1>1, <2>1, <2>4, <2>6 DEF LoadsFit, LoadingMessages
  <2>8. EntriesFit'
    <3>1. \A k \in DOMAIN messages : messages[k] \in Entry
      BY ElementOfSeq, LenProperties DEF FeedInv, FeedShape
    <3>2. CASE threadRef' = threadRef
      BY <1>1, <1>2, <2>1, <3>2 DEF EntriesFit, LoadingMessages
    <3>3. CASE threadRef = NoThread
      <4>1. \A k \in DOMAIN messages : messages[k].from = Live
        BY <2>1, <2>6, <3>1, <3>3, ThreadsAssumption DEF EntriesFit, Entry
      <4>2. QED
        BY <1>2, <4>1 DEF EntriesFit
    <3>4. QED
      BY <2>4, <3>2, <3>3
  <2>9. QED
    BY <2>2, <2>5, <2>7, <2>8 DEF TurnsFit
<1>7. QED
  BY <1>1, <1>2, <1>5, <1>6 DEF FeedInv, FeedShape

LEMMA ArrivalFeed == ShapeInv /\ FeedInv /\ Arrival => FeedInv'
<1> SUFFICES ASSUME ShapeInv, FeedInv, Arrival PROVE FeedInv'
  OBVIOUS
<1>1. CASE DeliverThreads
  BY <1>1, FeedKept DEF DeliverThreads, serverVars
<1>2. ASSUME NEW t \in Threads, DeliverContext(t) PROVE FeedInv'
  <2>1. PICK q \in loads : q = [kind |-> "context", thread |-> t] /\ loads' = loads \ {q}
    BY <1>2 DEF DeliverContext
  <2>2. q.kind # "messages"
    BY <2>1
  <2>3. QED
    BY <1>2, <2>1, <2>2, FewerLoads DEF DeliverContext, serverVars, selection
<1>3. ASSUME NEW t \in Threads, ArchiveAnswered(t) PROVE FeedInv'
  <2>1. turn' = turn /\ UNCHANGED <<status, loadError, loads, abortOf>>
    BY <1>3 DEF ArchiveAnswered, serverVars
  <2>2. CASE ClearConversation
    BY <2>1, <2>2, ClearedFeed
  <2>3. CASE UNCHANGED <<selection, messages, continuity, patient>>
    BY <2>1, <2>3, FeedKept DEF feed
  <2>4. QED
    BY <1>3, <2>2, <2>3 DEF ArchiveAnswered
<1>4. ASSUME NEW t \in Threads, ArchiveLost(t) PROVE FeedInv'
  BY <1>4, FeedKept DEF ArchiveLost, serverVars
<1>5. ASSUME NEW i \in Slots, FinishRead(i) \/ BreakTurn(i) PROVE FeedInv'
  <2>1. i \in OpenTurns /\ Settle(i) /\ (messages' = messages \/ UpdateLast(WithError))
    BY <1>5 DEF FinishRead, BreakTurn, OpenTurns
  <2>2. patient => OpenTurns \subseteq {i}
    BY <2>1 DEF FeedInv, TurnsFit
  <2>3. QED
    BY <2>1, <2>2, SettledFeed
<1>6. QED
  BY <1>1, <1>2, <1>3, <1>4, <1>5, LostFeed, DeliveredFeed, ReadFeed DEF Arrival

LEMMA ServerFeed ==
    ASSUME ShapeInv, FeedInv, ServerAct, UNCHANGED <<selection, feed>>
    PROVE  FeedInv' /\ OpenTurns' = OpenTurns
<1>1. ASSUME OpenTurns' = OpenTurns,
             \A k \in FreeSlots : turn'[k] = turn[k],
             \A k \in OpenTurns : TurnFits(k) => TurnFits(k)'
      PROVE  FeedInv' /\ OpenTurns' = OpenTurns
  <2>1. \A k \in FreeSlots' : turn'[k] = NoTurn
    BY <1>1 DEF FeedInv, FeedShape, FreeSlots
  <2>2. TurnsFit => TurnsFit'
    BY <1>1 DEF TurnsFit, feed, working
  <2>3. QED
    BY <1>1, <2>1, <2>2
       DEF FeedInv, FeedShape, LoadsFit, EntriesFit, LoadingMessages, feed, selection
<1>2. threadRef' = threadRef
  BY DEF selection
<1>3. ASSUME NEW i \in Slots, AcceptTurn(i) PROVE FeedInv' /\ OpenTurns' = OpenTurns
  <2>1. PICK t \in Threads :
          /\ turn[i].thread # NoThread => t = turn[i].thread
          /\ turn' = [turn EXCEPT ![i].phase = "running", ![i].thread = t,
                                  ![i].left = MaxEvents, ![i].queue = <<"thread.started">>]
    BY <1>3 DEF AcceptTurn
  <2>2. /\ turn'[i].phase = "running" /\ turn'[i].thread = t /\ turn[i].phase = "posted"
        /\ \A k \in Slots : k # i => turn'[k] = turn[k]
    BY <1>3, <2>1 DEF AcceptTurn, ShapeInv, TurnRecord
  <2>3. OpenTurns' = OpenTurns /\ \A k \in FreeSlots : turn'[k] = turn[k]
    BY <2>2 DEF OpenTurns, FreeSlots
  <2>4. \A k \in OpenTurns : TurnFits(k) => TurnFits(k)'
    BY <1>2, <2>1, <2>2 DEF TurnFits, OpenTurns
  <2>5. QED
    BY <1>1, <2>3, <2>4
<1>4. ASSUME NEW i \in Slots, turn[i].phase = "running", turn'[i].phase \in {"running", "ended"},
             turn'[i].queue # <<"thread.started">>,
             \A k \in Slots : k # i => turn'[k] = turn[k]
      PROVE  FeedInv' /\ OpenTurns' = OpenTurns
  <2>1. OpenTurns' = OpenTurns /\ \A k \in FreeSlots : turn'[k] = turn[k]
    BY <1>4 DEF OpenTurns, FreeSlots
  <2>2. \A k \in OpenTurns : TurnFits(k) => TurnFits(k)'
    BY <1>2, <1>4 DEF TurnFits, OpenTurns
  <2>3. QED
    BY <1>1, <2>1, <2>2
<1>5. ASSUME NEW i \in Slots, EmitDelta(i) \/ EmitToolStarted(i) \/ EmitToolFinished(i)
      PROVE  FeedInv' /\ OpenTurns' = OpenTurns
  <2> DEFINE Emitted ==
               /\ turn'[i].phase = turn[i].phase /\ turn'[i].queue # <<"thread.started">>
               /\ \A k \in Slots : k # i => turn'[k] = turn[k]
  <2>1. EmitDelta(i) => Emitted
    BY DEF EmitDelta, ShapeInv, TurnRecord
  <2>2. EmitToolStarted(i) => Emitted
    BY DEF EmitToolStarted, ShapeInv, TurnRecord
  <2>3. EmitToolFinished(i) => Emitted
    BY DEF EmitToolFinished, ShapeInv, TurnRecord
  <2>4. QED
    BY <1>4, <1>5, <2>1, <2>2, <2>3 DEF EmitDelta, EmitToolStarted, EmitToolFinished, CanEmit
<1>6. ASSUME NEW i \in Slots, EndTurn(i) PROVE FeedInv' /\ OpenTurns' = OpenTurns
  <2>1. PICK last \in {"turn.done", "turn.error"} :
          turn' = [turn EXCEPT ![i].phase = "ended", ![i].queue = <<last>>,
                               ![i].left = 0, ![i].calls = 0]
    BY <1>6 DEF EndTurn
  <2>2. /\ turn'[i].phase = "ended" /\ turn'[i].queue # <<"thread.started">>
        /\ \A k \in Slots : k # i => turn'[k] = turn[k]
    BY <2>1 DEF ShapeInv, TurnRecord
  <2>3. QED
    BY <1>4, <1>6, <2>2 DEF EndTurn, CanEmit
<1>7. CASE Crash
  <2>1. \A k \in Slots :
          turn'[k] = IF turn[k].phase \in {"posted", "running"}
                     THEN [NoTurn EXCEPT !.phase = "cut"] ELSE turn[k]
    BY <1>7 DEF Crash
  <2>2. [NoTurn EXCEPT !.phase = "cut"].phase = "cut" /\ [NoTurn EXCEPT !.phase = "cut"].queue = <<>>
    BY DEF NoTurn
  <2>3. OpenTurns' = OpenTurns /\ \A k \in FreeSlots : turn'[k] = turn[k]
    BY <2>1, <2>2 DEF OpenTurns, FreeSlots
  <2>4. ASSUME NEW k \in OpenTurns, TurnFits(k) PROVE TurnFits(k)'
    <3>1. k \in Slots
      BY DEF OpenTurns
    <3>2. CASE turn'[k] = turn[k]
      BY <1>2, <2>4, <3>2 DEF TurnFits
    <3>3. CASE turn'[k] = [NoTurn EXCEPT !.phase = "cut"]
      BY <2>2, <3>3 DEF TurnFits
    <3>4. QED
      BY <2>1, <3>1, <3>2, <3>3
  <2>5. QED
    BY <1>1, <2>3, <2>4
<1>8. CASE Restart
  BY <1>8, FeedKept DEF Restart, OpenTurns
<1>9. QED
  BY <1>3, <1>5, <1>6, <1>7, <1>8 DEF ServerAct, TurnStep

LEMMA SendOrNot == Write => Send \/ UNCHANGED clientVars
  BY DEF Write, Type, DropFile, RemoveFile, Submit, Deliver, Render, Unlatch, ConversionEnds,
         ConversionDropped

(* Outside the app there is no transcript, no load and no turn. *)
Outside == messages = <<>> /\ loads = {} /\ OpenTurns = {}

HistoryInv == FeedInv /\ (~InApp => Outside)

LEMMA MountFeed ==
    ASSUME ShapeInv, SelectionInv, HistoryInv, ~InApp, Mount
    PROVE  FeedInv'
<1>1. turn' = turn
  BY DEF Mount, serverVars
<1>2. CASE stored = NoThread
  <2>1. UNCHANGED <<selection, feed>>
    BY <1>2 DEF Mount, feed
  <2>2. QED
    BY <1>1, <2>1, FeedKept DEF HistoryInv
<1>3. CASE stored # NoThread
  <2>1. stored \in Threads /\ LoadThread(stored)
    BY <1>3 DEF Mount, ShapeInv, ThreadIds
  <2>2. QED
    BY <1>1, <2>1, LoadedFeed DEF HistoryInv, Outside
<1>4. QED
  BY <1>2, <1>3

LEMMA HistoryKeeps ==
    DoorInv /\ ShapeInv /\ SelectionInv /\ HistoryInv /\ [Next]_vars => HistoryInv'
<1> SUFFICES ASSUME DoorInv, ShapeInv, SelectionInv, HistoryInv, PageStep PROVE HistoryInv'
  BY PageMoves
<1>1. ASSUME OpenDoor PROVE ~InApp
  BY <1>1 DEF OpenDoor, SessionAnswer, DoorInv, InApp
<1>2. CASE OpenDoor /\ gate' = "app" /\ Mount
  BY <1>1, <1>2, MountFeed DEF HistoryInv, InApp
<1>3. CASE gate' = gate /\ Shown
  <2>1. FeedInv'
    <3>1. CASE PollHealth
      BY <3>1, FeedKept DEF PollHealth, fetchHealth, serverVars, HistoryInv
    <3>2. QED
      BY <1>3, <3>1, ClickFeed, ArrivalFeed DEF Shown, ClientAct, HistoryInv
  <2>2. QED
    BY <1>3, <2>1 DEF Shown, HistoryInv, InApp
<1>4. CASE gate' = gate /\ InApp /\ Write
  <2>1. FeedInv'
    BY <1>4, SendOrNot, SentFeed, FeedKept DEF clientVars, serverVars, HistoryInv
  <2>2. QED
    BY <1>4, <2>1 DEF HistoryInv, InApp
<1>5. CASE gate' = gate /\ ServerAct /\ UNCHANGED <<selection, feed, shell, composerVars>>
  BY <1>5, ServerFeed DEF HistoryInv, Outside, InApp, feed
<1>6. CASE Reload
  <2>1. /\ messages' = <<>> /\ messages' \in Seq(Entry) /\ DOMAIN messages' = {} /\ loads' = {}
        /\ \A i \in Slots : turn'[i] = NoTurn
    BY <1>6, EmptySeq DEF Reload, Fresh
  <2>2. OpenTurns' = {}
    BY <2>1, NoTurnIsFree DEF OpenTurns
  <2>3. FeedInv'
    BY <2>1, <2>2 DEF FeedInv, FeedShape, FreeSlots, LoadsFit, EntriesFit, TurnsFit
  <2>4. QED
    BY <2>1, <2>2, <2>3 DEF HistoryInv, Outside
<1>7. CASE UNCHANGED <<clientVars, composerVars>> /\ (gate' = gate \/ OpenDoor)
  <2>1. FeedInv' /\ Outside' = Outside
    BY <1>7, FeedKept DEF clientVars, serverVars, HistoryInv, Outside, OpenTurns, feed
  <2>2. QED
    BY <1>1, <1>7, <2>1 DEF HistoryInv, InApp
<1>8. QED
  BY <1>2, <1>3, <1>4, <1>5, <1>6, <1>7 DEF PageStep

LEMMA HistoryHolds == Spec => []HistoryInv
<1>1. ASSUME Init PROVE HistoryInv
  <2>1. /\ messages = <<>> /\ messages \in Seq(Entry) /\ DOMAIN messages = {} /\ loads = {}
        /\ \A i \in Slots : turn[i] = NoTurn
    BY <1>1, EmptySeq DEF Init
  <2>2. OpenTurns = {}
    BY <2>1, NoTurnIsFree DEF OpenTurns
  <2>3. QED
    BY <2>1, <2>2 DEF HistoryInv, Outside, FeedInv, FeedShape, FreeSlots, LoadsFit, EntriesFit,
                      TurnsFit
<1>2. QED
  BY <1>1, HistoryKeeps, DoorHolds, ShapeHolds, SelectionHolds, PTL DEF Spec

(* use-chat.ts: the transcript on screen is the active conversation's, for    *)
(* any number of loads, turns and switches under way, as long as no selection *)
(* overtook a load, none failed and turns did not overlap.                   *)
THEOREM TranscriptIsActive == Spec => []HistoryIsActive
<1>1. HistoryInv /\ SelectionInv => HistoryIsActive
  BY DEF HistoryInv, FeedInv, EntriesFit, SelectionInv, HistoryIsActive
<1>2. QED
  BY <1>1, HistoryHolds, SelectionHolds, PTL

-----------------------------------------------------------------------------
(* Types. *)

RowStates == {"unused", "listed", "archived"}

(* What of the page no invariant above speaks about. *)
PageShape ==
    /\ up \in BOOLEAN /\ row \in [Threads -> RowStates]
    /\ status \in {"idle", "working"} /\ loadError \in BOOLEAN /\ patient \in BOOLEAN
    /\ continuity \in ThreadIds /\ abortOf \in {0} \cup Slots /\ view \in {"chat", "panel"}
    /\ threads \subseteq Threads /\ refreshes \subseteq SUBSET Threads
    /\ archives \subseteq Threads /\ archivedShown \subseteq Threads

LEMMA Refreshed ==
    ASSUME refreshes \subseteq SUBSET Threads, NEW rows, RefreshThreads(rows)
    PROVE  refreshes' \subseteq SUBSET Threads
<1>1. Listing(rows) \in SUBSET Threads
  BY DEF Listing
<1>2. QED
  BY <1>1, Zenon DEF RefreshThreads

LEMMA SentPage == PageShape /\ Send => PageShape'
<1> SUFFICES ASSUME PageShape, Send PROVE PageShape'
  OBVIOUS
<1>1. abortOf' \in Slots
  BY LeastSlot DEF Send, CanSend, FreeSlots
<1>2. QED
  BY <1>1 DEF Send, PageShape, shell

LEMMA SettledPage ==
    ASSUME PageShape, NEW i, Settle(i)
    PROVE  PageShape'
<1>1. refreshes' \subseteq SUBSET Threads
  BY Refreshed DEF Settle, PageShape
<1>2. QED
  BY <1>1 DEF Settle, PageShape

(* A load, or a conversation left. *)
LEMMA SelectedPage ==
    ASSUME PageShape,
           \/ UNCHANGED <<continuity, patient, loadError>>
           \/ \E t : LoadThread(t)
           \/ ClearConversation /\ (loadError' = FALSE \/ loadError' = loadError)
    PROVE  continuity' \in ThreadIds /\ patient' \in BOOLEAN /\ loadError' \in BOOLEAN
  BY NoThreadKnown DEF LoadThread, ClearConversation, PageShape

LEMMA ClickPage == PageShape /\ Click => PageShape'
<1> SUFFICES ASSUME PageShape, Click PROVE PageShape'
  OBVIOUS
<1>1. CASE Stop
  BY <1>1, SettledPage DEF Stop
<1>2. CASE Suggest \/ Retry
  BY <1>2, SentPage DEF Suggest, Retry, Resend
<1>3. CASE StartNew
  <2>1. UNCHANGED <<up, row, status, abortOf, threads, refreshes, archives, archivedShown>>
        /\ view' = "chat"
    BY <1>3 DEF StartNew, serverVars, feed
  <2>2. continuity' \in ThreadIds /\ patient' \in BOOLEAN /\ loadError' \in BOOLEAN
    BY <1>3, SelectedPage DEF StartNew, feed
  <2>3. QED
    BY <2>1, <2>2 DEF PageShape
<1>4. ASSUME NEW t \in Threads, SelectThread(t) PROVE PageShape'
  <2>1. UNCHANGED <<up, row, status, abortOf, threads, refreshes, archives, archivedShown>>
        /\ view' = "chat"
    BY <1>4 DEF SelectThread, LoadThread, serverVars, feed
  <2>2. continuity' \in ThreadIds /\ patient' \in BOOLEAN /\ loadError' \in BOOLEAN
    BY <1>4, SelectedPage DEF SelectThread, feed
  <2>3. QED
    BY <2>1, <2>2 DEF PageShape
<1>5. ASSUME NEW to \in {"chat", "panel"}, SelectView(to) PROVE PageShape'
  BY <1>5 DEF SelectView, serverVars, feed, PageShape
<1>6. CASE OpenArchived
  <2>1. archivedShown' \subseteq Threads
    BY <1>6 DEF OpenArchived, ArchivedListing
  <2>2. QED
    BY <1>6, <2>1 DEF OpenArchived, serverVars, feed, PageShape
<1>7. ASSUME NEW t \in Threads, Rename(t) PROVE PageShape'
  <2>1. refreshes' \subseteq SUBSET Threads
    BY <1>7, Refreshed DEF Rename, RenameAnswered, renameThread, PageShape
  <2>2. QED
    BY <1>7, <2>1 DEF Rename, serverVars, feed, PageShape
<1>8. ASSUME NEW t \in Threads, ArchiveAsked(t) PROVE PageShape'
  <2>1. row' \in [Threads -> RowStates] /\ archives' \subseteq Threads
    BY <1>8 DEF ArchiveAsked, archiveThread, PageShape, RowStates
  <2>2. QED
    BY <1>8, <2>1 DEF ArchiveAsked, feed, PageShape
<1>9. ASSUME NEW t \in Threads, RestoreThread(t) PROVE PageShape'
  <2>1. row' \in [Threads -> RowStates] /\ archivedShown' \subseteq Threads
    BY <1>9 DEF RestoreThread, ArchivedListing, PageShape, RowStates
  <2>2. refreshes' \subseteq SUBSET Threads
    BY <1>9, Refreshed DEF RestoreThread, PageShape
  <2>3. QED
    BY <1>9, <2>1, <2>2 DEF RestoreThread, feed, PageShape
<1>10. QED
  BY <1>1, <1>2, <1>3, <1>4, <1>5, <1>6, <1>7, <1>8, <1>9
     DEF Click, Sidebar, Palette, Topbar, ThreadRow

LEMMA ArrivalPage == PageShape /\ Arrival => PageShape'
<1> SUFFICES ASSUME PageShape, Arrival PROVE PageShape'
  OBVIOUS
<1>1. CASE DeliverThreads
  <2>1. threads' \subseteq Threads /\ refreshes' \subseteq SUBSET Threads
    BY <1>1 DEF DeliverThreads, PageShape
  <2>2. QED
    BY <1>1, <2>1 DEF DeliverThreads, serverVars, feed, PageShape
<1>2. CASE LoseLoad
  <2>1. loadError' \in BOOLEAN /\ patient' \in BOOLEAN
    BY <1>2, Zenon DEF LoseLoad, PageShape
  <2>2. QED
    BY <1>2, <2>1 DEF LoseLoad, serverVars, shell, PageShape
<1>3. ASSUME NEW t \in Threads, DeliverMessages(t) PROVE PageShape'
  <2>1. patient' \in BOOLEAN
    BY <1>3, Zenon DEF DeliverMessages, PageShape
  <2>2. QED
    BY <1>3, <2>1 DEF DeliverMessages, serverVars, shell, PageShape
<1>4. ASSUME NEW t \in Threads, DeliverContext(t) PROVE PageShape'
  BY <1>4 DEF DeliverContext, serverVars, shell, PageShape, ThreadIds
<1>5. ASSUME NEW t \in Threads, ArchiveAnswered(t) PROVE PageShape'
  <2>1. refreshes' \subseteq SUBSET Threads /\ archives' \subseteq Threads
    BY <1>5, Refreshed DEF ArchiveAnswered, PageShape
  <2>2. continuity' \in ThreadIds /\ patient' \in BOOLEAN
    BY <1>5, SelectedPage DEF ArchiveAnswered
  <2>3. QED
    BY <1>5, <2>1, <2>2 DEF ArchiveAnswered, serverVars, PageShape
<1>6. ASSUME NEW t \in Threads, ArchiveLost(t) PROVE PageShape'
  BY <1>6 DEF ArchiveLost, serverVars, feed, PageShape
<1>7. ASSUME NEW i \in Slots, ReadEvent(i) PROVE PageShape'
  BY <1>7 DEF ReadEvent, shell, PageShape
<1>8. ASSUME NEW i \in Slots, FinishRead(i) \/ BreakTurn(i) PROVE PageShape'
  BY <1>8, SettledPage DEF FinishRead, BreakTurn
<1>9. QED
  BY <1>1, <1>2, <1>3, <1>4, <1>5, <1>6, <1>7, <1>8 DEF Arrival

LEMMA ServerPage ==
    ASSUME PageShape, ServerAct, UNCHANGED <<selection, feed, shell>>
    PROVE  PageShape'
<1>1. up' \in BOOLEAN /\ row' \in [Threads -> RowStates]
  <2>1. ASSUME NEW i \in Slots, AcceptTurn(i)
        PROVE  up' \in BOOLEAN /\ row' \in [Threads -> RowStates]
    BY <2>1 DEF AcceptTurn, PageShape, RowStates
  <2>2. ASSUME NEW i \in Slots,
               EmitDelta(i) \/ EmitToolStarted(i) \/ EmitToolFinished(i) \/ EndTurn(i)
        PROVE  up' \in BOOLEAN /\ row' \in [Threads -> RowStates]
    BY <2>2 DEF EmitDelta, EmitToolStarted, EmitToolFinished, EndTurn, PageShape
  <2>3. CASE Crash \/ Restart
    BY <2>3 DEF Crash, Restart, PageShape
  <2>4. QED
    BY <2>1, <2>2, <2>3 DEF ServerAct, TurnStep
<1>2. QED
  BY <1>1 DEF feed, shell, PageShape

LEMMA PageShapeKeeps == PageShape /\ [Next]_vars => PageShape'
<1> SUFFICES ASSUME PageShape, PageStep PROVE PageShape'
  BY PageMoves
<1>1. CASE UNCHANGED clientVars
  BY <1>1 DEF clientVars, serverVars, feed, shell, PageShape
<1>2. CASE Mount
  <2>1. refreshes' \subseteq SUBSET Threads
    BY <1>2, Refreshed DEF Mount, PageShape
  <2>2. /\ UNCHANGED <<up, row, status, abortOf, view, threads, archives, archivedShown>>
        /\ continuity' \in ThreadIds /\ patient' \in BOOLEAN /\ loadError' \in BOOLEAN
    BY <1>2, SelectedPage DEF Mount, LoadThread, serverVars
  <2>3. QED
    BY <2>1, <2>2 DEF PageShape
<1>3. CASE PollHealth
  <2>1. refreshes' \subseteq SUBSET Threads
    BY <1>3, Refreshed DEF PollHealth, fetchHealth, PageShape
  <2>2. QED
    BY <1>3, <2>1 DEF PollHealth, fetchHealth, serverVars, feed, PageShape
<1>4. CASE Write
  BY <1>1, <1>4, SendOrNot, SentPage
<1>5. CASE Reload
  BY <1>5, NoThreadKnown DEF Reload, Fresh, PageShape
<1>6. QED
  BY <1>1, <1>2, <1>3, <1>4, <1>5, ClickPage, ArrivalPage, ServerPage DEF PageStep, Shown, ClientAct

(* A turn has started as many calls as it has used of its allotment, at most; *)
(* a turn that does not run has none left.                                   *)
Allotted(r) ==
    /\ r.calls \in 0..MaxEvents /\ r.left \in 0..MaxEvents /\ r.calls + r.left <= MaxEvents
    /\ r.phase # "running" => r.calls = 0 /\ r.left = 0
TurnsAllotted == \A i \in Slots : Allotted(turn[i])

LEMMA NoTurnAllotted == Allotted(NoTurn) /\ Allotted([NoTurn EXCEPT !.phase = "cut"])
  BY TurnBounds DEF NoTurn, Allotted

LEMMA SomeAllotted ==
    ASSUME ShapeInv, TurnsAllotted, NEW i, NEW r,
           turn' = [turn EXCEPT ![i] = r], Allotted(r)
    PROVE  TurnsAllotted'
  BY DEF TurnsAllotted, Allotted, ShapeInv

LEMMA SentAllotted == ShapeInv /\ TurnsAllotted /\ Send => TurnsAllotted'
<1> SUFFICES ASSUME ShapeInv, TurnsAllotted, Send PROVE TurnsAllotted'
  OBVIOUS
<1> DEFINE i == CHOOSE s \in FreeSlots : \A o \in FreeSlots : s <= o
           r == [turn[i] EXCEPT !.phase = "posted", !.thread = threadRef]
<1>1. i \in FreeSlots /\ turn' = [turn EXCEPT ![i].phase = "posted", ![i].thread = threadRef]
  BY LeastSlot DEF Send, CanSend
<1> HIDE DEF i
<1>2. i \in Slots /\ turn[i].phase = "free" /\ turn[i] \in TurnRecord
  BY <1>1 DEF FreeSlots, OpenTurns, ShapeInv
<1>3. r.calls = turn[i].calls /\ r.left = turn[i].left /\ r.phase = "posted"
  BY <1>2 DEF TurnRecord
<1>4. Allotted(r)
  BY <1>2, <1>3 DEF TurnsAllotted, Allotted
<1>5. turn' = [turn EXCEPT ![i] = r]
  BY <1>1, <1>2 DEF ShapeInv
<1>6. QED
  BY <1>4, <1>5, SomeAllotted

LEMMA SettledAllotted ==
    ASSUME ShapeInv, TurnsAllotted, NEW i, Settle(i)
    PROVE  TurnsAllotted'
  BY NoTurnAllotted, SomeAllotted DEF Settle

LEMMA ClickAllotted == ShapeInv /\ TurnsAllotted /\ Click => TurnsAllotted'
<1> SUFFICES ASSUME ShapeInv, TurnsAllotted, Click PROVE TurnsAllotted'
  OBVIOUS
<1>1. CASE Stop
  BY <1>1, SettledAllotted DEF Stop
<1>2. CASE Suggest \/ Retry
  BY <1>2, SentAllotted DEF Suggest, Retry, Resend
<1>3. CASE turn' = turn
  BY <1>3 DEF TurnsAllotted
<1>4. CASE StartNew \/ OpenArchived \/ \E to \in {"chat", "panel"} : SelectView(to)
  BY <1>3, <1>4 DEF StartNew, OpenArchived, SelectView, serverVars
<1>5. ASSUME NEW t \in Threads,
             SelectThread(t) \/ Rename(t) \/ ArchiveAsked(t) \/ RestoreThread(t)
      PROVE  TurnsAllotted'
  BY <1>3, <1>5 DEF SelectThread, Rename, ArchiveAsked, RestoreThread, serverVars
<1>6. QED
  BY <1>1, <1>2, <1>4, <1>5 DEF Click, Sidebar, Palette, Topbar, ThreadRow

LEMMA ArrivalAllotted == ShapeInv /\ TurnsAllotted /\ Arrival => TurnsAllotted'
<1> SUFFICES ASSUME ShapeInv, TurnsAllotted, Arrival PROVE TurnsAllotted'
  OBVIOUS
<1>1. CASE turn' = turn
  BY <1>1 DEF TurnsAllotted
<1>2. CASE DeliverThreads \/ LoseLoad
  BY <1>1, <1>2 DEF DeliverThreads, LoseLoad, serverVars
<1>3. ASSUME NEW t \in Threads,
             DeliverMessages(t) \/ DeliverContext(t) \/ ArchiveAnswered(t) \/ ArchiveLost(t)
      PROVE  TurnsAllotted'
  BY <1>1, <1>3 DEF DeliverMessages, DeliverContext, ArchiveAnswered, ArchiveLost, serverVars
<1>4. ASSUME NEW i \in Slots, ReadEvent(i) PROVE TurnsAllotted'
  <2> DEFINE r == [turn[i] EXCEPT !.queue = <<>>]
  <2>1. turn' = [turn EXCEPT ![i] = r]
    BY <1>4 DEF ReadEvent, ConsumeFrame, ShapeInv
  <2>2. r.calls = turn[i].calls /\ r.left = turn[i].left /\ r.phase = turn[i].phase
    BY DEF ShapeInv, TurnRecord
  <2>3. Allotted(r)
    BY <2>2 DEF TurnsAllotted, Allotted
  <2>4. QED
    BY <2>1, <2>3, SomeAllotted
<1>5. ASSUME NEW i \in Slots, FinishRead(i) \/ BreakTurn(i) PROVE TurnsAllotted'
  BY <1>5, SettledAllotted DEF FinishRead, BreakTurn
<1>6. QED
  BY <1>2, <1>3, <1>4, <1>5 DEF Arrival

LEMMA StreamAllotted ==
    ASSUME ShapeInv, TurnsAllotted, NEW i \in Slots, TurnStep(i)
    PROVE  TurnsAllotted'
<1>1. /\ turn \in [Slots -> TurnRecord] /\ turn[i] \in TurnRecord /\ MaxEvents \in Nat
      /\ Allotted(turn[i])
  BY TurnBounds DEF ShapeInv, TurnsAllotted
<1>2. ASSUME NEW r, turn' = [turn EXCEPT ![i] = r], Allotted(r) PROVE TurnsAllotted'
  BY <1>2, SomeAllotted
<1>3. CASE AcceptTurn(i)
  <2>1. PICK t \in Threads :
          turn' = [turn EXCEPT ![i].phase = "running", ![i].thread = t,
                               ![i].left = MaxEvents, ![i].queue = <<"thread.started">>]
    BY <1>3 DEF AcceptTurn
  <2> DEFINE r == [turn[i] EXCEPT !.phase = "running", !.thread = t,
                                  !.left = MaxEvents, !.queue = <<"thread.started">>]
  <2>2. turn' = [turn EXCEPT ![i] = r]
    BY <1>1, <2>1
  <2>3. r.calls = turn[i].calls /\ r.left = MaxEvents /\ r.phase = "running"
    BY <1>1 DEF TurnRecord
  <2>4. turn[i].calls = 0
    BY <1>1, <1>3 DEF AcceptTurn, Allotted
  <2>5. Allotted(r)
    BY <1>1, <2>3, <2>4 DEF Allotted
  <2>6. QED
    BY <1>2, <2>2, <2>5
<1>4. CASE EmitDelta(i)
  <2> DEFINE r == [turn[i] EXCEPT !.left = turn[i].left - 1, !.queue = <<"text.delta">>]
  <2>1. turn' = [turn EXCEPT ![i] = r] /\ turn[i].left > 0 /\ turn[i].phase = "running"
    BY <1>1, <1>4 DEF EmitDelta, CanEmit
  <2>2. r.calls = turn[i].calls /\ r.left = turn[i].left - 1 /\ r.phase = turn[i].phase
    BY <1>1 DEF TurnRecord
  <2>3. Allotted(r)
    BY <1>1, <2>1, <2>2 DEF Allotted
  <2>4. QED
    BY <1>2, <2>1, <2>3
<1>5. CASE EmitToolStarted(i)
  <2> DEFINE r == [turn[i] EXCEPT !.left = turn[i].left - 1, !.calls = turn[i].calls + 1,
                                  !.queue = <<"tool.started">>]
  <2>1. turn' = [turn EXCEPT ![i] = r] /\ turn[i].left > 0 /\ turn[i].phase = "running"
    BY <1>1, <1>5 DEF EmitToolStarted, CanEmit
  <2>2. r.calls = turn[i].calls + 1 /\ r.left = turn[i].left - 1 /\ r.phase = turn[i].phase
    BY <1>1 DEF TurnRecord
  <2>3. Allotted(r)
    BY <1>1, <2>1, <2>2 DEF Allotted
  <2>4. QED
    BY <1>2, <2>1, <2>3
<1>6. CASE EmitToolFinished(i)
  <2> DEFINE r == [turn[i] EXCEPT !.calls = turn[i].calls - 1, !.queue = <<"tool.finished">>]
  <2>1. turn' = [turn EXCEPT ![i] = r] /\ turn[i].calls > 0 /\ turn[i].phase = "running"
    BY <1>1, <1>6 DEF EmitToolFinished, CanEmit
  <2>2. r.calls = turn[i].calls - 1 /\ r.left = turn[i].left /\ r.phase = turn[i].phase
    BY <1>1 DEF TurnRecord
  <2>3. Allotted(r)
    BY <1>1, <2>1, <2>2 DEF Allotted
  <2>4. QED
    BY <1>2, <2>1, <2>3
<1>7. CASE EndTurn(i)
  <2>1. PICK last : turn' = [turn EXCEPT ![i].phase = "ended", ![i].queue = <<last>>,
                                         ![i].left = 0, ![i].calls = 0]
    BY <1>7 DEF EndTurn
  <2> DEFINE r == [turn[i] EXCEPT !.phase = "ended", !.queue = <<last>>, !.left = 0, !.calls = 0]
  <2>2. turn' = [turn EXCEPT ![i] = r]
    BY <1>1, <2>1
  <2>3. r.calls = 0 /\ r.left = 0
    BY <1>1 DEF TurnRecord
  <2>4. Allotted(r)
    BY <1>1, <2>3 DEF Allotted
  <2>5. QED
    BY <1>2, <2>2, <2>4
<1>8. QED
  BY <1>3, <1>4, <1>5, <1>6, <1>7 DEF TurnStep

LEMMA TurnsStayAllotted == ShapeInv /\ TurnsAllotted /\ [Next]_vars => TurnsAllotted'
<1> SUFFICES ASSUME ShapeInv, TurnsAllotted, PageStep PROVE TurnsAllotted'
  BY PageMoves
<1>1. CASE turn' = turn
  BY <1>1 DEF TurnsAllotted
<1>2. CASE Mount \/ PollHealth \/ Restart \/ UNCHANGED clientVars
  BY <1>1, <1>2 DEF Mount, PollHealth, fetchHealth, Restart, clientVars, serverVars
<1>3. CASE Write
  BY <1>2, <1>3, SendOrNot, SentAllotted
<1>4. CASE Crash
  BY <1>4, NoTurnAllotted DEF Crash, TurnsAllotted
<1>5. CASE Reload
  BY <1>5, NoTurnAllotted DEF Reload, TurnsAllotted
<1>6. QED
  BY <1>2, <1>3, <1>4, <1>5, ClickAllotted, ArrivalAllotted, StreamAllotted
     DEF PageStep, Shown, ClientAct, ServerAct

(* Room is checked before a file is attached or a submit waits; only what was *)
(* typed is submitted.                                                       *)
ComposerBound ==
    /\ files <= MaxFiles /\ frame.files <= MaxFiles /\ Len(pending) <= MaxPending
    /\ attached \subseteq Words /\ typed \subseteq Words

LEMMA DeliverBound ==
    ASSUME ComposerBound, NEW s, NEW c, c.files \in Nat, c.files <= MaxFiles, Deliver(s, c)
    PROVE  files' <= MaxFiles /\ frame'.files <= MaxFiles
<1>1. MaxFiles \in Nat /\ files' = 0
  BY AttachmentBounds DEF Deliver, ClearInput
<1>2. frame' = frame \/ frame' = [lag |-> TRUE, text |-> c.text, files |-> c.files]
  BY DEF Deliver
<1>3. QED
  BY <1>1, <1>2 DEF ComposerBound

LEMMA SubmitBound == ShapeInv /\ ComposerInv /\ ComposerBound /\ Submit => ComposerBound'
<1> SUFFICES ASSUME ShapeInv, ComposerInv, ComposerBound, Submit PROVE ComposerBound'
  OBVIOUS
<1> DEFINE c == Closure
           s == [text |-> c.text, thread |-> activeThread, offline |-> offline, live |-> TRUE]
<1>1. c \in Frames /\ c.text \in Texts /\ c.files \in Nat
  BY ClosureShape DEF Frames
<1>2. c.files <= MaxFiles
  BY DEF Closure, ComposerBound
<1>3. s \in Submission
  BY <1>1 DEF Submission, ShapeInv
<1>4. typed' = typed
      /\ attached' = IF c.files > 0 /\ c.text # Empty THEN attached \cup {c.text} ELSE attached
  BY DEF Submit
<1>5. attached' \subseteq Words /\ typed' \subseteq Words
  BY <1>1, <1>4 DEF ComposerBound, Texts
<1>6. CASE Deliver(s, c) /\ UNCHANGED pending
  <2> HIDE DEF c, s
  <2>1. QED
    BY <1>1, <1>2, <1>5, <1>6, DeliverBound DEF ComposerBound
<1>7. CASE /\ Len(pending) < MaxPending /\ pending' = Append(pending, s)
           /\ UNCHANGED <<clientVars, text, files, drafts, latch, frame, sentCount>>
  <2> HIDE DEF c, s
  <2>1. Len(pending') = Len(pending) + 1 /\ Len(pending) \in Nat /\ MaxPending \in Nat
    BY <1>3, <1>7, Appended, LenProperties, AttachmentBounds DEF ComposerInv
  <2>2. QED
    BY <1>5, <1>7, <2>1 DEF ComposerBound
<1>8. QED
  BY <1>6, <1>7 DEF Submit

LEMMA ConversionBound ==
    ASSUME ComposerInv, ComposerBound, NEW i \in DOMAIN pending,
           ConversionEnds(i) \/ ConversionDropped(i)
    PROVE  ComposerBound'
<1>1. pending' = RemoveAt(pending, i) /\ UNCHANGED <<attached, typed>>
  BY DEF ConversionEnds, ConversionDropped, Converted
<1>2. Len(pending') = Len(pending) - 1 /\ Len(pending) \in Nat /\ MaxPending \in Nat
  BY <1>1, RemovedAt, LenProperties, AttachmentBounds DEF ComposerInv
<1>3. files' <= MaxFiles /\ frame'.files <= MaxFiles
  <2>1. CASE UNCHANGED <<files, frame>>
    BY <2>1 DEF ComposerBound
  <2>2. CASE ConversionEnds(i) /\ pending[i].live
    <3> DEFINE c == [text |-> text, files |-> files]
    <3>1. Deliver(pending[i], c) /\ c.files \in Nat /\ c.files <= MaxFiles
      BY <2>2 DEF ConversionEnds, ComposerInv, ComposerBound
    <3> HIDE DEF c
    <3>2. QED
      BY <3>1, DeliverBound
  <2>3. QED
    BY <2>1, <2>2 DEF ConversionEnds, ConversionDropped
<1>4. QED
  BY <1>1, <1>2, <1>3 DEF ComposerBound

LEMMA WriteBound == ShapeInv /\ ComposerInv /\ ComposerBound /\ Write => ComposerBound'
<1> SUFFICES ASSUME ShapeInv, ComposerInv, ComposerBound, Write PROVE ComposerBound'
  OBVIOUS
<1>1. MaxFiles \in Nat /\ files \in Nat
  BY AttachmentBounds DEF ComposerInv
<1>2. ASSUME NEW w \in Words, Type(w) PROVE ComposerBound'
  BY <1>2 DEF Type, ComposerBound
<1>3. CASE DropFile \/ RemoveFile
  BY <1>1, <1>3 DEF DropFile, AddFile, RemoveFile, DropLastFile, ComposerBound
<1>4. CASE Render \/ Unlatch
  BY <1>1, <1>4 DEF Render, Unlatch, NoFrame, ComposerBound
<1>5. QED
  BY <1>2, <1>3, <1>4, SubmitBound, ConversionBound DEF Write

LEMMA ComposerStaysBound ==
    DoorInv /\ ShapeInv /\ SelectionInv /\ ComposerInv /\ ComposerBound /\ [Next]_vars
        => ComposerBound'
<1> SUFFICES ASSUME DoorInv, ShapeInv, ShapeInv', SelectionInv, ComposerInv, ComposerBound, PageStep
             PROVE  ComposerBound'
  BY PageMoves, ShapeKeeps
<1>1. MaxFiles \in Nat /\ MaxPending \in Nat
  BY AttachmentBounds
<1>2. CASE UNCHANGED <<files, frame, pending, attached, typed>>
  BY <1>2 DEF ComposerBound
<1>3. CASE OpenDoor /\ gate' = "app" /\ Mount
  BY <1>2, <1>3 DEF Mount
<1>4. CASE gate' = gate /\ Shown
  <2>1. FollowForm
    BY <1>4, FollowForms DEF Shown, ShapeInv
  <2>2. CASE Unmount
    <3>1. Len(pending') = Len(pending)
      BY <2>2, OrphanedShape, SameLength DEF Unmount, ComposerInv
    <3>2. QED
      BY <1>1, <2>2, <3>1 DEF Unmount, ClearInput, NoFrame, ComposerBound
  <2>3. QED
    BY <1>2, <2>1, <2>2 DEF FollowForm, composerVars
<1>5. CASE Reload
  BY <1>1, <1>5 DEF Reload, ClearInput, NoFrame, ComposerBound
<1>6. CASE UNCHANGED composerVars
  BY <1>2, <1>6 DEF composerVars
<1>7. QED
  BY <1>3, <1>4, <1>5, <1>6, WriteBound DEF PageStep

(* The door, and what the owner and the faults have spent. *)
DoorBound == GateTypeOK /\ gestures \in 0..MaxGestures /\ crashes \in 0..MaxCrashes

LEMMA DoorStaysBound == DoorBound /\ [Next]_vars => DoorBound'
<1> SUFFICES ASSUME DoorBound, [Next]_vars PROVE DoorBound'
  OBVIOUS
<1>1. MaxGestures \in Nat /\ MaxCrashes \in Nat /\ MaxFailures \in Nat
  BY GestureBounds, GateAssumption
<1>2. CASE OpenDoor
  BY <1>2 DEF OpenDoor, SessionAnswer, Rendering, NoGesture, DoorBound, GateTypeOK
<1>3. CASE Door
  <2>1. UNCHANGED <<gate, gestures, crashes>>
    BY <1>3 DEF Door, LoginAnswer, LoginLost, WindowEnds, Login, NoGesture
  <2>2. CASE LoginAnswer
    <3>1. /\ asking' \in BOOLEAN /\ cookie' \in BOOLEAN /\ window' \in BOOLEAN
          /\ attempt' = "none"
      BY <2>2, Zenon DEF LoginAnswer, LoginRefused, LoginFailed, LoginGranted, DoorBound, GateTypeOK
    <3>2. failures' \in {failures, 0} \/ (failures < MaxFailures /\ failures' = failures + 1)
      BY <2>2, Zenon DEF LoginAnswer, LoginRefused, LoginFailed, LoginGranted
    <3>3. failures' \in 0..MaxFailures
      BY <1>1, <3>2 DEF DoorBound, GateTypeOK
    <3>4. QED
      BY <2>1, <3>1, <3>3 DEF DoorBound, GateTypeOK
  <2>3. CASE LoginLost \/ WindowEnds \/ \E guess \in {"right", "wrong"} : Login(guess)
    BY <2>1, <2>3 DEF LoginLost, WindowEnds, Login, DoorBound, GateTypeOK
  <2>4. QED
    BY <1>3, <2>2, <2>3 DEF Door
<1>4. CASE UNCHANGED gateVars /\ (Gesture \/ NoGesture)
  BY <1>1, <1>4 DEF gateVars, Gesture, NoGesture, DoorBound, GateTypeOK
<1>5. CASE OwnerClicks \/ OwnerWrites \/ Network \/ Timers \/ ServerTurns \/ ServerRestart
  BY <1>4, <1>5 DEF OwnerClicks, OwnerWrites, Network, Timers, ServerTurns, ServerRestart
<1>6. CASE ServerCrash
  <2>1. crashes < MaxCrashes /\ crashes' = crashes + 1 /\ failures' = 0 /\ window' = FALSE
        /\ UNCHANGED <<gate, asking, attempt, cookie, gestures>>
    BY <1>6 DEF ServerCrash
  <2>2. crashes' \in 0..MaxCrashes /\ failures' \in 0..MaxFailures
    BY <1>1, <2>1 DEF DoorBound
  <2>3. QED
    BY <2>1, <2>2, Zenon DEF DoorBound, GateTypeOK
<1>7. CASE Reload
  BY <1>1, <1>7 DEF Reload, Gesture, ReloadGate, DoorBound, GateTypeOK
<1>8. CASE UNCHANGED vars
  BY <1>4, <1>8 DEF vars, NoGesture
<1>9. QED
  BY <1>2, <1>3, <1>5, <1>6, <1>7, <1>8 DEF Next

LEMMA PageAtFirst == Init => PageShape /\ TurnsAllotted /\ ComposerBound /\ DoorBound
<1> SUFFICES ASSUME Init PROVE PageShape /\ TurnsAllotted /\ ComposerBound /\ DoorBound
  OBVIOUS
<1>1. PageShape
  <2>1. row \in [Threads -> RowStates]
    BY DEF Init, RowStates
  <2>2. QED
    BY <2>1, NoThreadKnown DEF Init, PageShape
<1>2. TurnsAllotted
  BY NoTurnAllotted DEF Init, TurnsAllotted
<1>3. ComposerBound
  BY AttachmentBounds DEF Init, ComposerInit, NoFrame, ComposerBound
<1>4. DoorBound
  <2>1. 0 \in 0..MaxGestures /\ 0 \in 0..MaxCrashes /\ 0 \in 0..MaxFailures
    BY GestureBounds, GateAssumption
  <2>2. QED
    BY <2>1, Zenon DEF Init, GateInit, DoorBound, GateTypeOK
<1>5. QED
  BY <1>1, <1>2, <1>3, <1>4

LEMMA ServerTyped == ASSUME ShapeInv, PageShape, TurnsAllotted PROVE ServerTypeOK
<1> DEFINE Typed == [phase : Phases, thread : ThreadIds, calls : 0..MaxEvents,
                     left : 0..MaxEvents, queue : Replies]
<1>1. \A i \in Slots : turn[i] \in Typed
  BY DEF ShapeInv, TurnsAllotted, Allotted, TurnRecord
<1>2. turn \in [Slots -> Typed]
  BY <1>1 DEF ShapeInv
<1>3. QED
  BY <1>2 DEF PageShape, RowStates, ServerTypeOK, Phases, Replies

LEMMA ComposerTyped == ASSUME ComposerInv, ComposerBound PROVE ComposerTypeOK
<1>1. frame \in [lag : BOOLEAN, text : Texts, files : 0..MaxFiles] /\ files \in 0..MaxFiles
  BY AttachmentBounds DEF ComposerInv, ComposerBound, Frames
<1>2. QED
  BY <1>1 DEF ComposerInv, ComposerBound, ComposerTypeOK

(* Every variable of the page has its type; no turn outruns its events, and   *)
(* no more is attached or waits for a conversion than there is room for.     *)
THEOREM PageTyped == Spec => []TypeOK
<1>1. /\ DoorInv /\ ShapeInv /\ SelectionInv /\ ComposerInv
      /\ PageShape /\ TurnsAllotted /\ ComposerBound /\ DoorBound /\ [Next]_vars
      => PageShape' /\ TurnsAllotted' /\ ComposerBound' /\ DoorBound'
  BY PageShapeKeeps, TurnsStayAllotted, ComposerStaysBound, DoorStaysBound
<1>2. Spec => [](PageShape /\ TurnsAllotted /\ ComposerBound /\ DoorBound)
  BY <1>1, PageAtFirst, DoorHolds, ShapeHolds, SelectionHolds, ComposerHolds, PTL DEF Spec
<1>3. ShapeInv /\ ComposerInv /\ HistoryInv /\ PageShape /\ TurnsAllotted
          /\ ComposerBound /\ DoorBound => TypeOK
  <2> SUFFICES ASSUME ShapeInv, ComposerInv, HistoryInv,
                      PageShape, TurnsAllotted, ComposerBound, DoorBound
               PROVE  TypeOK
    OBVIOUS
  <2>1. ServerTypeOK /\ ComposerTypeOK
    BY ServerTyped, ComposerTyped
  <2>2. ClientTypeOK
    BY DEF ShapeInv, PageShape, HistoryInv, FeedInv, FeedShape, ClientTypeOK
  <2>3. QED
    BY <2>1, <2>2 DEF DoorBound, TypeOK
<1>4. QED
  BY <1>2, <1>3, ShapeHolds, ComposerHolds, HistoryHolds, PTL
=============================================================================
