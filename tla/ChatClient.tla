----------------------------- MODULE ChatClient -----------------------------
(***************************************************************************)
(* The chat state of the web client: the useChat hook                      *)
(* (src/web/components/chat/use-chat.ts) with the shell that drives it     *)
(* (chat-app.tsx, app-sidebar.tsx, command-palette.tsx, use-health.ts).    *)
(* A request in flight is kept until the server answers it or it is lost,  *)
(* in any order.  The text of a reply is left out, and the tool calls of   *)
(* a message are one group, and a transcript is one entry that carries the *)
(* thread it came from.                                                    *)
(***************************************************************************)
EXTENDS ChatServer

CONSTANT MaxListings   \* listings under way at once

ASSUME ListingsAssumption == MaxListings \in Nat \ {0}

VARIABLES
    threadRef,     \* the ref that a send posts to
    activeThread,  \* the state the page renders
    stored,        \* localStorage "saaya.thread", survives a reload
    messages,      \* the entries on screen
    status,        \* "idle" or "working"
    loadError,     \* the banner over the transcript
    continuity,    \* thread whose context answer is held
    loads,         \* transcript and context requests in flight
    abortOf,       \* slot whose controller abortRef holds, 0 for null
    threads,       \* the conversation list of the sidebar
    refreshes,     \* listings on their way to the client
    archives,      \* archive calls the server has done, answer on its way
    archivedShown, \* rows under the Archived disclosure
    offline,       \* what the last health poll said
    view,          \* "chat" or a panel
    patient        \* history: no selection overtook a load, none failed

selection == <<threadRef, activeThread, stored>>
feed == <<messages, status, loadError, continuity, loads, abortOf, patient>>
shell == <<threads, refreshes, archives, archivedShown, offline, view>>

Live == "live"   \* the origin of an entry sent from this page

Entry == [from : Threads \cup {Live}, tool : {"none", "running", "done"},
          error : BOOLEAN]

ClientTypeOK ==
    /\ threadRef \in ThreadIds /\ activeThread \in ThreadIds /\ stored \in ThreadIds
    /\ messages \in Seq(Entry)
    /\ status \in {"idle", "working"} /\ loadError \in BOOLEAN
    /\ continuity \in ThreadIds
    /\ loads \subseteq [kind : {"messages", "context"}, thread : Threads]
    /\ abortOf \in {0} \cup Slots
    /\ threads \subseteq Threads /\ refreshes \subseteq SUBSET Threads
    /\ archives \subseteq Threads /\ archivedShown \subseteq Threads
    /\ offline \in BOOLEAN /\ view \in {"chat", "panel"} /\ patient \in BOOLEAN

(* The state of a freshly mounted ChatApp, before its first effects. *)
Fresh ==
    /\ messages' = <<>> /\ status' = "idle" /\ loadError' = FALSE
    /\ continuity' = NoThread /\ abortOf' = 0 /\ threads' = {}
    /\ archives' = {} /\ archivedShown' = {} /\ offline' = FALSE
    /\ view' = "chat" /\ patient' = TRUE

Transcript(t) == <<[from |-> t, tool |-> "done", error |-> FALSE]>>

Exchange == [from |-> Live, tool |-> "none", error |-> FALSE]

working == status = "working"
LoadingMessages == \E q \in loads : q.kind = "messages"

\* Mutant: a conversation is selected, and not remembered for a reload.
SelectUnstored(t) == /\ threadRef' = t /\ activeThread' = t /\ UNCHANGED stored

Select(t) == /\ threadRef' = t /\ activeThread' = t /\ stored' = t

(* updateLast: changes the entry that is last when the event arrives. *)
UpdateLast(change) ==
    messages' = IF messages = <<>> THEN messages
                ELSE [messages EXCEPT ![Len(messages)] = change[@]]

WithToolRunning[m \in Entry] == [m EXCEPT !.tool = "running"]
(* Calls are matched by name: the first answer settles every running call. *)
WithToolDone[m \in Entry] == [m EXCEPT !.tool = IF @ = "running" THEN "done" ELSE @]
WithError[m \in Entry] == [m EXCEPT !.error = TRUE]

(* refreshThreads: the listing of the moment, delivered later or never.    *)
(* Bound: of more than MaxListings the earlier ones are lost.              *)
RefreshThreads(rows) ==
    refreshes' = IF ~up THEN refreshes
                 ELSE IF Cardinality(refreshes) < MaxListings
                      THEN refreshes \cup {Listing(rows)}
                      ELSE {Listing(rows)}

(* loadThread: the three copies of the selection change before the answer. *)
LoadThread(t) ==
    /\ Select(t)
    /\ loadError' = FALSE /\ continuity' = NoThread
    /\ patient' = (patient /\ ~LoadingMessages)
    /\ loads' = loads \cup {[kind |-> "messages", thread |-> t]}
    /\ UNCHANGED <<messages, status, abortOf>>

DeliverMessages(t) ==
    /\ up
    /\ \E q \in loads :
        /\ q = [kind |-> "messages", thread |-> t]
        /\ loads' = (loads \ {q})
                     \cup {[kind |-> "context", thread |-> t]}
    /\ messages' = Transcript(t)
    /\ patient' = \/ patient
                  \/ /\ t = threadRef /\ OpenTurns = {}
                     /\ \A q \in loads : q.kind = "messages" => q.thread = t
    /\ UNCHANGED <<serverVars, selection, shell, status, loadError, continuity, abortOf>>

DeliverContext(t) ==
    /\ up
    /\ \E q \in loads :
        /\ q = [kind |-> "context", thread |-> t]
        /\ loads' = loads \ {q}
    /\ continuity' = t
    /\ UNCHANGED <<serverVars, selection, shell, messages, status, loadError,
                   abortOf, patient>>

(* A load that fails leaves the entries on screen as they are. *)
LoseLoad ==
    /\ \E q \in loads :
        /\ loads' = loads \ {q}
        /\ loadError' = (loadError \/ q.kind = "messages")
        /\ patient' = (patient /\ q.kind # "messages")
    /\ UNCHANGED <<serverVars, selection, shell, messages, status, continuity, abortOf>>

(* Bound: a slot for the turn, and an unused thread when one must be minted. *)
Mintable ==
    LET unnamed == {i \in OpenTurns : turn[i].phase = "posted" /\ turn[i].thread = NoThread}
    IN  Cardinality({t \in Threads : row[t] = "unused"}) > Cardinality(unnamed)
CanSend == FreeSlots # {} /\ (threadRef = NoThread => Mintable)

(* send, after its guard: the pair of bubbles, then the POST. *)
Send ==
    /\ CanSend
    /\ LET i == CHOOSE s \in FreeSlots : \A o \in FreeSlots : s <= o IN
        /\ turn' = [turn EXCEPT ![i].phase = "posted", ![i].thread = threadRef]
        /\ abortOf' = i
    /\ status' = "working" /\ loadError' = FALSE
    /\ messages' = Append(messages, Exchange)
    /\ patient' = (patient /\ OpenTurns = {})
    /\ UNCHANGED <<up, row, selection, shell, continuity, loads>>

ConsumeFrame(i) == turn' = [turn EXCEPT ![i].queue = <<>>]

(* One complete frame from readWireEvents. *)
ReadEvent(i) ==
    /\ turn[i].queue # <<>>
    /\ ConsumeFrame(i)
    /\ LET event == Head(turn[i].queue) IN
        /\ CASE event = "tool.started" -> UpdateLast(WithToolRunning)
             [] event = "tool.finished" -> UpdateLast(WithToolDone)
             [] event = "turn.error" -> UpdateLast(WithError)
             [] OTHER -> UNCHANGED messages
        /\ IF event = "thread.started" THEN Select(turn[i].thread)
                                       ELSE UNCHANGED selection
    /\ UNCHANGED <<up, row, shell, status, loadError, continuity, loads, abortOf, patient>>

\* Mutant: the finally of send does not go back to idle.
SettleWorking(i) ==
    /\ turn' = [turn EXCEPT ![i] = NoTurn]
    /\ abortOf' = 0 /\ UNCHANGED status
    /\ RefreshThreads(row)
    /\ UNCHANGED <<up, row, selection, loadError, continuity, loads, patient,
                   threads, archives, archivedShown, offline, view>>

(* The finally of send. *)
Settle(i) ==
    /\ turn' = [turn EXCEPT ![i] = NoTurn]
    /\ abortOf' = 0 /\ status' = "idle"
    /\ RefreshThreads(row)
    /\ UNCHANGED <<up, row, selection, loadError, continuity, loads, patient,
                   threads, archives, archivedShown, offline, view>>

(* The stream ended. *)
FinishRead(i) ==
    /\ turn[i].phase = "ended" /\ turn[i].queue = <<>>
    /\ Settle(i) /\ UNCHANGED messages

(* The POST is refused or the connection breaks; an unread frame is lost. *)
BreakTurn(i) ==
    /\ turn[i].phase # "free"
    /\ UpdateLast(WithError) /\ Settle(i)

(* stop: aborts the controller of the newest send, if it still has one. *)
Stop ==
    /\ view = "chat" /\ working /\ abortOf # 0
    /\ UpdateLast(WithError) /\ Settle(abortOf)

\* Mutant: the entries of the conversation that was left stay on screen.
ClearSelection ==
    /\ Select(NoThread)
    /\ continuity' = NoThread
    /\ patient' = (~LoadingMessages /\ OpenTurns = {})
    /\ UNCHANGED messages

ClearConversation ==
    /\ Select(NoThread)
    /\ messages' = <<>> /\ continuity' = NoThread
    /\ patient' = (~LoadingMessages /\ OpenTurns = {})

(* startNew: the view changes even when the hook refuses. *)
StartNew ==
    /\ view' = "chat"
    /\ IF working
       THEN UNCHANGED <<selection, feed>>
       ELSE /\ ClearConversation /\ loadError' = FALSE
            /\ UNCHANGED <<status, loads, abortOf>>
    /\ UNCHANGED <<serverVars, threads, refreshes, archives, archivedShown, offline>>

(* selectThread: loads nothing during a turn, nor the active thread again. *)
SelectThread(t) ==
    /\ t \in threads
    /\ view' = "chat"
    /\ IF working \/ t = threadRef
       THEN UNCHANGED <<selection, feed>>
       ELSE LoadThread(t)
    /\ UNCHANGED <<serverVars, threads, refreshes, archives, archivedShown, offline>>

(* The sidebar buttons toggle a panel, the palette opens it. *)
SelectView(to) ==
    /\ view' = to
    /\ UNCHANGED <<serverVars, selection, feed, threads, refreshes, archives,
                   archivedShown, offline>>

(* The suggestions of an empty conversation. *)
Suggest == /\ view = "chat" /\ messages = <<>> /\ ~working /\ Send

(* retry: a new attempt, the failed exchange stays above it. *)
Resend == ~working /\ Send

(* Try again, in an entry that broke and is the last. *)
RetryShown(i) == messages[i].error /\ i = Len(messages)
Retry == view = "chat" /\ (\E i \in DOMAIN messages : RetryShown(i)) /\ Resend

(* The dialog, and the hook's call: an answered one refreshes the list. *)
renameThread == up
RenameAnswered == renameThread /\ RefreshThreads(row)
Rename(t) ==
    /\ t \in threads /\ RenameAnswered
    /\ UNCHANGED <<serverVars, selection, feed, threads, archives, archivedShown,
                   offline, view>>

archiveThread(t) ==
    /\ up /\ row' = [row EXCEPT ![t] = "archived"]
    /\ archives' = archives \cup {t}

(* Archive is not refused while a turn is open. *)
ArchiveAsked(t) ==
    /\ t \in threads /\ archiveThread(t)
    /\ UNCHANGED <<up, turn, selection, feed, threads, refreshes, archivedShown,
                   offline, view>>

ArchiveAnswered(t) ==
    /\ t \in archives
    /\ archives' = archives \ {t}
    /\ IF threadRef = t
       THEN ClearConversation
       ELSE UNCHANGED <<selection, messages, continuity, patient>>
    /\ RefreshThreads(row)
    /\ UNCHANGED <<serverVars, status, loadError, loads, abortOf, threads,
                   archivedShown, offline, view>>

ArchiveLost(t) ==
    /\ t \in archives
    /\ archives' = archives \ {t}
    /\ UNCHANGED <<serverVars, selection, feed, threads, refreshes, archivedShown,
                   offline, view>>

(* A failed read of the archive empties the disclosure. *)
OpenArchived ==
    /\ archivedShown' = IF up THEN ArchivedListing(row) ELSE {}
    /\ UNCHANGED <<serverVars, selection, feed, threads, refreshes, archives,
                   offline, view>>

RestoreThread(t) ==
    /\ t \in archivedShown /\ up
    /\ row' = [row EXCEPT ![t] = "listed"]
    /\ archivedShown' = ArchivedListing(row')
    /\ RefreshThreads(row')
    /\ UNCHANGED <<up, turn, selection, feed, threads, archives, offline, view>>

(* A row is disabled during a turn; its menu is not. *)
ThreadRow(t) == (~working /\ SelectThread(t)) \/ Rename(t) \/ ArchiveAsked(t)

(* What the owner can do in the sidebar; New conversation is disabled      *)
(* during a turn, the archive is not.                                      *)
Sidebar ==
    \/ ~working /\ StartNew
    \/ SelectView(IF view = "chat" THEN "panel" ELSE "chat")
    \/ OpenArchived
    \/ \E t \in Threads : ThreadRow(t) \/ RestoreThread(t)

(* The command palette and its shortcuts disable nothing. *)
Palette ==
    StartNew \/ SelectView("panel") \/ \E t \in Threads : SelectThread(t)

(* The name of the app, above every view, starts a new conversation. *)
Topbar == StartNew

(* A listing replaces the list; a lost one leaves the last known list. *)
DeliverThreads ==
    /\ \E l \in refreshes, kept \in BOOLEAN :
        /\ refreshes' = refreshes \ {l}
        /\ threads' = IF kept THEN l ELSE threads
    /\ UNCHANGED <<serverVars, selection, feed, archives, archivedShown, offline, view>>

(* The health poll; the list returns when the poll sees the server again. *)
fetchHealth == up
PollHealth ==
    /\ offline' = ~fetchHealth
    /\ IF offline /\ fetchHealth THEN RefreshThreads(row) ELSE UNCHANGED refreshes
    /\ UNCHANGED <<serverVars, selection, feed, threads, archives, archivedShown, view>>

(* The tool group of an entry: a running one that no turn streams into     *)
(* belongs to a dead turn.                                                 *)
Streaming(i) == working /\ i = Len(messages)
ToolBadge(i) ==
    CASE messages[i].tool = "running" /\ ~Streaming(i) -> "interrupted"
      [] messages[i].tool = "running" /\ Streaming(i) -> "input-available"
      [] OTHER -> "output-available"
ToolShown(i) == i \in DOMAIN messages /\ messages[i].tool # "none"
Spinning(i) == ToolShown(i) /\ ToolBadge(i) = "input-available"

(* The echo mark: an unreachable server outranks a turn, a turn outranks  *)
(* rest.  (The job states that follow are the workbench's.)               *)
EchoState ==
    CASE offline -> "offline"
      [] ~offline /\ working -> IF Spinning(Len(messages)) THEN "tool" ELSE "thinking"
      [] OTHER -> "idle"
=============================================================================
