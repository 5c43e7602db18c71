------------------------------ MODULE Composer ------------------------------
(***************************************************************************)
(* The message composer (src/web/components/chat/composer.tsx) on the      *)
(* prompt input it is built from                                           *)
(* (src/web/components/ai-elements/prompt-input.tsx): the text, the        *)
(* attached files, the draft of every thread in sessionStorage, the        *)
(* submitting latch, and the submits whose attachments are still being     *)
(* converted.  The composer is mounted while the chat view is shown.       *)
(***************************************************************************)
EXTENDS ChatClient, SequencesExt

CONSTANTS
    Words,     \* what the owner may type; each word is typed at most once
    Empty,     \* no text
    MaxFiles,  \* files attached at once
    MaxPending \* submits that wait for a conversion

ASSUME WordsAssumption == Empty \notin Words
ASSUME AttachmentBounds == MaxFiles \in Nat /\ MaxPending \in Nat

VARIABLES
    text,       \* the textarea
    files,      \* number of attached files
    drafts,     \* sessionStorage "saaya:draft:<thread>", survives a reload
    latch,      \* the submitting ref
    pending,    \* submits waiting for their files, as their closures saw it
    frame,      \* closure of a rendering that lags behind a send, or NoFrame
    sentCount,  \* history: how often the composer sent a word
    attached,   \* history: words that were submitted with a file
    typed       \* words typed so far

composerVars == <<text, files, drafts, latch, pending, frame, sentCount, attached, typed>>

Texts == Words \cup {Empty}
NoFrame == [lag |-> FALSE, text |-> Empty, files |-> 0]
Submission == [text : Texts, thread : ThreadIds, offline : BOOLEAN, live : BOOLEAN]

ComposerTypeOK ==
    /\ text \in Texts /\ files \in 0..MaxFiles
    /\ drafts \in [ThreadIds -> Texts] /\ latch \in BOOLEAN
    /\ pending \in Seq(Submission) /\ Len(pending) <= MaxPending
    /\ frame \in [lag : BOOLEAN, text : Texts, files : 0..MaxFiles]
    /\ sentCount \in [Words -> 0..2] /\ attached \subseteq Words /\ typed \subseteq Words

ComposerInit ==
    /\ text = Empty /\ files = 0 /\ drafts = [t \in ThreadIds |-> Empty]
    /\ latch = FALSE /\ pending = <<>> /\ frame = NoFrame
    /\ sentCount = [w \in Words |-> 0] /\ attached = {} /\ typed = {}

(* Nothing is captured that the page does not show any more. *)
Rendered == ~frame.lag

(* Conversions of an unmounted composer still end, with nothing to clear. *)
Orphaned(s) == [i \in DOMAIN s |-> [s[i] EXCEPT !.live = FALSE]]

(* The provider's add, remove and clear. *)
AddFile == files' = files + 1
DropLastFile == files > 0 /\ files' = files - 1
ClearInput == text' = Empty /\ files' = 0

Unmount ==
    /\ ClearInput /\ latch' = FALSE /\ frame' = NoFrame
    /\ pending' = Orphaned(pending)
    /\ UNCHANGED <<drafts, sentCount, attached, typed>>

\* Mutant: a change of thread reads no draft.
DraftSyncUnread(saved, t, shown) == text' = shown /\ drafts' = saved

\* Mutant: the draft of the new thread is overwritten before it is read.
DraftSyncSaveFirst(saved, t, shown) ==
    text' = shown /\ drafts' = [saved EXCEPT ![t] = shown]

(* DraftSync on a commit that shows thread t with the drafts saved so far: *)
(* the first effect reads the draft of t, the second saves the text of     *)
(* this commit under t, and the commit that follows saves what was read.   *)
DraftSync(saved, t, shown) ==
    LET restored == saved[t]
        first == [saved EXCEPT ![t] = shown]
    IN  /\ text' = restored
        /\ drafts' = [first EXCEPT ![t] = restored]

(* DraftSync under a freshly mounted ChatApp.  Its first commit shows the  *)
(* new conversation: the effects read the draft of that one and remove it, *)
(* as the text is still empty.  Only then does the effect of useChat, the  *)
(* parent, select a remembered thread t, and what was read is the text of  *)
(* the commit that shows t.                                                *)
DraftSyncOnMount(t) ==
    IF t = NoThread
    THEN DraftSync(drafts, NoThread, Empty)
    ELSE DraftSync([drafts EXCEPT ![NoThread] = Empty], t, drafts[NoThread])

(* What a step of the chat client does to the composer below it. *)
Follow ==
    CASE view # "chat" /\ view' # "chat" -> UNCHANGED composerVars
      [] view = "chat" /\ view' # "chat" -> Unmount
      [] view # "chat" /\ view' = "chat" ->
            /\ DraftSync(drafts, activeThread', Empty)
            /\ UNCHANGED <<files, latch, pending, frame, sentCount, attached, typed>>
      [] OTHER ->
            /\ IF activeThread' # activeThread
               THEN DraftSync(drafts, activeThread', text)
               ELSE UNCHANGED <<text, drafts>>
            /\ UNCHANGED <<files, latch, pending, frame, sentCount, attached, typed>>

clientVars == <<serverVars, selection, feed, shell>>

mounted == view = "chat"

(* The textarea is disabled during a turn and while offline. *)
Type(w) ==
    /\ mounted /\ Rendered /\ ~working /\ ~offline /\ w \notin typed
    /\ text' = w /\ drafts' = [drafts EXCEPT ![activeThread] = w]
    /\ typed' = typed \cup {w}
    /\ UNCHANGED <<clientVars, files, latch, pending, frame, sentCount, attached>>

(* A drop on the form is never refused. *)
DropFile ==
    /\ mounted /\ Rendered /\ files < MaxFiles
    /\ AddFile
    /\ UNCHANGED <<clientVars, text, drafts, latch, pending, frame, sentCount,
                   attached, typed>>

(* A paste needs the textarea. *)
PasteFile == ~working /\ ~offline /\ DropFile

(* Backspace in an empty textarea removes the last attachment. *)
RemoveFile ==
    /\ mounted /\ Rendered /\ ~working /\ ~offline /\ text = Empty
    /\ DropLastFile
    /\ UNCHANGED <<clientVars, text, drafts, latch, pending, frame, sentCount,
                   attached, typed>>

(* The text and the files that a submit of this moment captures. *)
Closure == IF frame.lag THEN frame ELSE [lag |-> FALSE, text |-> text, files |-> files]

\* Mutant: nothing latches a send until React has flushed it.
PassesUnlatched(s) == s.text # Empty /\ ~s.offline

Passes(s) == s.text # Empty /\ ~s.offline /\ ~latch

Counted(w) == sentCount' = [sentCount EXCEPT ![w] = IF @ < 2 THEN @ + 1 ELSE @]

(* The end of handleSubmit on a mounted composer: whether or not Composer's *)
(* onSubmit sent the text, attachments and text are cleared.  A send leaves *)
(* one frame in which the old closures can still be submitted.             *)
Deliver(s, capture) ==
    /\ ClearInput
    /\ IF Passes(s)
       THEN /\ Send /\ latch' = TRUE /\ Counted(s.text)
            /\ drafts' = [drafts EXCEPT ![s.thread] = Empty, ![activeThread] = Empty]
            /\ frame' = [lag |-> TRUE, text |-> capture.text, files |-> capture.files]
       ELSE /\ drafts' = [drafts EXCEPT ![activeThread] = Empty]
            /\ UNCHANGED <<clientVars, latch, sentCount, frame>>

(* A turn turns the button into Stop once it is rendered; offline leaves it. *)
SubmitButton == mounted /\ (~working \/ frame.lag)

(* Enter, or the Send button. *)
Submit ==
    LET c == Closure
        s == [text |-> c.text, thread |-> activeThread, offline |-> offline, live |-> TRUE]
    IN  /\ SubmitButton
        /\ attached' = IF c.files > 0 /\ c.text # Empty THEN attached \cup {c.text}
                                                        ELSE attached
        /\ IF c.files = 0
           THEN /\ Deliver(s, c) /\ UNCHANGED pending
           ELSE /\ Len(pending) < MaxPending
                /\ pending' = Append(pending, s)
                /\ UNCHANGED <<clientVars, text, files, drafts, latch, frame, sentCount>>
        /\ UNCHANGED typed

(* The conversion of a file always resolves: to its data, or to nothing. *)
Converted(i) == Rendered /\ i \in DOMAIN pending /\ pending' = RemoveAt(pending, i)

(* The attachments of a submit are converted; the guards it applies are    *)
(* those of the moment it was submitted.                                   *)
ConversionEnds(i) ==
    /\ Converted(i)
    /\ LET s == pending[i] IN
        IF s.live
        THEN Deliver(s, [text |-> text, files |-> files])
        ELSE /\ s.text # Empty /\ ~s.offline
             /\ Send /\ Counted(s.text)
             /\ drafts' = [drafts EXCEPT ![s.thread] = Empty]
             /\ UNCHANGED <<text, files, latch, frame>>
    /\ UNCHANGED <<attached, typed>>

(* An unmounted composer drops what its own latch or guards refuse. *)
ConversionDropped(i) ==
    /\ Converted(i) /\ ~pending[i].live
    /\ UNCHANGED <<clientVars, text, files, drafts, latch, frame, sentCount,
                   attached, typed>>

(* React flushes the state of a send. *)
Render ==
    /\ frame.lag /\ frame' = NoFrame
    /\ UNCHANGED <<clientVars, text, files, drafts, latch, pending, sentCount,
                   attached, typed>>

(* The 300 ms timer; a frame is over long before. *)
Unlatch ==
    /\ latch /\ Rendered /\ latch' = FALSE
    /\ UNCHANGED <<clientVars, text, files, drafts, pending, frame, sentCount,
                   attached, typed>>
=============================================================================
