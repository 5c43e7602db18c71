----------------------------- MODULE Workbench -----------------------------
(***************************************************************************)
(* The conversation's working surface                                      *)
(* (src/web/components/work/workbench.tsx) and the effects of chat-app.tsx *)
(* that open and close it.  It follows one job by its event stream: every  *)
(* row asks for a snapshot, and the snapshots are answered in any order or *)
(* not at all.                                                             *)
(***************************************************************************)
EXTENDS WorkLedger, SequencesExt

CONSTANTS
    Threads,    \* conversations that own jobs
    MaxLoads,   \* snapshots on their way at once
    MaxFaults   \* answers lost or overtaken, streams broken

ASSUME BenchBounds == MaxLoads \in Nat \ {0} /\ MaxFaults \in Nat

VARIABLES
    home,        \* home[j]: the thread of job j
    thread,      \* activeThread
    view,        \* "chat" or "work"
    allJobs,     \* useAllJobs: the states of the last poll
    benchOpen,   \* the state of chat-app.tsx
    benchClosed, \* the ref: a hand closed it
    detail,      \* the snapshot on screen, or NoDetail
    loads,       \* snapshots asked for and not answered, oldest first
    source,      \* the EventSource: "off", "open", "broken" or "ended"
    cursor,      \* the rows the server has sent on it
    seqRef,      \* where the next EventSource starts
    faults,      \* spent so far
    orderly,     \* history: no snapshot of this job was lost or overtaken
    byHand       \* history: the owner closed the bench of this thread

chatVars == <<home, thread, view, allJobs, benchOpen, benchClosed, byHand>>
streamVars == <<source, cursor, seqRef>>
benchVars == <<detail, loads, streamVars, faults, orderly>>

NoDetail == [job |-> NoJob]

BenchTypeOK ==
    /\ home \in [Jobs -> Threads] /\ thread \in Threads /\ view \in {"chat", "work"}
    /\ allJobs \in [Jobs -> Kinds \cup {NoRow}]
    /\ {benchOpen, benchClosed, orderly, byHand} \subseteq BOOLEAN
    /\ detail \in Snapshots \cup {NoDetail}
    /\ loads \in Seq(Snapshots) /\ Len(loads) <= MaxLoads
    /\ source \in {"off", "open", "broken", "ended"}
    /\ cursor \in 0..MaxRows /\ seqRef \in 0..MaxRows /\ faults \in 0..MaxFaults

BenchInit ==
    /\ thread = CHOOSE t \in Threads : TRUE
    /\ home \in [Jobs -> Threads] /\ home[1] = thread /\ view = "chat"
    /\ allJobs = [j \in Jobs |-> NoRow]
    /\ benchOpen = FALSE /\ benchClosed = FALSE /\ byHand = FALSE
    /\ detail = NoDetail /\ loads = <<>> /\ source = "off"
    /\ cursor = 0 /\ seqRef = 0 /\ faults = 0 /\ orderly = TRUE

ThreadJobs(list, t) == {j \in Jobs : list[j] # NoRow /\ home[j] = t}

Newest(js) == CHOOSE j \in js : \A k \in js : k <= j

(* The list is newest first: a live job, a waiting one, or the newest. *)
pickActiveJob(list, js) ==
    LET live == {j \in js : list[j] = "live"}
        waiting == {j \in js : list[j] = WAITING_APPROVAL}
    IN  CASE live # {} -> Newest(live)
          [] live = {} /\ waiting # {} -> Newest(waiting)
          [] OTHER -> Newest(js)

\* Mutant: a live job of the conversation hides one that waits.
dominantJobStateLive(list, t) ==
    LET has(kind) == \E j \in ThreadJobs(list, t) : list[j] = kind
    IN  CASE has("live") -> "live"
          [] ~has("live") /\ has(WAITING_APPROVAL) -> WAITING_APPROVAL
          [] OTHER -> NoRow

(* The work state that the row of a conversation leads with in the sidebar. *)
(* (A job that was paused or cancelled shows nothing there; the kinds do   *)
(* not tell it from a blocked or a completed one.)                         *)
dominantJobState(list, t) ==
    LET has(kind) == \E j \in ThreadJobs(list, t) : list[j] = kind
        order == <<WAITING_APPROVAL, "live", "still", FAILED, "over", NoRow>>
    IN  SelectSeq(order, LAMBDA kind : kind = NoRow \/ has(kind))[1]

(* The job whose JobBench is mounted. *)
Shown == LET js == ThreadJobs(allJobs, thread)
         IN  IF view = "chat" /\ benchOpen /\ js # {} THEN pickActiveJob(allJobs, js)
                                                      ELSE NoJob

Streaming(d) == d # NoDetail /\ d.state \notin Terminal

(* What a snapshot offers the owner, on the bench and in the panel. *)
CardShown(d) == d # NoDetail /\ d.card
Stoppable(d) == d # NoDetail /\ d.state = "live"
Retriable(d) == d # NoDetail /\ d.state \in {FAILED, "still"}

(* load(): asked now, as the server answers now.  Bound: with MaxLoads on   *)
(* their way, the oldest is lost.                                          *)
Asked(queue, j) ==
    LET q == Append(queue, Snapshot(j)) IN IF Len(q) > MaxLoads THEN Tail(q) ELSE q
Load(j) == /\ loads' = Asked(loads, j)
           /\ orderly' = (orderly /\ Len(loads) < MaxLoads)

(* The bench follows the job it is given: another job starts with nothing  *)
(* on screen, no stream, and one load.                                     *)
FollowShown ==
    IF Shown' = Shown
    THEN UNCHANGED benchVars
    ELSE /\ detail' = NoDetail /\ source' = "off" /\ cursor' = 0 /\ seqRef' = 0
         /\ IF Shown' = NoJob
            THEN loads' = <<>> /\ orderly' = TRUE
            ELSE /\ loads' = Asked(IF Shown = NoJob THEN <<>> ELSE loads, Shown')
                 /\ orderly' = (Shown = NoJob \/ loads = <<>>)
         /\ UNCHANGED faults

\* Mutant: new work opens the bench whatever the owner closed.
BenchEffectsEager ==
    LET had == ThreadJobs(allJobs, thread)
        has == ThreadJobs(allJobs', thread')
        moved == thread' # thread
        recount == Cardinality(has) # Cardinality(had)
    IN  /\ benchClosed' = (benchClosed /\ ~moved)
        /\ byHand' = (byHand /\ ~moved)
        /\ benchOpen' = IF recount THEN has # {} ELSE benchOpen /\ ~moved

(* The two effects of a commit: a change of thread closes the bench and    *)
(* forgets the hand; a change of the number of its jobs may open it.       *)
BenchEffects ==
    LET had == ThreadJobs(allJobs, thread)
        has == ThreadJobs(allJobs', thread')
        moved == thread' # thread
        recount == Cardinality(has) # Cardinality(had)
    IN  /\ benchClosed' = (benchClosed /\ ~moved)
        /\ byHand' = (byHand /\ ~moved)
        /\ benchOpen' = IF recount /\ has # {} /\ ~benchClosed' THEN TRUE
                        ELSE IF moved \/ (recount /\ has = {}) THEN FALSE
                        ELSE benchOpen

(* useAllJobs, every four seconds. *)
PollJobs ==
    /\ allJobs' = state
    /\ UNCHANGED <<home, thread, view>>
    /\ BenchEffects /\ FollowShown

SelectThread(t) ==
    /\ t # thread /\ thread' = t /\ view' = "chat"
    /\ UNCHANGED <<home, allJobs>>
    /\ BenchEffects /\ FollowShown

CloseBench ==
    /\ Shown # NoJob
    /\ benchOpen' = FALSE /\ benchClosed' = TRUE /\ byHand' = TRUE
    /\ UNCHANGED <<home, thread, view, allJobs>> /\ FollowShown

OpenBench ==
    /\ view = "chat" /\ ~benchOpen /\ ThreadJobs(allJobs, thread) # {}
    /\ benchOpen' = TRUE /\ benchClosed' = FALSE /\ byHand' = FALSE
    /\ UNCHANGED <<home, thread, view, allJobs>> /\ FollowShown

(* setDetail: nothing ties an answer to the job the bench shows now.  The  *)
(* stream is opened or closed when the snapshot changes "streaming".       *)
LoadAnswered(i) ==
    /\ i \in DOMAIN loads /\ (i = 1 \/ faults < MaxFaults)
    /\ LET d == loads[i] IN
        /\ detail' = d /\ loads' = RemoveAt(loads, i)
        /\ seqRef' = d.rows
        /\ IF Streaming(d) = Streaming(detail)
           THEN UNCHANGED <<source, cursor>>
           ELSE /\ source' = IF Streaming(d) THEN "open" ELSE "off"
                /\ cursor' = IF Streaming(d) THEN d.rows ELSE 0
    /\ orderly' = (orderly /\ i = 1)
    /\ faults' = IF i = 1 THEN faults ELSE faults + 1
    /\ UNCHANGED chatVars

LoadLost(i) ==
    /\ i \in DOMAIN loads /\ faults < MaxFaults
    /\ loads' = RemoveAt(loads, i)
    /\ faults' = faults + 1 /\ orderly' = FALSE
    /\ UNCHANGED <<chatVars, detail, streamVars>>

\* Mutant: the stream counts rows that are not in the ledger.
StreamRowAhead ==
    /\ source = "open"
    /\ cursor' = cursor + 1 /\ seqRef' = cursor + 1
    /\ Load(Shown)
    /\ UNCHANGED <<chatVars, detail, source, faults>>

(* One row of the ledger, and one load for it. *)
StreamRow ==
    /\ source = "open" /\ cursor < rows[Shown]
    /\ cursor' = cursor + 1 /\ seqRef' = cursor + 1
    /\ Load(Shown)
    /\ UNCHANGED <<chatVars, detail, source, faults>>

(* end_of_stream: terminal and drained. *)
StreamEnd ==
    /\ source = "open" /\ cursor >= rows[Shown] /\ state[Shown] \in Terminal
    /\ source' = "ended" /\ Load(Shown)
    /\ UNCHANGED <<chatVars, detail, cursor, seqRef, faults>>

StreamBreaks ==
    /\ source = "open" /\ faults < MaxFaults
    /\ source' = "broken" /\ faults' = faults + 1
    /\ UNCHANGED <<chatVars, detail, loads, cursor, seqRef, orderly>>

\* Mutant: the timer is cleared, and no stream is opened again.
ReconnectCleared ==
    /\ source = "broken" /\ source' = "off"
    /\ UNCHANGED <<chatVars, detail, loads, cursor, seqRef, faults, orderly>>

(* The timer of 2500 ms. *)
Reconnect ==
    /\ source = "broken" /\ source' = "open" /\ cursor' = seqRef
    /\ UNCHANGED <<chatVars, detail, loads, seqRef, faults, orderly>>

OnBench == Shown # NoJob /\ detail # NoDetail

(* decide: the job of the bench and the approval of the snapshot, refused   *)
(* (404) when they do not belong together; a load either way.              *)
BenchDecides ==
    /\ OnBench /\ CardShown(detail) /\ Len(loads) < MaxLoads
    /\ UNCHANGED chatVars
    /\ IF detail.job = Shown THEN PostDecision(Shown) ELSE UNCHANGED ledgerVars
    /\ loads' = Append(loads, SnapshotAfter(Shown))
    /\ UNCHANGED <<detail, streamVars, faults, orderly>>

(* act: Stop on a live snapshot, Retry on a failed or blocked one. *)
BenchActs ==
    /\ OnBench /\ Len(loads) < MaxLoads
    /\ UNCHANGED chatVars
    /\ \/ Stoppable(detail) /\ Post(detail.job, CANCELLED)
       \/ Retriable(detail) /\ Post(detail.job, RETRYING)
    /\ loads' = Append(loads, SnapshotAfter(Shown))
    /\ UNCHANGED <<detail, streamVars, faults, orderly>>
=============================================================================
