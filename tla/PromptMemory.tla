---------------------------- MODULE PromptMemory ----------------------------
(***************************************************************************)
(* Procedural memory: the file that reflections rewrite, its version       *)
(* ledger, the prompt built from it, and the heartbeat that reflects on    *)
(* settled conversations (src/server/src/saaya/reflection, heartbeat).     *)
(* Writing the file and recording it are two steps of one synchronous      *)
(* stretch: only the death of the process falls between them.              *)
(***************************************************************************)
EXTENDS Integers, SequencesExt

CONSTANTS
    MaxTexts,     \* texts that reflections propose
    MaxRuns,      \* requested reflections and rollbacks under way at once
    MaxThreads,   \* conversations, numbered in the order of their ids
    MaxActivity,  \* turns of each
    PerRun        \* THREADS_PER_RUN

ASSUME MemoryBounds == {MaxTexts, MaxRuns, MaxThreads, MaxActivity, PerRun} \subseteq Nat \ {0}

VARIABLES
    file,       \* how-i-work.md, as the number of its text
    ledger,     \* the text in the snapshot of every version
    minted,     \* texts proposed so far
    runs,       \* reflections and rollbacks under way
    prompt,     \* the text in the prompt of the agent
    torn,       \* history: the process died between a write and its record
    outdated,   \* history: a rebuild failed and none has succeeded since
    active,     \* turns of a conversation (last_activity_at)
    quiet,      \* conversations quiet for long enough
    reflected,  \* last_reflected_at, as the number of turns
    read,       \* history: turns in the last transcript that was reflected on
    beat        \* conversations left in this heartbeat, with the turns it saw

fileVars == <<file, ledger, minted, runs, prompt, torn, outdated>>
beatVars == <<active, quiet, reflected, read, beat>>
memoryVars == <<fileVars, beatVars>>

Conversations == 1..MaxThreads
Run == [by : {"heartbeat", "request", "rollback"},
        at : {"proposing", "recording", "rebuilding", "looked"}]

MemoryTypeOK ==
    /\ file \in 0..MaxTexts /\ ledger \in Seq(0..MaxTexts) /\ minted \in 0..MaxTexts
    /\ runs \in Seq(Run) /\ Len(runs) <= MaxRuns + 1 /\ prompt \in 0..MaxTexts
    /\ torn \in BOOLEAN /\ outdated \in BOOLEAN
    /\ {active, reflected, read} \subseteq [Conversations -> 0..MaxActivity]
    /\ quiet \subseteq Conversations
    /\ beat \in Seq([thread : Conversations, seen : 1..MaxActivity])

(* The seeded file; nothing is recorded before the first reflection. *)
MemoryInit ==
    /\ file = 0 /\ ledger = <<>> /\ minted = 0 /\ runs = <<>> /\ prompt = 0
    /\ torn = FALSE /\ outdated = FALSE
    /\ active = [t \in Conversations |-> 0] /\ quiet = {}
    /\ reflected = active /\ read = active /\ beat = <<>>

(* No step of the server falls into a synchronous stretch. *)
Whole == \A i \in DOMAIN runs : runs[i].at # "recording"

Put(i, step) == runs' = [runs EXCEPT ![i].at = step]

ByBeat(r) == r.by = "heartbeat"
Beating == \E i \in DOMAIN runs : ByBeat(runs[i])

(* Bound: MaxRuns beside the heartbeat's. *)
Room == Cardinality({i \in DOMAIN runs : ~ByBeat(runs[i])}) < MaxRuns

(* What comes after a run: the heartbeat's goes on to mark its thread. *)
Done(i) == IF ByBeat(runs[i]) THEN Put(i, "looked") ELSE runs' = RemoveAt(runs, i)

\* Mutant: the first reflection records no baseline.
ReflectUnbased(by) ==
    /\ Whole /\ runs' = Append(runs, [by |-> by, at |-> "proposing"])
    /\ UNCHANGED <<ledger, file, minted, prompt, torn, outdated>>

(* ReflectionRunner.run up to the proposer: a baseline, then the file is    *)
(* read.                                                                   *)
Reflect(by) ==
    /\ Whole /\ runs' = Append(runs, [by |-> by, at |-> "proposing"])
    /\ ledger' = IF ledger = <<>> THEN <<file>> ELSE ledger
    /\ UNCHANGED <<file, minted, prompt, torn, outdated>>

(* POST /api/reflection/run. *)
ReflectOnRequest == Room /\ Reflect("request") /\ UNCHANGED beatVars

\* Mutant: a heartbeat marks a thread only when its reflection was applied.
KeepFileUnmarked(i) ==
    /\ Whole /\ runs[i].at = "proposing" /\ runs' = RemoveAt(runs, i)
    /\ beat' = IF ByBeat(runs[i]) THEN Tail(beat) ELSE beat
    /\ UNCHANGED <<file, ledger, minted, prompt, torn, outdated, active, quiet,
                   reflected, read>>

(* Nothing proposed, nothing changed, or a rule broken. *)
KeepFile(i) ==
    /\ Whole /\ runs[i].at = "proposing" /\ Done(i)
    /\ UNCHANGED <<file, ledger, minted, prompt, torn, outdated, beatVars>>

(* The proposal replaces the file, whatever it holds by now. *)
WriteFile(i) ==
    /\ Whole /\ runs[i].at = "proposing" /\ minted < MaxTexts
    /\ file' = minted + 1 /\ minted' = minted + 1
    /\ Put(i, "recording")
    /\ UNCHANGED <<ledger, prompt, torn, outdated, beatVars>>

(* rollback_to: the snapshot's file comes back. *)
RestoreFile(v) ==
    /\ Whole /\ Room /\ v \in DOMAIN ledger
    /\ file' = ledger[v]
    /\ runs' = Append(runs, [by |-> "rollback", at |-> "recording"])
    /\ UNCHANGED <<ledger, minted, prompt, torn, outdated, beatVars>>

\* Mutant: a change of the file does not rebuild the agent.
RecordOnly(i) ==
    /\ runs[i].at = "recording"
    /\ ledger' = Append(ledger, file) /\ Done(i)
    /\ UNCHANGED <<file, minted, prompt, torn, outdated, beatVars>>

(* VersionLedger.record: the next version holds a snapshot of the file. *)
Record(i) ==
    /\ runs[i].at = "recording"
    /\ ledger' = Append(ledger, file) /\ Put(i, "rebuilding")
    /\ UNCHANGED <<file, minted, prompt, torn, outdated, beatVars>>

(* rebuild_agent: the prompt is compiled from the file when the query of   *)
(* the active tools has been answered.                                     *)
RebuildPrompt(i) ==
    /\ Whole /\ runs[i].at = "rebuilding" /\ Done(i)
    /\ prompt' = file /\ outdated' = FALSE
    /\ UNCHANGED <<file, ledger, minted, torn, beatVars>>

(* An exception: of the proposer, or of the rebuild.  A heartbeat ends with *)
(* it.                                                                     *)
RunFails(i) ==
    /\ Whole /\ runs[i].at \in {"proposing", "rebuilding"}
    /\ runs' = RemoveAt(runs, i)
    /\ outdated' = (outdated \/ runs[i].at = "rebuilding")
    /\ beat' = IF ByBeat(runs[i]) THEN <<>> ELSE beat
    /\ UNCHANGED <<file, ledger, minted, prompt, torn, active, quiet, reflected, read>>

(* The process dies and is started again. *)
RestartMemory ==
    /\ torn' = (torn \/ ~Whole) /\ runs' = <<>> /\ beat' = <<>>
    /\ prompt' = file /\ outdated' = FALSE
    /\ UNCHANGED <<file, ledger, minted, active, quiet, reflected, read>>

-----------------------------------------------------------------------------
(* mark_active: a turn of the conversation, over before it counts as quiet. *)
Turn(t) ==
    /\ Whole /\ active[t] < MaxActivity
    /\ active' = [active EXCEPT ![t] = @ + 1] /\ quiet' = quiet \ {t}
    /\ UNCHANGED <<fileVars, reflected, read, beat>>

GoQuiet(t) ==
    /\ t \notin quiet /\ active[t] > 0 /\ quiet' = quiet \cup {t}
    /\ UNCHANGED <<fileVars, active, reflected, read, beat>>

Worthy == {t \in quiet : reflected[t] < active[t]}

\* Mutant: the tick remembers last_reflected_at instead of last_activity_at.
BeatStartsBehind ==
    /\ Whole /\ beat = <<>> /\ Worthy # {}
    /\ \E order \in SetToSeqs(Worthy) :
        /\ \A i, k \in DOMAIN order : i < k => order[i] < order[k]
        /\ beat' = [i \in 1..(IF Len(order) < PerRun THEN Len(order) ELSE PerRun) |->
                        [thread |-> order[i], seen |-> reflected[order[i]]]]
    /\ UNCHANGED <<fileVars, active, quiet, reflected, read>>

(* tick: the first threads, in the order of their ids, as they are now. *)
BeatStarts ==
    /\ Whole /\ beat = <<>> /\ Worthy # {}
    /\ \E order \in SetToSeqs(Worthy) :
        /\ \A i, k \in DOMAIN order : i < k => order[i] < order[k]
        /\ beat' = [i \in 1..(IF Len(order) < PerRun THEN Len(order) ELSE PerRun) |->
                        [thread |-> order[i], seen |-> active[order[i]]]]
    /\ UNCHANGED <<fileVars, active, quiet, reflected, read>>

(* reflect_thread reads the transcript as it is by now. *)
BeatReflects ==
    /\ beat # <<>> /\ ~Beating /\ Reflect("heartbeat")
    /\ LET t == Head(beat).thread IN read' = [read EXCEPT ![t] = active[t]]
    /\ UNCHANGED <<active, quiet, reflected, beat>>

\* Mutant: the mark is the activity of the moment, not what the tick saw.
BeatMarksNow(i) ==
    /\ Whole /\ runs[i].at = "looked"
    /\ reflected' = [reflected EXCEPT ![Head(beat).thread] = active[Head(beat).thread]]
    /\ beat' = Tail(beat) /\ runs' = RemoveAt(runs, i)
    /\ UNCHANGED <<file, ledger, minted, prompt, torn, outdated, active, quiet, read>>

(* mark_reflected: what the tick saw when it started. *)
BeatMarks(i) ==
    /\ Whole /\ runs[i].at = "looked"
    /\ reflected' = [reflected EXCEPT ![Head(beat).thread] = Head(beat).seen]
    /\ beat' = Tail(beat) /\ runs' = RemoveAt(runs, i)
    /\ UNCHANGED <<file, ledger, minted, prompt, torn, outdated, active, quiet, read>>

MemoryRunStep(i) ==
    KeepFile(i) \/ WriteFile(i) \/ Record(i) \/ RebuildPrompt(i) \/ BeatMarks(i)

-----------------------------------------------------------------------------
(* "Every change reversible" (memory-panel.tsx): a text that leaves the    *)
(* file is in the snapshot of some version, also when reflections and      *)
(* rollbacks overlap, unless the process once died between a write and its *)
(* record.                                                                 *)
NothingLost ==
    [][file' # file /\ ~torn => \E v \in DOMAIN ledger : ledger[v] = file]_memoryVars

(* Once every reflection and rollback is through, conversations run on the *)
(* file as it is, whichever of them rebuilt the agent last, unless a       *)
(* rebuild failed.                                                         *)
PromptIsCurrent == runs = <<>> /\ ~outdated => prompt = file

(* "Activity arriving during the reflection stays unseen" (activity.py):   *)
(* no turn counts as reflected on that was in no transcript.               *)
NothingUnread == \A t \in Conversations : reflected[t] <= read[t]

(* A conversation that stays quiet is looked at, although a heartbeat takes *)
(* a few threads only and a failing one ends it.                           *)
SettledIsReflected ==
    \A t \in Conversations : t \in Worthy ~> t \notin Worthy
=============================================================================
