---------------------------- MODULE HeartbeatList ----------------------------
(***************************************************************************)
(* The Heartbeats section of the Memory panel (memory-panel.tsx,           *)
(* heartbeat-row.tsx) over the run rows that the heartbeat records         *)
(* (heartbeat/runner.py).  A row is told by its index, which is its        *)
(* started_at; the panel reads the rows when it mounts and after every     *)
(* change of the owner's.                                                  *)
(***************************************************************************)
EXTENDS Integers, Sequences, FiniteSets

CONSTANTS
    MaxBeats,     \* rows
    ThreadsPerRun \* THREADS_PER_RUN

ASSUME BeatsAssumption == MaxBeats \in Nat /\ ThreadsPerRun \in Nat \ {0}

VARIABLES
    beats,       \* the rows, with whether the run changed the memory
    beating,     \* a run is under way: the last row's
    outcomes,   \* its outcomes so far
    heartbeats,  \* the rows on screen
    reads,       \* answers on their way
    seenLatest,  \* seenLatestRun, 0 for null
    atMount      \* history: the rows there were when the panel was opened
beatListVars == <<beats, beating, outcomes, heartbeats, reads, seenLatest, atMount>>

Outcomes == {"applied", "rejected", "skipped"}
Beat == [outcome : {"running", "completed", "failed"}, detail : SUBSET Outcomes,
         changed : BOOLEAN]

BeatListTypeOK ==
    /\ beats \in Seq(Beat) /\ Len(beats) <= MaxBeats
    /\ beating \in BOOLEAN
    /\ outcomes \in Seq(Outcomes) /\ Len(outcomes) <= ThreadsPerRun
    /\ heartbeats \in Seq(Beat) /\ reads \subseteq Seq(Beat)
    /\ {seenLatest, atMount} \subseteq 0..MaxBeats

BeatListInit ==
    /\ beats = <<>> /\ beating = FALSE /\ outcomes = <<>>
    /\ heartbeats = <<>> /\ reads = {beats} /\ seenLatest = 0 /\ atMount = 0

shownBeats == <<heartbeats, reads, seenLatest, atMount>>

(* _record_start. *)
RecordStart ==
    /\ ~beating /\ beating' = TRUE /\ Len(beats) < MaxBeats
    /\ beats' = Append(beats, [outcome |-> "running", detail |-> {}, changed |-> FALSE])
    /\ UNCHANGED <<outcomes, shownBeats>>

(* One settled thread, outcomes on and marked. *)
ThreadReflected(o) ==
    /\ beating /\ Len(outcomes) < ThreadsPerRun /\ outcomes' = Append(outcomes, o)
    /\ beats' = [beats EXCEPT ![Len(beats)].changed = @ \/ o = "applied"]
    /\ UNCHANGED <<beating, shownBeats>>

(* _record_finish; what a failed run had done is not in its detail. *)
RecordFinish(outcome) ==
    /\ beating /\ (outcome = "completed" => outcomes # <<>>)
    /\ beats' = [beats EXCEPT ![Len(beats)].outcome = outcome,
                              ![Len(beats)].detail =
                                  IF outcome = "failed" THEN {}
                                  ELSE {outcomes[i] : i \in DOMAIN outcomes}]
    /\ beating' = FALSE /\ outcomes' = <<>> /\ UNCHANGED shownBeats

(* The row of a run whose process dies stays as it is. *)
HeartbeatDies ==
    /\ beating /\ beating' = FALSE /\ outcomes' = <<>>
    /\ UNCHANGED <<beats, shownBeats>>

(* load, after a change of the owner's.  Bound: two answers on their way. *)
ReadBeats ==
    /\ Cardinality(reads) < 2 /\ reads' = reads \cup {beats}
    /\ UNCHANGED <<beats, beating, outcomes, heartbeats, seenLatest, atMount>>

\* Mutant: the list is taken to begin with the oldest run.
BeatsArriveOldest(l) ==
    /\ l \in reads /\ reads' = reads \ {l} /\ heartbeats' = l
    /\ seenLatest' = IF seenLatest = 0 /\ l # <<>> THEN 1 ELSE seenLatest
    /\ UNCHANGED <<beats, beating, outcomes, atMount>>

(* The newest run of the first answer that has one is remembered. *)
BeatsArrive(l) ==
    /\ l \in reads /\ reads' = reads \ {l} /\ heartbeats' = l
    /\ seenLatest' = IF seenLatest = 0 THEN Len(l) ELSE seenLatest
    /\ UNCHANGED <<beats, beating, outcomes, atMount>>

BeatsLost(l) ==
    /\ l \in reads /\ reads' = reads \ {l} /\ heartbeats' = <<>>
    /\ UNCHANGED <<beats, beating, outcomes, seenLatest, atMount>>

ReopenBeats ==
    /\ heartbeats' = <<>> /\ reads' = {beats} /\ seenLatest' = 0 /\ atMount' = Len(beats)
    /\ UNCHANGED <<beats, beating, outcomes>>

BeatListNext ==
    \/ RecordStart \/ HeartbeatDies \/ ReadBeats \/ ReopenBeats
    \/ \E o \in Outcomes : ThreadReflected(o)
    \/ \E o \in {"completed", "failed"} : RecordFinish(o)
    \/ \E l \in reads : BeatsArrive(l) \/ BeatsLost(l)

-----------------------------------------------------------------------------
heartbeatOutcomeSentence(run) ==
    CASE run.outcome = "failed" -> "failed"
      [] run.outcome # "failed" /\ "applied" \in run.detail -> "updated"
      [] run.outcome # "failed" /\ "applied" \notin run.detail
            /\ "rejected" \in run.detail -> "turned away"
      [] OTHER -> "nothing to change"

HeartbeatRow(i) ==
    [sentence |-> heartbeatOutcomeSentence(heartbeats[i]),
     justArrived |-> seenLatest # 0 /\ i > seenLatest]

(* The newest first in the code; here in the order of the rows. *)
HeartbeatsSection == [i \in DOMAIN heartbeats |-> HeartbeatRow(i)]

(* Of a run that ended, the panel says that the memory was updated exactly *)
(* when it was, or that the run failed; and no run is shown as just        *)
(* arrived that was there when the panel was opened, whatever answers were *)
(* lost or overtook each other.                                            *)
BeatsAreTold ==
    \A i \in DOMAIN heartbeats :
        /\ heartbeats[i].outcome = "completed" =>
            (HeartbeatsSection[i].sentence = "updated" <=> heartbeats[i].changed)
        /\ HeartbeatsSection[i].justArrived => i > atMount
=============================================================================
