------------------------- MODULE MemoryPanel_proofs -------------------------
(***************************************************************************)
(* Procedural memory and the Memory panel: what every step of them keeps.  *)
(***************************************************************************)
EXTENDS MemoryPanel, Removal_proofs, FiniteSetTheorems

(* The steps of the runs and of the heartbeat. *)
FileStep ==
    \/ ReflectOnRequest \/ BeatReflects \/ BeatStarts \/ RestartMemory
    \/ \E i \in DOMAIN runs : MemoryRunStep(i) \/ RunFails(i)
    \/ \E v \in DOMAIN ledger : RestoreFile(v)
    \/ \E t \in Conversations : Turn(t) \/ GoQuiet(t)

(* The bound on the runs is left out. *)
MemoryShape ==
    /\ ledger \in Seq(Nat) /\ file \in Nat /\ minted \in Nat /\ runs \in Seq(Run)
    /\ active \in [Conversations -> Nat] /\ reflected \in [Conversations -> Nat]
    /\ read \in [Conversations -> Nat] /\ quiet \subseteq Conversations
    /\ beat \in Seq([thread : Conversations, seen : Nat])

(* One heartbeat at a time, and only its run is followed by a mark. *)
OneBeat == \A i, j \in DOMAIN runs : ByBeat(runs[i]) /\ ByBeat(runs[j]) => i = j
LookedIsBeat == \A i \in DOMAIN runs : runs[i].at = "looked" => ByBeat(runs[i])

(* The thread it reflects on was read at least as far as the tick saw it. *)
BeatHasRead == Beating => Len(beat) > 0 /\ Head(beat).seen <= read[Head(beat).thread]
SeenIsPast == \A k \in DOMAIN beat : beat[k].seen <= active[beat[k].thread]
ReadIsPast == \A t \in Conversations : reflected[t] <= read[t] /\ read[t] <= active[t]

(* A prompt that is behind the file has a rebuild before it. *)
Rebuilding == \E i \in DOMAIN runs : runs[i].at \in {"recording", "rebuilding"}
PromptFollows == ~outdated => prompt = file \/ Rebuilding

(* The file is in a snapshot, or about to be. *)
Baseline == runs # <<>> => ledger # <<>>
InLedger == \E v \in DOMAIN ledger : ledger[v] = file
Snapshot == ~torn /\ ledger # <<>> => InLedger \/ ~Whole

BeatInv == OneBeat /\ LookedIsBeat /\ BeatHasRead /\ SeenIsPast /\ ReadIsPast
FileInv == PromptFollows /\ Baseline /\ Snapshot
RunsInv == MemoryShape /\ BeatInv /\ FileInv

(* What the panel shows was listed: the versions there were, and the text  *)
(* of the chosen one.                                                      *)
OnlyListed ==
    /\ overview.version \in Int /\ overview.version <= Len(ledger)
    /\ \A o \in overviews : o.version \in Int /\ o.version <= Len(ledger)
    /\ preview \in [version : Nat, text : Int]
    /\ preview.text # -1 => preview.version \in DOMAIN ledger
                            /\ ledger[preview.version] = preview.text
    /\ preview # NoPreview => preview.version \in DOMAIN ledger

(* Of a thing that was corrected one step at a time there is one wording,  *)
(* or the two of the correction that is not linked yet.                    *)
OneOrLinking ==
    \/ hasty
    \/ corrections = {} /\ \E w \in Wordings : LiveWordings \subseteq {w}
    \/ \E old, new \in Wordings :
        corrections = {[old |-> old, new |-> new]} /\ LiveWordings \subseteq {old, new}

PanelInv == RunsInv /\ OnlyListed /\ OneOrLinking

-----------------------------------------------------------------------------
(* The steps by what they do to the runs: one comes, goes on, or ends and   *)
(* the others are renumbered.                                              *)
Comes(r) ==
    /\ runs' \in Seq(Run) /\ DOMAIN runs' = DOMAIN runs \cup {Len(runs) + 1}
    /\ Len(runs) + 1 \notin DOMAIN runs /\ runs'[Len(runs) + 1] = r
    /\ \A k \in DOMAIN runs : runs'[k] = runs[k]
Goes(i, step) ==
    /\ runs' \in Seq(Run) /\ DOMAIN runs' = DOMAIN runs
    /\ runs'[i].at = step /\ runs'[i].by = runs[i].by
    /\ \A k \in DOMAIN runs \ {i} : runs'[k] = runs[k]
Ends(i, was) == runs' \in Seq(Run) /\ Rest(runs', runs, i, was)

LEMMA Came ==
    ASSUME MemoryShape, NEW r \in Run, runs' = Append(runs, r)
    PROVE  Comes(r)
  BY Appended DEF MemoryShape, Comes

LEMMA Went ==
    ASSUME MemoryShape, NEW i \in DOMAIN runs,
           NEW step \in {"recording", "rebuilding", "looked"}, Put(i, step)
    PROVE  Goes(i, step)
<1>1. Len(runs) \in Nat /\ DOMAIN runs = 1..Len(runs) /\ runs \in [1..Len(runs) -> Run]
  BY LenProperties DEF MemoryShape
<1>2. [runs[i] EXCEPT !.at = step] \in Run
  BY <1>1 DEF Run
<1>3. runs' = [runs EXCEPT ![i] = [runs[i] EXCEPT !.at = step]]
  BY DEF Put
<1>4. runs' \in [1..Len(runs) -> Run]
  BY <1>1, <1>2, <1>3
<1>5. runs' \in Seq(Run)
  BY <1>1, <1>4, SeqDef
<1>6. QED
  BY <1>1, <1>3, <1>4, <1>5 DEF Goes, Run

LEMMA Ended ==
    ASSUME MemoryShape, NEW i \in DOMAIN runs, runs' = RemoveAt(runs, i)
    PROVE  \E was : Ends(i, was)
  BY RestOf DEF MemoryShape, Ends

LEMMA RunOf ==
    ASSUME MemoryShape, NEW i \in DOMAIN runs
    PROVE  runs[i] \in Run /\ runs # <<>>
<1>1. Len(runs) \in Nat /\ DOMAIN runs = 1..Len(runs) /\ runs \in [1..Len(runs) -> Run]
  BY LenProperties DEF MemoryShape
<1>2. QED
  BY <1>1

-----------------------------------------------------------------------------
(* The heartbeat, when only the runs change. *)

LEMMA ComingBeats ==
    ASSUME BeatInv, NEW r \in Run, Comes(r), ~ByBeat(r), r.at # "looked", UNCHANGED beatVars
    PROVE  BeatInv'
<1>1. OneBeat' /\ LookedIsBeat'
  BY DEF BeatInv, OneBeat, LookedIsBeat, Comes, ByBeat
<1>2. Beating' => Beating
  BY DEF Beating, Comes, ByBeat
<1>3. QED
  BY <1>1, <1>2 DEF BeatInv, BeatHasRead, SeenIsPast, ReadIsPast, beatVars

LEMMA GoingBeats ==
    ASSUME BeatInv, NEW i \in DOMAIN runs, NEW step, Goes(i, step),
           step = "looked" => ByBeat(runs[i]), UNCHANGED beatVars
    PROVE  BeatInv'
<1>1. OneBeat' /\ LookedIsBeat'
  BY DEF BeatInv, OneBeat, LookedIsBeat, Goes, ByBeat
<1>2. Beating' => Beating
  BY DEF Beating, Goes, ByBeat
<1>3. QED
  BY <1>1, <1>2 DEF BeatInv, BeatHasRead, SeenIsPast, ReadIsPast, beatVars

LEMMA EndingBeats ==
    ASSUME NEW i \in DOMAIN runs, NEW was, Ends(i, was)
    PROVE  /\ OneBeat => OneBeat'
           /\ LookedIsBeat => LookedIsBeat'
           /\ Beating' => Beating
           /\ OneBeat /\ ByBeat(runs[i]) => ~Beating'
<1>1. \A k \in DOMAIN runs' : /\ was[k] \in DOMAIN runs /\ was[k] # i
                              /\ runs'[k] = runs[was[k]]
  BY DEF Ends, Rest
<1>2. OneBeat => OneBeat'
  BY <1>1 DEF OneBeat, Ends, Rest, ByBeat
<1>3. LookedIsBeat => LookedIsBeat'
  BY <1>1 DEF LookedIsBeat, ByBeat
<1>4. Beating' => Beating
  BY <1>1 DEF Beating, ByBeat
<1>5. OneBeat /\ ByBeat(runs[i]) => ~Beating'
  BY <1>1 DEF OneBeat, Beating, ByBeat
<1>6. QED
  BY <1>2, <1>3, <1>4, <1>5

LEMMA EndingBeatsOn ==
    ASSUME BeatInv, NEW i \in DOMAIN runs, NEW was, Ends(i, was), UNCHANGED beatVars
    PROVE  BeatInv'
<1>1. OneBeat' /\ LookedIsBeat' /\ (Beating' => Beating)
  BY EndingBeats DEF BeatInv
<1>2. QED
  BY <1>1 DEF BeatInv, BeatHasRead, SeenIsPast, ReadIsPast, beatVars

(* The file, when a run that writes or records nothing goes on or ends. *)
LEMMA OtherRunsRebuild ==
    ASSUME NEW i \in DOMAIN runs,
           (\E step : Goes(i, step)) \/ (\E was : Ends(i, was)),
           runs[i].at \notin {"recording", "rebuilding"}
    PROVE  Rebuilding => Rebuilding'
<1> SUFFICES ASSUME NEW j \in DOMAIN runs, runs[j].at \in {"recording", "rebuilding"}
             PROVE  Rebuilding'
  BY DEF Rebuilding
<1>1. j # i
  OBVIOUS
<1>2. CASE \E step : Goes(i, step)
  BY <1>1, <1>2 DEF Goes, Rebuilding
<1>3. CASE \E was : Ends(i, was)
  <2>1. PICK was : Ends(i, was)
    BY <1>3
  <2>2. PICK k \in DOMAIN runs' : was[k] = j /\ runs'[k] = runs[j]
    BY <1>1, <2>1 DEF Ends, Rest
  <2>3. QED
    BY <2>2 DEF Rebuilding
<1>4. QED
  BY <1>2, <1>3

LEMMA StillSnapshot ==
    ASSUME Snapshot, Whole, UNCHANGED <<file, ledger, torn>>
    PROVE  Snapshot'
  BY DEF Snapshot, InLedger

-----------------------------------------------------------------------------
(* Every step keeps all of it. *)

(* Done(i): the run of the heartbeat goes on to its mark, another ends. *)
LEMMA DoneKeeps ==
    ASSUME RunsInv, NEW i \in DOMAIN runs, Done(i), UNCHANGED beatVars
    PROVE  /\ runs' \in Seq(Run) /\ BeatInv'
           /\ (\E step : Goes(i, step)) \/ (\E was : Ends(i, was))
<1>1. CASE ByBeat(runs[i])
  <2>1. Goes(i, "looked")
    BY <1>1, Went DEF Done, RunsInv
  <2>2. BeatInv'
    BY <1>1, <2>1, GoingBeats DEF RunsInv
  <2>3. QED
    BY <2>1, <2>2 DEF Goes
<1>2. CASE ~ByBeat(runs[i])
  <2>1. PICK was : Ends(i, was)
    BY <1>2, Ended DEF Done, RunsInv
  <2>2. BeatInv'
    BY <2>1, EndingBeatsOn DEF RunsInv
  <2>3. QED
    BY <2>1, <2>2 DEF Ends
<1>3. QED
  BY <1>1, <1>2

LEMMA KeepFileKeeps ==
    ASSUME RunsInv, NEW i \in DOMAIN runs, KeepFile(i)
    PROVE  RunsInv'
<1>1. /\ runs' \in Seq(Run) /\ BeatInv'
      /\ (\E step : Goes(i, step)) \/ (\E was : Ends(i, was))
  BY DoneKeeps DEF KeepFile
<1>2. Rebuilding => Rebuilding'
  BY <1>1, OtherRunsRebuild DEF KeepFile
<1>3. MemoryShape'
  BY <1>1 DEF KeepFile, beatVars, RunsInv, MemoryShape
<1>4. PromptFollows'
  BY <1>2 DEF KeepFile, RunsInv, FileInv, PromptFollows
<1>5. Baseline'
  BY RunOf DEF KeepFile, RunsInv, FileInv, Baseline
<1>6. Snapshot'
  BY StillSnapshot DEF KeepFile, RunsInv, FileInv
<1>7. QED
  BY <1>1, <1>3, <1>4, <1>5, <1>6 DEF RunsInv, FileInv

LEMMA WriteFileKeeps ==
    ASSUME RunsInv, NEW i \in DOMAIN runs, WriteFile(i)
    PROVE  RunsInv'
<1>1. Goes(i, "recording")
  BY Went DEF WriteFile, RunsInv
<1>2. BeatInv'
  BY <1>1, GoingBeats DEF WriteFile, RunsInv
<1>3. MemoryShape'
  BY <1>1 DEF WriteFile, beatVars, RunsInv, MemoryShape, Goes
<1>4. Rebuilding' /\ ~Whole'
  BY <1>1 DEF Goes, Rebuilding, Whole
<1>5. Baseline'
  BY RunOf DEF WriteFile, RunsInv, FileInv, Baseline
<1>6. QED
  BY <1>2, <1>3, <1>4, <1>5 DEF RunsInv, FileInv, PromptFollows, Snapshot

(* The next version holds the file. *)
LEMMA RecordedLast ==
    ASSUME MemoryShape, ledger' = Append(ledger, file), UNCHANGED file
    PROVE  ledger' \in Seq(Nat) /\ InLedger' /\ ledger' # <<>>
<1>1. /\ ledger' \in Seq(Nat) /\ DOMAIN ledger' = DOMAIN ledger \cup {Len(ledger) + 1}
      /\ ledger'[Len(ledger) + 1] = file
  BY Appended DEF MemoryShape
<1>2. QED
  BY <1>1 DEF InLedger

LEMMA RecordKeeps ==
    ASSUME RunsInv, NEW i \in DOMAIN runs, Record(i)
    PROVE  RunsInv'
<1>1. Goes(i, "rebuilding")
  BY Went DEF Record, RunsInv
<1>2. BeatInv'
  BY <1>1, GoingBeats DEF Record, RunsInv
<1>3. ledger' \in Seq(Nat) /\ InLedger' /\ ledger' # <<>>
  BY RecordedLast DEF Record, RunsInv
<1>4. MemoryShape'
  BY <1>1, <1>3 DEF Record, beatVars, RunsInv, MemoryShape, Goes
<1>5. Rebuilding'
  BY <1>1 DEF Goes, Rebuilding
<1>6. QED
  BY <1>2, <1>3, <1>4, <1>5 DEF RunsInv, FileInv, PromptFollows, Baseline, Snapshot

LEMMA RebuildPromptKeeps ==
    ASSUME RunsInv, NEW i \in DOMAIN runs, RebuildPrompt(i)
    PROVE  RunsInv'
<1>1. runs' \in Seq(Run) /\ BeatInv'
  BY DoneKeeps DEF RebuildPrompt
<1>2. MemoryShape'
  BY <1>1 DEF RebuildPrompt, beatVars, RunsInv, MemoryShape
<1>3. PromptFollows'
  BY DEF RebuildPrompt, PromptFollows
<1>4. Baseline'
  BY RunOf DEF RebuildPrompt, RunsInv, FileInv, Baseline
<1>5. Snapshot'
  BY StillSnapshot DEF RebuildPrompt, RunsInv, FileInv
<1>6. QED
  BY <1>1, <1>2, <1>3, <1>4, <1>5 DEF RunsInv, FileInv

LEMMA RestoreFileKeeps ==
    ASSUME RunsInv, NEW v \in DOMAIN ledger, RestoreFile(v)
    PROVE  RunsInv'
<1> DEFINE r == [by |-> "rollback", at |-> "recording"]
<1>1. r \in Run /\ ~ByBeat(r) /\ r.at = "recording"
  BY DEF Run, ByBeat
<1>2. Comes(r)
  BY <1>1, Came DEF RestoreFile, RunsInv
<1> HIDE DEF r
<1>3. BeatInv'
  BY <1>1, <1>2, ComingBeats DEF RestoreFile, RunsInv
<1>4. file' \in Nat /\ ledger # <<>>
  <2>1. Len(ledger) \in Nat /\ DOMAIN ledger = 1..Len(ledger) /\ ledger \in [1..Len(ledger) -> Nat]
    BY LenProperties DEF RunsInv, MemoryShape
  <2>2. QED
    BY <2>1 DEF RestoreFile
<1>5. MemoryShape'
  BY <1>2, <1>4 DEF RestoreFile, beatVars, RunsInv, MemoryShape, Comes
<1>6. Rebuilding' /\ ~Whole'
  BY <1>1, <1>2 DEF Comes, Rebuilding, Whole
<1>7. QED
  BY <1>3, <1>4, <1>5, <1>6 DEF RestoreFile, RunsInv, FileInv, PromptFollows, Baseline, Snapshot

LEMMA ReflectKeepsFile ==
    ASSUME RunsInv, NEW by \in {"heartbeat", "request"}, Reflect(by)
    PROVE  /\ Comes([by |-> by, at |-> "proposing"])
           /\ ledger' \in Seq(Nat) /\ FileInv'
<1> DEFINE r == [by |-> by, at |-> "proposing"]
<1>1. r \in Run
  BY DEF Run
<1>2. Comes(r)
  BY <1>1, Came DEF Reflect, RunsInv
<1> HIDE DEF r
<1>3. ledger' \in Seq(Nat) /\ ledger' # <<>> /\ (ledger = <<>> => InLedger')
  <2>1. CASE ledger = <<>>
    <3>1. ledger' = <<file>> /\ file' = file
      BY <2>1 DEF Reflect
    <3>2. ledger' \in Seq(Nat) /\ ledger' # <<>> /\ 1 \in DOMAIN ledger' /\ ledger'[1] = file
      BY <3>1 DEF RunsInv, MemoryShape
    <3>3. QED
      BY <3>1, <3>2 DEF InLedger
  <2>2. CASE ledger # <<>>
    BY <2>2 DEF Reflect, RunsInv, MemoryShape
  <2>3. QED
    BY <2>1, <2>2
<1>4. Rebuilding => Rebuilding'
  BY <1>2 DEF Comes, Rebuilding
<1>5. PromptFollows'
  BY <1>4 DEF Reflect, RunsInv, FileInv, PromptFollows
<1>6. Snapshot'
  <2>1. CASE ledger = <<>>
    BY <1>3, <2>1 DEF Snapshot
  <2>2. CASE ledger # <<>>
    BY <2>2, StillSnapshot DEF Reflect, RunsInv, FileInv
  <2>3. QED
    BY <2>1, <2>2
<1>7. QED
  BY <1>2, <1>3, <1>5, <1>6 DEF r, FileInv, Baseline

LEMMA RequestKeeps ==
    ASSUME RunsInv, ReflectOnRequest
    PROVE  RunsInv'
<1> DEFINE r == [by |-> "request", at |-> "proposing"]
<1>1. r \in Run /\ ~ByBeat(r) /\ r.at # "looked"
  BY DEF Run, ByBeat
<1>2. Comes(r) /\ ledger' \in Seq(Nat) /\ FileInv'
  BY ReflectKeepsFile DEF ReflectOnRequest
<1> HIDE DEF r
<1>3. BeatInv'
  BY <1>1, <1>2, ComingBeats DEF ReflectOnRequest, RunsInv
<1>4. MemoryShape'
  BY <1>2 DEF ReflectOnRequest, Reflect, beatVars, RunsInv, MemoryShape, Comes
<1>5. QED
  BY <1>2, <1>3, <1>4 DEF RunsInv

(* The first of the conversations that are left, and the others. *)
LEMMA RestOfBeat ==
    ASSUME MemoryShape, Len(beat) > 0
    PROVE  /\ Head(beat) = beat[1] /\ 1 \in DOMAIN beat
           /\ Head(beat).thread \in Conversations /\ Head(beat).seen \in Nat
           /\ Tail(beat) \in Seq([thread : Conversations, seen : Nat])
           /\ \A k \in DOMAIN Tail(beat) : /\ k + 1 \in DOMAIN beat
                                           /\ Tail(beat)[k] = beat[k + 1]
<1>1. /\ beat \in Seq([thread : Conversations, seen : Nat]) /\ Len(beat) \in Nat
      /\ DOMAIN beat = 1..Len(beat)
      /\ beat \in [1..Len(beat) -> [thread : Conversations, seen : Nat]]
  BY LenProperties DEF MemoryShape
<1>2. Head(beat) = beat[1] /\ 1 \in DOMAIN beat
  BY <1>1
<1>3. Head(beat).thread \in Conversations /\ Head(beat).seen \in Nat
  BY <1>1, <1>2
<1>4. Tail(beat) \in Seq([thread : Conversations, seen : Nat])
  BY <1>1
<1>5. \A k \in DOMAIN Tail(beat) : k + 1 \in DOMAIN beat /\ Tail(beat)[k] = beat[k + 1]
  BY <1>1
<1>6. QED
  BY <1>2, <1>3, <1>4, <1>5

LEMMA BeatReflectsKeeps ==
    ASSUME RunsInv, BeatReflects
    PROVE  RunsInv'
<1> DEFINE r == [by |-> "heartbeat", at |-> "proposing"]
           t == Head(beat).thread
<1>1. r.by = "heartbeat" /\ r.at = "proposing"
  OBVIOUS
<1>2. Comes(r) /\ ledger' \in Seq(Nat) /\ FileInv'
  BY ReflectKeepsFile DEF BeatReflects
<1> HIDE DEF r
<1>3. Len(beat) > 0
  BY LenProperties, EmptySeq DEF BeatReflects, RunsInv, MemoryShape
<1>4. /\ t \in Conversations /\ Head(beat).seen \in Nat
      /\ Head(beat) = beat[1] /\ 1 \in DOMAIN beat
  BY <1>3, RestOfBeat DEF RunsInv
<1>5. beat[1].seen <= active[t]
  BY <1>4 DEF RunsInv, BeatInv, SeenIsPast
<1>6. read' = [read EXCEPT ![t] = active[t]] /\ UNCHANGED <<active, quiet, reflected, beat>>
  BY DEF BeatReflects
<1> HIDE DEF t
<1>7. /\ active \in [Conversations -> Nat] /\ reflected \in [Conversations -> Nat]
      /\ read \in [Conversations -> Nat]
  BY DEF RunsInv, MemoryShape
<1>8. read' \in [Conversations -> Nat] /\ read'[t] = active[t]
      /\ \A u \in Conversations : u # t => read'[u] = read[u]
  BY <1>4, <1>6, <1>7
<1>9. MemoryShape'
  BY <1>2, <1>6, <1>8 DEF BeatReflects, Reflect, RunsInv, MemoryShape, Comes
<1>10. OneBeat' /\ LookedIsBeat'
  BY <1>1, <1>2 DEF BeatReflects, Beating, RunsInv, BeatInv, OneBeat, LookedIsBeat, Comes, ByBeat
<1>11. BeatHasRead'
  BY <1>3, <1>4, <1>5, <1>6, <1>8 DEF BeatHasRead, t
<1>12. SeenIsPast'
  BY <1>6 DEF RunsInv, BeatInv, SeenIsPast
<1>13. ReadIsPast'
  <2> SUFFICES ASSUME NEW u \in Conversations PROVE reflected[u] <= read'[u] /\ read'[u] <= active[u]
    BY <1>6 DEF ReadIsPast
  <2>1. reflected[u] <= read[u] /\ read[u] <= active[u]
    BY DEF RunsInv, BeatInv, ReadIsPast
  <2>2. reflected[u] \in Nat /\ read[u] \in Nat /\ active[u] \in Nat
    BY <1>7
  <2>3. QED
    BY <1>8, <2>1, <2>2
<1>14. QED
  BY <1>2, <1>9, <1>10, <1>11, <1>12, <1>13 DEF RunsInv, BeatInv

LEMMA BeatMarksKeeps ==
    ASSUME RunsInv, NEW i \in DOMAIN runs, BeatMarks(i)
    PROVE  RunsInv'
<1> DEFINE t == Head(beat).thread
<1>1. ByBeat(runs[i]) /\ Beating
  BY DEF BeatMarks, RunsInv, BeatInv, LookedIsBeat, Beating
<1>2. Len(beat) > 0 /\ Head(beat).seen <= read[t]
  BY <1>1 DEF RunsInv, BeatInv, BeatHasRead
<1>3. /\ t \in Conversations /\ Head(beat).seen \in Nat
      /\ Tail(beat) \in Seq([thread : Conversations, seen : Nat])
      /\ \A k \in DOMAIN Tail(beat) : k + 1 \in DOMAIN beat /\ Tail(beat)[k] = beat[k + 1]
  BY <1>2, RestOfBeat DEF RunsInv
<1>4. PICK was : Ends(i, was)
  BY Ended DEF BeatMarks, RunsInv
<1>5. OneBeat' /\ LookedIsBeat' /\ ~Beating'
  BY <1>1, <1>4, EndingBeats DEF RunsInv, BeatInv
<1>6. reflected' = [reflected EXCEPT ![t] = Head(beat).seen] /\ beat' = Tail(beat)
      /\ UNCHANGED <<file, ledger, minted, prompt, torn, outdated, active, quiet, read>>
  BY DEF BeatMarks
<1> HIDE DEF t
<1>7. reflected' \in [Conversations -> Nat] /\ reflected'[t] = Head(beat).seen
      /\ \A u \in Conversations : u # t => reflected'[u] = reflected[u]
  BY <1>3, <1>6 DEF RunsInv, MemoryShape
<1>8. MemoryShape'
  BY <1>3, <1>4, <1>6, <1>7 DEF Ends, RunsInv, MemoryShape
<1>9. BeatHasRead' /\ SeenIsPast'
  BY <1>3, <1>5, <1>6 DEF BeatHasRead, RunsInv, BeatInv, SeenIsPast
<1>10. ReadIsPast'
  BY <1>2, <1>6, <1>7 DEF RunsInv, BeatInv, ReadIsPast
<1>11. Rebuilding => Rebuilding'
  BY <1>4, OtherRunsRebuild DEF BeatMarks
<1>12. PromptFollows' /\ Baseline' /\ Snapshot'
  BY <1>6, <1>11, RunOf, StillSnapshot
     DEF BeatMarks, RunsInv, FileInv, PromptFollows, Baseline
<1>13. QED
  BY <1>5, <1>8, <1>9, <1>10, <1>12 DEF RunsInv, BeatInv, FileInv

LEMMA RunFailsKeeps ==
    ASSUME RunsInv, NEW i \in DOMAIN runs, RunFails(i)
    PROVE  RunsInv'
<1>1. PICK was : Ends(i, was)
  BY Ended DEF RunFails, RunsInv
<1>2. OneBeat' /\ LookedIsBeat' /\ (Beating' => Beating) /\ (ByBeat(runs[i]) => ~Beating')
  BY <1>1, EndingBeats DEF RunsInv, BeatInv
<1>3. /\ beat' \in Seq([thread : Conversations, seen : Nat])
      /\ BeatHasRead' /\ SeenIsPast'
  <2>1. CASE ByBeat(runs[i])
    <3>1. beat' = <<>> /\ DOMAIN beat' = {}
      BY <2>1 DEF RunFails
    <3>2. QED
      BY <1>2, <2>1, <3>1 DEF BeatHasRead, SeenIsPast
  <2>2. CASE ~ByBeat(runs[i])
    BY <1>2, <2>2 DEF RunFails, RunsInv, MemoryShape, BeatInv, BeatHasRead, SeenIsPast
  <2>3. QED
    BY <2>1, <2>2
<1>4. ReadIsPast' /\ MemoryShape'
  BY <1>1, <1>3 DEF RunFails, Ends, RunsInv, BeatInv, ReadIsPast, MemoryShape
<1>5. PromptFollows'
  <2>1. CASE runs[i].at = "rebuilding"
    BY <2>1 DEF RunFails, PromptFollows
  <2>2. CASE runs[i].at # "rebuilding"
    <3>1. Rebuilding => Rebuilding'
      BY <1>1, <2>2, OtherRunsRebuild DEF RunFails
    <3>2. QED
      BY <3>1 DEF RunFails, RunsInv, FileInv, PromptFollows
  <2>3. QED
    BY <2>1, <2>2
<1>6. Baseline'
  BY RunOf DEF RunFails, RunsInv, FileInv, Baseline
<1>7. Snapshot'
  BY StillSnapshot DEF RunFails, RunsInv, FileInv
<1>8. QED
  BY <1>2, <1>3, <1>4, <1>5, <1>6, <1>7 DEF RunsInv, BeatInv, FileInv

LEMMA RestartMemoryKeeps ==
    ASSUME RunsInv, RestartMemory
    PROVE  RunsInv'
<1>1. runs' = <<>> /\ DOMAIN runs' = {} /\ beat' = <<>> /\ DOMAIN beat' = {}
  BY DEF RestartMemory
<1>2. MemoryShape'
  BY <1>1 DEF RestartMemory, RunsInv, MemoryShape
<1>3. BeatInv'
  BY <1>1 DEF RestartMemory, RunsInv, BeatInv, OneBeat, LookedIsBeat, BeatHasRead, Beating,
              SeenIsPast, ReadIsPast
<1>4. PromptFollows' /\ Baseline'
  BY <1>1 DEF RestartMemory, PromptFollows, Baseline
<1>5. Snapshot'
  BY DEF RestartMemory, RunsInv, FileInv, Snapshot, InLedger
<1>6. QED
  BY <1>2, <1>3, <1>4, <1>5 DEF RunsInv, FileInv

(* A step that leaves the file and the runs alone. *)
LEMMA FileRests ==
    ASSUME FileInv, UNCHANGED fileVars
    PROVE  FileInv'
  BY DEF fileVars, FileInv, PromptFollows, Rebuilding, Baseline, Snapshot, InLedger, Whole

LEMMA TurnKeeps ==
    ASSUME RunsInv, NEW t \in Conversations, Turn(t)
    PROVE  RunsInv'
<1>1. FileInv'
  BY FileRests DEF Turn, RunsInv
<1>2. /\ active \in [Conversations -> Nat] /\ reflected \in [Conversations -> Nat]
      /\ read \in [Conversations -> Nat]
      /\ active' = [active EXCEPT ![t] = @ + 1]
  BY DEF Turn, RunsInv, MemoryShape
<1>3. active' \in [Conversations -> Nat] /\ \A u \in Conversations : active[u] <= active'[u]
  BY <1>2
<1>4. MemoryShape'
  BY <1>3 DEF Turn, fileVars, RunsInv, MemoryShape
<1>5. ASSUME NEW k \in DOMAIN beat PROVE beat[k].seen <= active'[beat[k].thread]
  <2>1. beat[k] \in [thread : Conversations, seen : Nat]
    <3>1. beat \in Seq([thread : Conversations, seen : Nat])
      BY DEF RunsInv, MemoryShape
    <3>2. QED
      BY <3>1, LenProperties
  <2>2. beat[k].seen <= active[beat[k].thread]
    BY DEF RunsInv, BeatInv, SeenIsPast
  <2>3. QED
    BY <1>2, <1>3, <2>1, <2>2
<1>6. SeenIsPast'
  BY <1>5 DEF Turn, SeenIsPast
<1>7. ReadIsPast'
  <2> SUFFICES ASSUME NEW u \in Conversations PROVE reflected[u] <= read[u] /\ read[u] <= active'[u]
    BY DEF Turn, ReadIsPast
  <2>1. reflected[u] <= read[u] /\ read[u] <= active[u]
    BY DEF RunsInv, BeatInv, ReadIsPast
  <2>2. QED
    BY <1>2, <1>3, <2>1
<1>8. OneBeat' /\ LookedIsBeat' /\ BeatHasRead'
  BY DEF Turn, fileVars, RunsInv, BeatInv, OneBeat, LookedIsBeat, BeatHasRead, Beating, ByBeat
<1>9. QED
  BY <1>1, <1>4, <1>6, <1>7, <1>8 DEF RunsInv, BeatInv

LEMMA QuietKeeps ==
    ASSUME RunsInv, NEW t \in Conversations, GoQuiet(t)
    PROVE  RunsInv'
<1>1. FileInv'
  BY FileRests DEF GoQuiet, RunsInv
<1>2. MemoryShape'
  BY DEF GoQuiet, fileVars, RunsInv, MemoryShape
<1>3. BeatInv'
  BY DEF GoQuiet, fileVars, RunsInv, BeatInv, OneBeat, LookedIsBeat, BeatHasRead, SeenIsPast,
         ReadIsPast, Beating, ByBeat
<1>4. QED
  BY <1>1, <1>2, <1>3 DEF RunsInv

LEMMA BeatStartsKeeps ==
    ASSUME RunsInv, BeatStarts
    PROVE  RunsInv'
<1>1. FileInv'
  BY FileRests DEF BeatStarts, RunsInv
<1>2. PICK order \in SetToSeqs(Worthy) :
        beat' = [i \in 1..(IF Len(order) < PerRun THEN Len(order) ELSE PerRun) |->
                    [thread |-> order[i], seen |-> active[order[i]]]]
  BY DEF BeatStarts
<1>3. IsFiniteSet(Worthy) /\ Cardinality(Worthy) \in Nat /\ Worthy \subseteq Conversations
  <2>1. Worthy \subseteq 1..MaxThreads /\ MaxThreads \in Int
    <3>1. MaxThreads \in Nat \ {0}
      BY MemoryBounds
    <3>2. QED
      <4>1. Worthy \subseteq Conversations
        BY DEF RunsInv, MemoryShape, Worthy
      <4>2. QED
        BY <3>1, <4>1 DEF Conversations
  <2>2. IsFiniteSet(1..MaxThreads)
    BY <2>1, FS_Interval
  <2>3. IsFiniteSet(Worthy)
    BY <2>1, <2>2, FS_Subset
  <2>4. QED
    BY <2>1, <2>3, FS_CardinalityType DEF Conversations
<1>4. order \in [1..Cardinality(Worthy) -> Worthy] /\ Len(order) = Cardinality(Worthy)
  BY <1>3 DEF SetToSeqs
<1> DEFINE n == IF Len(order) < PerRun THEN Len(order) ELSE PerRun
<1>5. n \in Nat /\ n <= Len(order)
  <2>1. PerRun \in Nat
    BY MemoryBounds
  <2>2. QED
    BY <1>3, <1>4, <2>1
<1>6. \A k \in 1..n : order[k] \in Conversations /\ active[order[k]] \in Nat
  <2>1. active \in [Conversations -> Nat]
    BY DEF RunsInv, MemoryShape
  <2>2. QED
    BY <1>3, <1>4, <1>5, <2>1
<1> DEFINE seen(k) == [thread |-> order[k], seen |-> active[order[k]]]
<1>7. beat' = [k \in 1..n |-> seen(k)]
  BY <1>2
<1>8. MemoryShape' /\ SeenIsPast'
  <2> HIDE DEF n
  <2>1. \A k \in 1..n : seen(k) \in [thread : Conversations, seen : Nat]
    BY <1>6
  <2>2. beat' \in [1..n -> [thread : Conversations, seen : Nat]]
    BY <1>7, <2>1
  <2>3. beat' \in Seq([thread : Conversations, seen : Nat])
    BY <1>5, <2>2, SeqDef
  <2>4. MemoryShape'
    BY <2>3 DEF BeatStarts, fileVars, RunsInv, MemoryShape
  <2>5. ASSUME NEW k \in DOMAIN beat' PROVE beat'[k].seen <= active[beat'[k].thread]
    <3>1. k \in 1..n /\ beat'[k] = seen(k) /\ active[order[k]] \in Nat
      BY <1>6, <1>7
    <3>2. QED
      BY <3>1
  <2>6. QED
    BY <2>4, <2>5 DEF BeatStarts, SeenIsPast
<1>9. ~Beating
  <2>1. beat = <<>> /\ Len(beat) = 0
    BY DEF BeatStarts
  <2>2. QED
    BY <2>1 DEF RunsInv, BeatInv, BeatHasRead
<1>10. OneBeat' /\ LookedIsBeat' /\ BeatHasRead' /\ ReadIsPast'
  BY <1>9 DEF BeatStarts, fileVars, RunsInv, BeatInv, OneBeat, LookedIsBeat, BeatHasRead,
              ReadIsPast, Beating, ByBeat
<1>11. QED
  BY <1>1, <1>8, <1>10 DEF RunsInv, BeatInv

LEMMA RunsInit == MemoryInit => RunsInv
<1> SUFFICES ASSUME MemoryInit PROVE RunsInv
  OBVIOUS
<1>1. runs = <<>> /\ DOMAIN runs = {} /\ beat = <<>> /\ DOMAIN beat = {} /\ ledger = <<>>
  BY DEF MemoryInit
<1>2. MemoryShape
  BY <1>1 DEF MemoryInit, MemoryShape
<1>3. BeatInv
  BY <1>1 DEF MemoryInit, BeatInv, OneBeat, LookedIsBeat, BeatHasRead, Beating, SeenIsPast,
              ReadIsPast
<1>4. FileInv
  BY <1>1 DEF MemoryInit, FileInv, PromptFollows, Baseline, Snapshot
<1>5. QED
  BY <1>2, <1>3, <1>4 DEF RunsInv

LEMMA RunsKeep ==
    ASSUME RunsInv, FileStep \/ UNCHANGED memoryVars
    PROVE  RunsInv'
<1>1. CASE UNCHANGED memoryVars
  <2>1. FileInv'
    BY <1>1, FileRests DEF memoryVars, RunsInv
  <2>2. MemoryShape' /\ BeatInv'
    BY <1>1 DEF memoryVars, fileVars, beatVars, RunsInv, MemoryShape, BeatInv, OneBeat,
       LookedIsBeat, BeatHasRead, SeenIsPast, ReadIsPast, Beating, ByBeat
  <2>3. QED
    BY <2>1, <2>2 DEF RunsInv
<1>2. ASSUME NEW i \in DOMAIN runs, MemoryRunStep(i) \/ RunFails(i) PROVE RunsInv'
  BY <1>2, KeepFileKeeps, WriteFileKeeps, RecordKeeps, RebuildPromptKeeps, BeatMarksKeeps,
     RunFailsKeeps DEF MemoryRunStep
<1>3. QED
  BY <1>1, <1>2, RequestKeeps, BeatReflectsKeeps, BeatStartsKeeps, RestartMemoryKeeps,
     RestoreFileKeeps, TurnKeeps, QuietKeeps DEF FileStep

-----------------------------------------------------------------------------
(* The panel. *)

PanelStep ==
    \/ FileStep /\ UNCHANGED <<itemVars, memoryPanelVars>>
    \/ ConfirmRestore \/ PreviewArrives \/ ReopenMemory \/ MemoryServerRestarts \/ LinkCorrection
    \/ \E i \in DOMAIN runs : MemoryServes(i) \/ MemoryFails(i)
    \/ \E v \in DOMAIN ledger : OpenPreview(v)
    \/ \E o \in overviews : OverviewArrives(o) \/ OverviewLost(o)
    \/ \E w \in Wordings : ItemRow(w)

LEMMA PanelMovesFile == PanelStep => FileStep \/ UNCHANGED memoryVars
<1>1. ConfirmRestore => FileStep
  BY DEF ConfirmRestore, RestoreFile, FileStep
<1>2. ASSUME NEW w, ItemRow(w) PROVE UNCHANGED memoryVars
  BY <1>2 DEF ItemRow, Forget, forgetMemory, Correct, supersedeMemory
<1>3. QED
  BY <1>1, <1>2 DEF PanelStep, FileStep, PreviewArrives, ReopenMemory, MemoryServerRestarts,
     LinkCorrection, MemoryServes, MemoryFails, OpenPreview, OverviewArrives, OverviewLost

(* Versions are only added. *)
LedgerGrows ==
    /\ Len(ledger) \in Nat /\ Len(ledger') \in Nat /\ Len(ledger) <= Len(ledger')
    /\ \A v \in DOMAIN ledger : v \in DOMAIN ledger' /\ ledger'[v] = ledger[v]

LEMMA Grows ==
    ASSUME RunsInv, FileStep \/ UNCHANGED memoryVars
    PROVE  LedgerGrows
<1>1. ledger \in Seq(Nat) /\ file \in Nat
  BY DEF RunsInv, MemoryShape
<1>2. \/ ledger' = ledger \/ ledger' = Append(ledger, file)
      \/ ledger = <<>> /\ ledger' = <<file>>
  BY DEF FileStep, memoryVars, fileVars, ReflectOnRequest, Reflect, BeatReflects, BeatStarts,
     RestartMemory, MemoryRunStep, KeepFile, WriteFile, Record, RebuildPrompt, BeatMarks,
     RunFails, RestoreFile, Turn, GoQuiet
<1>3. CASE ledger' = ledger
  BY <1>1, <1>3, LenProperties DEF LedgerGrows
<1>4. CASE ledger' = Append(ledger, file)
  <2>1. /\ ledger' \in Seq(Nat) /\ Len(ledger') = Len(ledger) + 1
        /\ DOMAIN ledger' = DOMAIN ledger \cup {Len(ledger) + 1}
        /\ \A v \in DOMAIN ledger : ledger'[v] = ledger[v]
    BY <1>1, <1>4, Appended
  <2>2. Len(ledger) \in Nat
    BY <1>1, LenProperties
  <2>3. QED
    BY <2>1, <2>2 DEF LedgerGrows
<1>5. CASE ledger = <<>> /\ ledger' = <<file>>
  BY <1>5 DEF LedgerGrows
<1>6. QED
  BY <1>2, <1>3, <1>4, <1>5

(* Listings show the versions there are; answers that arrive were listed.   *)
LEMMA ListedStays ==
    ASSUME RunsInv, OnlyListed, LedgerGrows,
           overview' \in {overview, NoOverview} \/ overview' \in overviews,
           \A o \in overviews' : o \in overviews \/ o = Overview \/ o = Overview',
           preview' \in {preview, NoPreview}
    PROVE  OnlyListed'
<1>1. Len(ledger) \in Nat /\ Len(ledger') \in Nat /\ Len(ledger) <= Len(ledger')
  BY DEF LedgerGrows
<1>2. overview'.version \in Int /\ overview'.version <= Len(ledger')
  BY <1>1 DEF OnlyListed, NoOverview
<1>3. ASSUME NEW o \in overviews' PROVE o.version \in Int /\ o.version <= Len(ledger')
  BY <1>1, <1>3 DEF OnlyListed, Overview
<1>4. preview'.text # -1 => /\ preview'.version \in DOMAIN ledger'
                            /\ ledger'[preview'.version] = preview'.text
  BY DEF OnlyListed, LedgerGrows, NoPreview
<1>5. preview' # NoPreview => preview'.version \in DOMAIN ledger'
  BY DEF OnlyListed, LedgerGrows, NoPreview
<1>6. preview' \in [version : Nat, text : Int]
  BY DEF OnlyListed, NoPreview
<1>7. QED
  BY <1>2, <1>3, <1>4, <1>5, <1>6 DEF OnlyListed

LEMMA LoadLists ==
    ASSUME LoadOverview
    PROVE  \A o \in overviews' : o \in overviews \/ o = Overview \/ o = Overview'
  BY DEF LoadOverview

LEMMA ListedKeeps ==
    ASSUME RunsInv, OnlyListed, PanelStep \/ UNCHANGED <<memoryVars, memoryPanelVars>>
    PROVE  OnlyListed'
<1>1. LedgerGrows
  BY PanelMovesFile, Grows
<1>2. CASE UNCHANGED memoryPanelVars
  BY <1>1, <1>2, ListedStays DEF memoryPanelVars
<1>3. CASE ConfirmRestore
  BY <1>1, <1>3, ListedStays DEF ConfirmRestore
<1>4. CASE PreviewArrives
  <2>1. /\ preview.version \in DOMAIN ledger /\ ledger' = ledger
        /\ preview' = [preview EXCEPT !.text = ledger[preview.version]]
        /\ overview' = overview /\ overviews' = overviews
    BY <1>4 DEF PreviewArrives, fetchVersionContent, OnlyListed, memoryVars, fileVars
  <2>2. /\ preview'.version = preview.version /\ preview'.text = ledger[preview.version]
        /\ preview' \in [version : Nat, text : Int]
    <3>1. ledger[preview.version] \in Nat
      BY <2>1, LenProperties DEF RunsInv, MemoryShape
    <3>2. QED
      BY <2>1, <3>1 DEF OnlyListed
  <2>3. QED
    BY <2>1, <2>2 DEF OnlyListed
<1>5. CASE ReopenMemory
  BY <1>1, <1>5, ListedStays DEF ReopenMemory
<1>6. CASE MemoryServerRestarts
  BY <1>1, <1>6, ListedStays DEF MemoryServerRestarts
<1>7. CASE LinkCorrection \/ \E w \in Wordings : Forget(w)
  <2>1. UNCHANGED <<overview, preview>> /\ ChangeAnswered
    BY <1>7 DEF LinkCorrection, Forget, forgetMemory
  <2>2. CASE LoadOverview
    BY <1>1, <1>7, <2>1, <2>2, ListedStays, LoadLists
  <2>3. CASE UNCHANGED overviews
    BY <1>1, <1>7, <2>1, <2>3, ListedStays
  <2>4. QED
    BY <2>1, <2>2, <2>3 DEF ChangeAnswered
<1>8. ASSUME NEW w, Correct(w) PROVE OnlyListed'
  BY <1>2, <1>8 DEF Correct, supersedeMemory
<1>9. ASSUME NEW i, MemoryServes(i) PROVE OnlyListed'
  BY <1>1, <1>9, ListedStays, LoadLists DEF MemoryServes
<1>10. ASSUME NEW i, MemoryFails(i) PROVE OnlyListed'
  BY <1>1, <1>10, ListedStays DEF MemoryFails
<1>11. ASSUME NEW v, OpenPreview(v) PROVE OnlyListed'
  <2>1. /\ v \in 1..(overview.version - 1) /\ overview.version <= Len(ledger)
        /\ overview.version \in Int /\ Len(ledger) \in Nat
    BY <1>1, <1>11 DEF OpenPreview, Restorable, OnlyListed, LedgerGrows
  <2>2. v \in DOMAIN ledger
    <3>1. v \in 1..Len(ledger)
      BY <2>1
    <3>2. QED
      BY <3>1, LenProperties DEF RunsInv, MemoryShape
  <2>3. v \in Nat
    BY <2>1
  <2>4. QED
    BY <1>11, <2>2, <2>3 DEF OpenPreview, OnlyListed, memoryVars, fileVars
<1>12. ASSUME NEW o \in overviews, OverviewArrives(o) \/ OverviewLost(o) PROVE OnlyListed'
  BY <1>1, <1>12, ListedStays DEF OverviewArrives, OverviewLost
<1>13. QED
  BY <1>2, <1>3, <1>4, <1>5, <1>6, <1>7, <1>8, <1>9, <1>10, <1>11, <1>12
     DEF PanelStep, ItemRow, memoryPanelVars

LEMMA LinkingKeeps ==
    ASSUME OneOrLinking, wording \in [Wordings -> {"none", "live", "gone"}],
           PanelStep \/ UNCHANGED itemVars
    PROVE  OneOrLinking' /\ wording' \in [Wordings -> {"none", "live", "gone"}]
<1>1. CASE UNCHANGED itemVars
  BY <1>1 DEF itemVars, OneOrLinking, LiveWordings
<1>2. CASE MemoryServerRestarts
  BY <1>2 DEF MemoryServerRestarts, OneOrLinking, LiveWordings
<1>3. ASSUME NEW w \in Wordings, Forget(w)
      PROVE  OneOrLinking' /\ wording' \in [Wordings -> {"none", "live", "gone"}]
  <2>1. LiveWordings' \subseteq LiveWordings
    BY <1>3 DEF Forget, forgetMemory, LiveWordings
  <2>2. QED
    BY <1>3, <2>1 DEF Forget, forgetMemory, ActsOn, OneOrLinking
<1>4. ASSUME NEW w \in Wordings, Correct(w)
      PROVE  OneOrLinking' /\ wording' \in [Wordings -> {"none", "live", "gone"}]
  <2>1. PICK new \in Wordings :
            /\ wording' = [wording EXCEPT ![new] = "live"]
            /\ corrections' = corrections \cup {[old |-> w, new |-> new]}
    BY <1>4 DEF Correct, supersedeMemory
  <2>2. LiveWordings' \subseteq LiveWordings \cup {new}
    BY <2>1 DEF LiveWordings
  <2>3. CASE hasty'
    BY <2>1, <2>3 DEF OneOrLinking
  <2>4. CASE ~hasty'
    <3>1. ~hasty /\ w \in LiveWordings /\ corrections = {}
      BY <1>4, <2>4 DEF Correct, supersedeMemory, ActsOn, Listed
    <3>2. LiveWordings \subseteq {w}
      BY <3>1 DEF OneOrLinking
    <3>3. corrections' = {[old |-> w, new |-> new]} /\ LiveWordings' \subseteq {w, new}
      BY <2>1, <2>2, <3>1, <3>2
    <3>4. QED
      BY <2>1, <3>3 DEF OneOrLinking
  <2>5. QED
    BY <2>3, <2>4
<1>5. CASE LinkCorrection
  <2>1. PICK c \in corrections :
            /\ corrections' = corrections \ {c} /\ wording' = [wording EXCEPT ![c.old] = "gone"]
            /\ hasty' = hasty
    BY <1>5 DEF LinkCorrection
  <2>2. LiveWordings' \subseteq LiveWordings \ {c.old}
    BY <2>1 DEF LiveWordings
  <2>3. CASE hasty
    BY <2>1, <2>3 DEF OneOrLinking
  <2>4. CASE ~hasty
    <3>1. PICK old \in Wordings, new \in Wordings :
            corrections = {[old |-> old, new |-> new]} /\ LiveWordings \subseteq {old, new}
      BY <2>1, <2>4 DEF OneOrLinking
    <3>2. corrections' = {} /\ LiveWordings' \subseteq {new}
      BY <2>1, <2>2, <3>1
    <3>3. QED
      BY <2>1, <3>1, <3>2 DEF OneOrLinking
  <2>5. QED
    BY <2>3, <2>4
<1>6. ASSUME PanelStep
      PROVE  \/ UNCHANGED itemVars \/ MemoryServerRestarts \/ LinkCorrection
             \/ \E w \in Wordings : Forget(w) \/ Correct(w)
  BY <1>6 DEF PanelStep, itemVars, ConfirmRestore, PreviewArrives, ReopenMemory, MemoryServes,
     MemoryFails, OpenPreview, OverviewArrives, OverviewLost, ItemRow
<1>7. QED
  BY <1>1, <1>2, <1>3, <1>4, <1>5, <1>6

-----------------------------------------------------------------------------
MemoryInv ==
    /\ RunsInv /\ OnlyListed /\ OneOrLinking
    /\ wording \in [Wordings -> {"none", "live", "gone"}]

LEMMA MemoryInitInv == MemoryInit /\ MemoryPanelInit => MemoryInv
<1> SUFFICES ASSUME MemoryInit, MemoryPanelInit PROVE MemoryInv
  OBVIOUS
<1>1. RunsInv
  BY RunsInit
<1>2. OnlyListed
  <2>1. Len(ledger) = 0
    BY DEF MemoryInit
  <2>2. QED
    BY <2>1 DEF MemoryPanelInit, OnlyListed, Overview, NoOverview, NoPreview
<1>3. wording \in [Wordings -> {"none", "live", "gone"}] /\ LiveWordings \subseteq {1}
  BY DEF MemoryPanelInit, LiveWordings
<1>4. 1 \in Wordings
  BY WordingsAssumption DEF Wordings
<1>5. OneOrLinking
  BY <1>3, <1>4 DEF MemoryPanelInit, OneOrLinking
<1>6. QED
  BY <1>1, <1>2, <1>3, <1>5 DEF MemoryInv

LEMMA MemoryKeep ==
    ASSUME MemoryInv, PanelStep \/ UNCHANGED <<memoryVars, itemVars, memoryPanelVars>>
    PROVE  MemoryInv'
<1>1. RunsInv'
  BY RunsKeep, PanelMovesFile DEF MemoryInv
<1>2. OnlyListed'
  BY ListedKeeps DEF MemoryInv
<1>3. OneOrLinking' /\ wording' \in [Wordings -> {"none", "live", "gone"}]
  BY LinkingKeeps DEF MemoryInv
<1>4. QED
  BY <1>1, <1>2, <1>3 DEF MemoryInv

LEMMA CurrentOnceThrough == MemoryInv => PromptIsCurrent
  BY DEF MemoryInv, RunsInv, FileInv, PromptFollows, Rebuilding, PromptIsCurrent

LEMMA ReadBeforeMarked == MemoryInv => NothingUnread
<1> SUFFICES ASSUME MemoryInv, NEW t \in Conversations PROVE reflected[t] <= read[t]
  BY DEF NothingUnread
<1>1. QED
  BY DEF MemoryInv, RunsInv, BeatInv, ReadIsPast

LEMMA OneWordingLeft == MemoryInv => OneWording
<1> SUFFICES ASSUME MemoryInv, corrections = {}, ~hasty PROVE Cardinality(LiveWordings) <= 1
  BY DEF OneWording
<1>1. PICK w \in Wordings : LiveWordings \subseteq {w}
  BY DEF MemoryInv, OneOrLinking
<1>2. IsFiniteSet({w}) /\ Cardinality({w}) = 1
  BY FS_Singleton
<1>3. Cardinality(LiveWordings) <= Cardinality({w})
  BY <1>1, <1>2, FS_Subset
<1>4. QED
  BY <1>2, <1>3

LEMMA TextIsKept ==
    MemoryInv /\ (PanelStep \/ UNCHANGED <<memoryVars, itemVars, memoryPanelVars>>)
        => (file' # file /\ ~torn => \E v \in DOMAIN ledger : ledger[v] = file)
<1> SUFFICES ASSUME MemoryInv, FileStep, file' # file, ~torn
             PROVE  \E v \in DOMAIN ledger : ledger[v] = file
  BY PanelMovesFile DEF memoryVars, fileVars
<1>1. \/ \E i \in DOMAIN runs : WriteFile(i)
      \/ \E v \in DOMAIN ledger : RestoreFile(v)
  BY DEF FileStep, ReflectOnRequest, Reflect, BeatReflects, BeatStarts, RestartMemory,
     MemoryRunStep, KeepFile, Record, RebuildPrompt, BeatMarks, RunFails, Turn, GoQuiet, fileVars
<1>2. Whole /\ ledger # <<>>
  <2>1. CASE \E i \in DOMAIN runs : WriteFile(i)
    BY <2>1, RunOf DEF WriteFile, MemoryInv, RunsInv, FileInv, Baseline
  <2>2. CASE \E v \in DOMAIN ledger : RestoreFile(v)
    BY <2>2 DEF RestoreFile
  <2>3. QED
    BY <1>1, <2>1, <2>2
<1>3. QED
  BY <1>2 DEF MemoryInv, RunsInv, FileInv, Snapshot, InLedger

LEMMA RestoredText ==
    MemoryInv /\ PanelStep
        => (preview.text # -1 /\ preview' = NoPreview /\ memoryBusy' /\ ~memoryBusy
                => file' = preview.text)
<1> SUFFICES ASSUME MemoryInv, PanelStep, preview.text # -1, memoryBusy', ~memoryBusy
             PROVE  file' = preview.text
  OBVIOUS
<1>1. ConfirmRestore
  BY DEF PanelStep, memoryPanelVars, PreviewArrives, ReopenMemory, MemoryServerRestarts,
     LinkCorrection, MemoryServes, MemoryFails, OpenPreview, OverviewArrives, OverviewLost,
     ItemRow, Forget, forgetMemory, Correct, supersedeMemory
<1>2. QED
  BY <1>1 DEF ConfirmRestore, RestoreFile, MemoryInv, OnlyListed
=============================================================================
