--------------------------- MODULE WorkViews_proofs ---------------------------
(***************************************************************************)
(* Theorems about the workbench and the Work panel, for every number of    *)
(* jobs, ledger rows, threads, answers under way, faults and gestures.     *)
(***************************************************************************)
EXTENDS WorkViews, Removal_proofs, FiniteSetTheorems, WellFoundedInduction

-----------------------------------------------------------------------------
(* The hand that closed the bench. *)

(* What changes the bench: the effects of a commit, or the owner's hand. *)
BenchMoves ==
    \/ BenchEffects
    \/ benchOpen' = FALSE /\ benchClosed' = TRUE
    \/ benchOpen' = TRUE /\ byHand' = FALSE
    \/ UNCHANGED <<benchOpen, benchClosed, byHand>>

LEMMA HandMoves == [Next]_vars => BenchMoves
<1>1. UNCHANGED chatVars => BenchMoves
  BY DEF chatVars, BenchMoves
<1>2. Worker \/ OwnerAtPanel \/ PanelHears \/ UNCHANGED vars => UNCHANGED chatVars
  BY DEF Worker, OwnerAtPanel, PanelHears, vars
<1>3. OwnerAtBench => UNCHANGED chatVars
  BY DEF OwnerAtBench, BenchDecides, BenchActs
<1>4. OwnerNavigates => BenchMoves
  BY DEF OwnerNavigates, SelectThread, CloseBench, OpenBench, ToggleWork, BenchMoves
<1>5. BenchHears => PollJobs \/ UNCHANGED chatVars
  BY DEF BenchHears, StreamRow, StreamEnd, StreamBreaks, Reconnect, LoadAnswered, LoadLost
<1>6. PollJobs => BenchMoves
  BY DEF PollJobs, BenchMoves
<1>7. QED
  BY <1>1, <1>2, <1>3, <1>4, <1>5, <1>6 DEF Next

HandInv == byHand => benchClosed /\ ~benchOpen

LEMMA HandKeeps == HandInv /\ [Next]_vars => HandInv'
<1> SUFFICES ASSUME HandInv, BenchMoves PROVE HandInv'
  BY HandMoves
<1>1. CASE BenchEffects
  BY <1>1 DEF BenchEffects, HandInv
<1>2. CASE ~BenchEffects
  BY <1>2 DEF BenchMoves, HandInv
<1>3. QED
  BY <1>1, <1>2

(* chat-app.tsx: a bench that was closed by hand stays closed until the      *)
(* thread changes or a hand opens it, whatever jobs start and end meanwhile. *)
THEOREM ClosedStaysClosed == Spec => []CloseWins
<1>1. Init => HandInv
  BY DEF Init, BenchInit, HandInv
<1>2. HandInv => CloseWins
  BY DEF HandInv, CloseWins
<1>3. QED
  BY <1>1, <1>2, HandKeeps, PTL DEF Spec

-----------------------------------------------------------------------------
(* The panel. *)

LEMMA OpenedMoves ==
    [Next]_vars => opened' \in {opened, NoDetail} \/ openId = opened'.job
<1>1. Worker \/ OwnerAtBench \/ BenchHears \/ UNCHANGED vars => opened' = opened
  BY DEF Worker, OwnerAtBench, BenchHears, vars, panelVars
<1>2. OwnerNavigates => opened' \in {opened, NoDetail}
  BY DEF OwnerNavigates, ToggleWork, PanelFresh, panelVars
<1>3. OwnerAtPanel => opened' \in {opened, NoDetail}
  BY DEF OwnerAtPanel, Open, PanelDecides, PanelActs, Back
<1>4. PanelHears => opened' = opened \/ openId = opened'.job
  BY DEF PanelHears, PanelPoll, ActAnswered, PanelAnswered, PanelLost
<1>5. QED
  BY <1>1, <1>2, <1>3, <1>4 DEF Next

(* work-panel.tsx: whatever answers are under way when the owner goes back or *)
(* opens another job, the panel comes to show only the job opened last.      *)
THEOREM LateAnswersAreDropped == Spec => PanelShowsOpened
<1>1. [Next]_vars
        => (opened' # opened /\ opened' # NoDetail => openId = opened'.job)
  BY OpenedMoves
<1>2. [Next]_vars
        => [opened' # opened /\ opened' # NoDetail => openId = opened'.job]_vars
  BY <1>1
<1>3. QED
  BY <1>2, PTL DEF Spec, PanelShowsOpened

-----------------------------------------------------------------------------
(* The bench. *)

Answer == [job : Jobs, state : Kinds \cup {NoRow}, rows : Int, card : BOOLEAN]

LedgerInv == state \in [Jobs -> Kinds \cup {NoRow}] /\ rows \in [Jobs -> Int]

LEMMA MovedLedger ==
    ASSUME LedgerInv, NEW j, NEW from, NEW to \in States, Move(j, from, to)
    PROVE  LedgerInv'
<1>1. /\ state' = [state EXCEPT ![j] = Kind(to)] /\ rows' = [rows EXCEPT ![j] = @ + 1]
      /\ Kind(to) \in Kinds
  BY DEF Move, WriteRow, Kinds
<1>2. CASE j \in Jobs
  BY <1>1, <1>2 DEF LedgerInv
<1>3. CASE j \notin Jobs
  <2>1. state' = state /\ rows' = rows
    BY <1>1, <1>3 DEF LedgerInv
  <2>2. QED
    BY <2>1 DEF LedgerInv
<1>4. QED
  BY <1>2, <1>3

LEMMA PostedLedger ==
    ASSUME LedgerInv, NEW j, NEW to \in States, Post(j, to)
    PROVE  LedgerInv'
<1>1. CASE \E from \in States : Move(j, from, to)
  BY <1>1, MovedLedger
<1>2. CASE UNCHANGED <<state, rows>>
  BY <1>2 DEF LedgerInv
<1>3. QED
  BY <1>1, <1>2 DEF Post

LEMMA DecidedLedger ==
    ASSUME LedgerInv, NEW j, PostDecision(j)
    PROVE  LedgerInv'
  BY DEF LedgerInv, PostDecision, WriteRow, ledgerVars

LEMMA StateNames == {QUEUED, CANCELLED, RETRYING} \subseteq States
  BY DEF States, QUEUED, CANCELLED, RETRYING

LEMMA LedgerKeeps == LedgerInv /\ [Next]_vars => LedgerInv'
<1> SUFFICES ASSUME LedgerInv, [Next]_vars PROVE LedgerInv'
  OBVIOUS
<1>1. ASSUME UNCHANGED ledgerVars PROVE LedgerInv'
  BY <1>1 DEF ledgerVars, LedgerInv
<1>2. ASSUME NEW j \in Jobs, CreateJob(j) PROVE LedgerInv'
  BY <1>2, StateNames DEF CreateJob, WriteRow, LedgerInv, Kinds
<1>3. ASSUME NEW j \in Jobs, RunnerMoves(j) PROVE LedgerInv'
  BY <1>3, MovedLedger DEF RunnerMoves
<1>4. CASE OwnerNavigates \/ BenchHears \/ UNCHANGED vars
  BY <1>1, <1>4 DEF OwnerNavigates, BenchHears, vars
<1>5. CASE OwnerAtBench
  BY <1>1, <1>5, StateNames, PostedLedger, DecidedLedger DEF OwnerAtBench, BenchDecides, BenchActs
<1>6. CASE OwnerAtPanel
  BY <1>1, <1>6, StateNames, PostedLedger, DecidedLedger
     DEF OwnerAtPanel, Open, PanelDecides, PanelActs
<1>7. CASE PanelHears
  BY <1>1, <1>7 DEF PanelHears, PanelPoll, ActAnswered
<1>8. QED
  BY <1>2, <1>3, <1>4, <1>5, <1>6, <1>7 DEF Next, Worker

LEMMA LedgerStarts == Init => LedgerInv
<1> SUFFICES ASSUME Init PROVE LedgerInv
  OBVIOUS
<1>1. PICK first \in {NoRow, "live"} :
        /\ state = [j \in Jobs |-> IF j = 1 THEN first ELSE NoRow]
        /\ rows = [j \in Jobs |-> IF j = 1 /\ first # NoRow THEN 1 ELSE 0]
  BY DEF Init
<1>2. "live" \in Kinds
  <2>1. Kind(QUEUED) = "live"
    BY DEF Kind, QUEUED, PLANNING, RUNNING, RETRYING, COMPLETED, CANCELLED, DRAFT, PAUSED, BLOCKED
  <2>2. QED
    BY <2>1, StateNames DEF Kinds
<1>3. QED
  BY <1>1, <1>2 DEF LedgerInv

(* The job picked for the bench is one of those to pick from. *)
LEMMA NewestIsOne ==
    ASSUME NEW js \in SUBSET Jobs, js # {}
    PROVE  Newest(js) \in js
<1> DEFINE R == OpToRel(<, Nat)
           ages == {MaxJobs - j : j \in js}
<1>1. js \subseteq Nat /\ MaxJobs \in Nat /\ \A j \in js : j <= MaxJobs
  BY LedgerBounds DEF Jobs
<1>2. ages \subseteq Nat /\ ages # {}
  <2>1. \A j \in js : MaxJobs - j \in Nat
    BY <1>1
  <2>2. QED
    BY <2>1
<1>3. IsWellFoundedOn(R, Nat)
  BY NatLessThanWellFounded
<1>4. PICK a \in ages : \A b \in ages : ~(<<b, a>> \in R)
  BY <1>2, <1>3, WFMin
<1>5. \A b \in ages : ~(b < a)
  BY <1>2, <1>4 DEF OpToRel
<1>6. PICK n \in js : a = MaxJobs - n
  OBVIOUS
<1>7. ASSUME NEW k \in js PROVE k <= n
  <2>1. ~(MaxJobs - k < MaxJobs - n)
    BY <1>5, <1>6
  <2>2. QED
    BY <1>1, <2>1
<1>8. QED
  BY <1>7 DEF Newest

LEMMA PickedIsOne ==
    ASSUME NEW list, NEW js \in SUBSET Jobs, js # {}
    PROVE  pickActiveJob(list, js) \in js
<1> DEFINE live == {j \in js : list[j] = "live"}
           waiting == {j \in js : list[j] = WAITING_APPROVAL}
<1>1. live \in SUBSET Jobs /\ waiting \in SUBSET Jobs /\ live \subseteq js /\ waiting \subseteq js
  OBVIOUS
<1>2. CASE live # {}
  <2>1. Newest(live) \in live
    BY <1>1, <1>2, NewestIsOne
  <2>2. pickActiveJob(list, js) = Newest(live)
    BY <1>2 DEF pickActiveJob
  <2>3. QED
    BY <2>1, <2>2
<1>3. CASE live = {} /\ waiting # {}
  <2>1. Newest(waiting) \in waiting
    BY <1>1, <1>3, NewestIsOne
  <2>2. pickActiveJob(list, js) = Newest(waiting)
    BY <1>3 DEF pickActiveJob
  <2>3. QED
    BY <2>1, <2>2
<1>4. CASE live = {} /\ waiting = {}
  <2>1. pickActiveJob(list, js) = Newest(js)
    BY <1>4 DEF pickActiveJob
  <2>2. QED
    BY <2>1, NewestIsOne
<1>5. QED
  BY <1>2, <1>3, <1>4

LEMMA ShownIsJob == Shown \in Jobs \cup {NoJob}
<1>1. ThreadJobs(allJobs, thread) \in SUBSET Jobs
  BY DEF ThreadJobs
<1>2. QED
  BY <1>1, PickedIsOne DEF Shown

LEMMA ShownIsJobNext == (Shown \in Jobs \cup {NoJob})'
  BY ShownIsJob, PTL

LEMMA ShownKept == UNCHANGED chatVars => Shown' = Shown
  BY DEF chatVars, Shown, ThreadJobs, pickActiveJob

LEMMA SnapshotIsAnswer ==
    ASSUME LedgerInv, NEW j \in Jobs
    PROVE  Snapshot(j) \in Answer /\ Snapshot(j).job = j
  BY DEF LedgerInv, Snapshot, Answer

LEMMA SnapshotAfterIsAnswer ==
    ASSUME LedgerInv', NEW j \in Jobs
    PROVE  SnapshotAfter(j) \in Answer /\ SnapshotAfter(j).job = j
  BY DEF LedgerInv, SnapshotAfter, Answer

(* Without a job the bench has asked nothing and follows nothing; in order,   *)
(* what it shows and what it has asked for is of the job picked.              *)
AnswersFit ==
    /\ detail = NoDetail \/ detail.job = Shown
    /\ \A i \in DOMAIN loads : loads[i].job = Shown
BenchInv ==
    /\ loads \in Seq(Answer)
    /\ Shown = NoJob => loads = <<>> /\ source = "off"
    /\ orderly => AnswersFit

(* One more load; the oldest is lost when there are too many.                *)
LEMMA AskedOne ==
    ASSUME LedgerInv, NEW queue \in Seq(Answer), NEW j \in Jobs
    PROVE  /\ Asked(queue, j) \in Seq(Answer)
           /\ Len(queue) < MaxLoads =>
                \A i \in DOMAIN Asked(queue, j) :
                    Asked(queue, j)[i].job = j \/ \E k \in DOMAIN queue :
                                                    Asked(queue, j)[i] = queue[k]
<1> DEFINE q == Append(queue, Snapshot(j))
<1>1. /\ q \in Seq(Answer) /\ Len(q) = Len(queue) + 1
      /\ DOMAIN q = DOMAIN queue \cup {Len(queue) + 1}
      /\ q[Len(queue) + 1] = Snapshot(j) /\ \A k \in DOMAIN queue : q[k] = queue[k]
  BY SnapshotIsAnswer, Appended
<1>2. Len(queue) \in Nat /\ MaxLoads \in Nat
  BY BenchBounds, LenProperties
<1> HIDE DEF q
<1>3. CASE Len(q) > MaxLoads
  <2>1. q # <<>>
    BY <1>1, <1>2, EmptySeq
  <2>2. Tail(q) \in Seq(Answer)
    BY <1>1, <2>1, HeadTailProperties
  <2>3. Asked(queue, j) = Tail(q) /\ ~(Len(queue) < MaxLoads)
    BY <1>1, <1>2, <1>3 DEF Asked, q
  <2>4. QED
    BY <2>2, <2>3
<1>4. CASE ~(Len(q) > MaxLoads)
  <2>1. Asked(queue, j) = q
    BY <1>4 DEF Asked, q
  <2>2. \A i \in DOMAIN q : q[i].job = j \/ \E k \in DOMAIN queue : q[i] = queue[k]
    BY <1>1, SnapshotIsAnswer
  <2>3. QED
    BY <1>1, <2>1, <2>2
<1>5. QED
  BY <1>3, <1>4

LEMMA LoadedBench ==
    ASSUME LedgerInv, BenchInv, Shown # NoJob, Load(Shown), UNCHANGED <<chatVars, detail>>
    PROVE  BenchInv'
<1>1. Shown' = Shown /\ Shown \in Jobs
  BY ShownIsJob, ShownKept
<1>2. loads' = Asked(loads, Shown) /\ (orderly' => orderly /\ Len(loads) < MaxLoads)
  BY DEF Load
<1>3. loads' \in Seq(Answer)
  BY <1>1, <1>2, AskedOne DEF BenchInv
<1>4. ASSUME orderly' PROVE AnswersFit'
  <2>1. orderly /\ AnswersFit /\ Len(loads) < MaxLoads
    BY <1>2, <1>4 DEF BenchInv
  <2>2. \A i \in DOMAIN loads' :
            loads'[i].job = Shown \/ \E k \in DOMAIN loads : loads'[i] = loads[k]
    BY <1>1, <1>2, <2>1, AskedOne DEF BenchInv
  <2>3. QED
    BY <1>1, <2>1, <2>2 DEF AnswersFit
<1>5. QED
  BY <1>1, <1>3, <1>4 DEF BenchInv

(* The bench turns to the job picked now. *)
LEMMA FollowedBench ==
    ASSUME LedgerInv, BenchInv, FollowShown
    PROVE  BenchInv'
<1>1. CASE Shown' = Shown
  BY <1>1 DEF FollowShown, benchVars, streamVars, BenchInv, AnswersFit
<1>2. CASE Shown' # Shown /\ Shown' = NoJob
  <2>1. loads' = <<>> /\ loads' \in Seq(Answer) /\ DOMAIN loads' = {}
        /\ source' = "off" /\ detail' = NoDetail
    BY <1>2, EmptySeq DEF FollowShown
  <2>2. QED
    BY <2>1 DEF BenchInv, AnswersFit
<1>3. CASE Shown' # Shown /\ Shown' # NoJob
  <2> DEFINE queue == IF Shown = NoJob THEN <<>> ELSE loads
  <2>1. /\ detail' = NoDetail /\ loads' = Asked(queue, Shown')
        /\ orderly' => queue = <<>>
    BY <1>3 DEF FollowShown
  <2>2. queue \in Seq(Answer) /\ Shown' \in Jobs
    BY <1>3, EmptySeq, ShownIsJobNext DEF BenchInv
  <2> HIDE DEF queue
  <2>3. loads' \in Seq(Answer)
    BY <2>1, <2>2, AskedOne
  <2>4. ASSUME orderly' PROVE \A i \in DOMAIN loads' : loads'[i].job = Shown'
    <3>1. queue = <<>> /\ DOMAIN queue = {} /\ Len(queue) < MaxLoads
      BY <2>1, <2>4, BenchBounds, EmptySeq
    <3>2. QED
      BY <2>1, <2>2, <3>1, AskedOne
  <2>5. QED
    BY <1>3, <2>1, <2>3, <2>4 DEF BenchInv, AnswersFit
<1>4. QED
  BY <1>1, <1>2, <1>3

LEMMA HeardBench ==
    ASSUME LedgerInv, BenchInv, NEW i \in DOMAIN loads, LoadAnswered(i) \/ LoadLost(i)
    PROVE  BenchInv'
<1>1. Shown' = Shown /\ Shown # NoJob
  <2>1. loads # <<>>
    BY EmptySeq
  <2>2. QED
    BY <2>1, ShownKept DEF LoadAnswered, LoadLost, BenchInv
<1>2. loads' = RemoveAt(loads, i) /\ loads' \in Seq(Answer)
  BY RestOf DEF LoadAnswered, LoadLost, BenchInv
<1>3. PICK was : Rest(loads', loads, i, was)
  BY <1>2, RestOf DEF BenchInv
<1>4. ASSUME orderly' PROVE AnswersFit'
  <2>1. orderly /\ AnswersFit /\ detail' = loads[i]
    BY <1>4 DEF LoadAnswered, LoadLost, BenchInv
  <2>2. \A k \in DOMAIN loads' : \E l \in DOMAIN loads : loads'[k] = loads[l]
    BY <1>3 DEF Rest
  <2>3. QED
    BY <1>1, <2>1, <2>2 DEF AnswersFit
<1>5. QED
  BY <1>1, <1>2, <1>4 DEF BenchInv

(* A click asks at once, and the answer is of the job picked. *)
LEMMA ClickedBench ==
    ASSUME LedgerInv', BenchInv, Shown # NoJob, UNCHANGED <<chatVars, detail, source, orderly>>,
           loads' = Append(loads, SnapshotAfter(Shown))
    PROVE  BenchInv'
<1>1. Shown' = Shown /\ Shown \in Jobs
  BY ShownIsJob, ShownKept
<1>2. SnapshotAfter(Shown) \in Answer /\ SnapshotAfter(Shown).job = Shown
  BY <1>1, SnapshotAfterIsAnswer
<1>3. /\ loads' \in Seq(Answer)
      /\ \A k \in DOMAIN loads' : loads'[k].job = Shown
                                  \/ (k \in DOMAIN loads /\ loads'[k] = loads[k])
  BY <1>2, Appended DEF BenchInv
<1>4. QED
  BY <1>1, <1>3 DEF BenchInv, AnswersFit

LEMMA BenchKept ==
    ASSUME BenchInv, UNCHANGED <<chatVars, detail, loads, orderly>>, Shown = NoJob => source' = source
    PROVE  BenchInv'
  BY ShownKept DEF BenchInv, AnswersFit

LEMMA BenchKeeps == LedgerInv /\ BenchInv /\ [Next]_vars => BenchInv'
<1> SUFFICES ASSUME LedgerInv, LedgerInv', BenchInv, [Next]_vars PROVE BenchInv'
  BY LedgerKeeps
<1>1. CASE Worker \/ OwnerAtPanel \/ PanelHears \/ UNCHANGED vars
  <2>1. UNCHANGED <<chatVars, detail, loads, orderly, source>>
    BY <1>1 DEF Worker, OwnerAtPanel, PanelHears, vars, benchVars, streamVars
  <2>2. QED
    BY <2>1, BenchKept
<1>2. CASE OwnerNavigates
  BY <1>2, FollowedBench DEF OwnerNavigates, SelectThread, CloseBench, OpenBench, ToggleWork
<1>3. CASE OwnerAtBench
  <2>1. /\ Shown # NoJob /\ UNCHANGED <<chatVars, detail, source, orderly>>
        /\ loads' = Append(loads, SnapshotAfter(Shown))
    BY <1>3 DEF OwnerAtBench, BenchDecides, BenchActs, OnBench, streamVars
  <2>2. QED
    BY <2>1, ClickedBench
<1>4. CASE PollJobs
  BY <1>4, FollowedBench DEF PollJobs
<1>5. CASE StreamRow \/ StreamEnd
  <2>1. Shown # NoJob /\ Load(Shown) /\ UNCHANGED <<chatVars, detail>>
    BY <1>5 DEF StreamRow, StreamEnd, BenchInv
  <2>2. QED
    BY <2>1, LoadedBench
<1>6. CASE StreamBreaks \/ Reconnect
  <2>1. Shown # NoJob /\ UNCHANGED <<chatVars, detail, loads, orderly>>
    BY <1>6 DEF StreamBreaks, Reconnect, BenchInv
  <2>2. QED
    BY <2>1, BenchKept
<1>7. CASE \E i \in DOMAIN loads : LoadAnswered(i) \/ LoadLost(i)
  BY <1>7, HeardBench
<1>8. QED
  BY <1>1, <1>2, <1>3, <1>4, <1>5, <1>6, <1>7 DEF Next, BenchHears

LEMMA BenchStarts == Init => BenchInv
<1> SUFFICES ASSUME Init PROVE BenchInv
  OBVIOUS
<1>1. loads = <<>> /\ loads \in Seq(Answer) /\ DOMAIN loads = {}
      /\ source = "off" /\ detail = NoDetail
  BY EmptySeq DEF Init, BenchInit
<1>2. QED
  BY <1>1 DEF BenchInv, AnswersFit

(* workbench.tsx: the job on the bench, where its buttons point, is the job   *)
(* the page picked, for any number of jobs and of answers under way, as long  *)
(* as none was lost, overtaken or late when the job changed.                 *)
THEOREM BenchKeepsItsJob == Spec => []BenchShowsItsJob
<1>1. BenchInv => BenchShowsItsJob
  BY DEF BenchInv, AnswersFit, BenchShowsItsJob
<1>2. QED
  BY <1>1, LedgerStarts, LedgerKeeps, BenchStarts, BenchKeeps, PTL DEF Spec

-----------------------------------------------------------------------------
(* Types.  What a snapshot says is in range because its job exists, and a  *)
(* job that exists has a row: every job that a view names exists.          *)

Seen == [job : Existing, state : Kinds, rows : 1..MaxRows, card : BOOLEAN]

LedgerOK == LedgerTypeOK /\ \A j \in Existing : rows[j] >= 1
ChatOK ==
    /\ home \in [Jobs -> Threads] /\ thread \in Threads /\ view \in {"chat", "work"}
    /\ allJobs \in [Jobs -> Kinds \cup {NoRow}]
    /\ \A j \in Jobs : allJobs[j] # NoRow => j \in Existing
    /\ {benchOpen, benchClosed, byHand} \subseteq BOOLEAN
BenchOK ==
    /\ detail \in Seen \cup {NoDetail}
    /\ loads \in Seq(Seen) /\ Len(loads) <= MaxLoads /\ orderly \in BOOLEAN
    /\ source \in {"off", "open", "broken", "ended"}
    /\ cursor \in 0..MaxRows /\ seqRef \in 0..MaxRows
PanelOK ==
    /\ openId \in Existing \cup {NoJob} /\ opened \in Seen \cup {NoDetail}
    /\ answers \subseteq Seen /\ IsFiniteSet(answers) /\ Cardinality(answers) <= MaxLoads
    /\ listed \subseteq Existing /\ acts \subseteq Existing
CountsOK == faults \in 0..MaxFaults /\ gestures \in 0..MaxGestures
ViewsInv == LedgerOK /\ ChatOK /\ BenchOK /\ PanelOK /\ CountsOK

LEMMA KindIsKind ==
    /\ \A s \in States : Kind(s) \in Kinds
    /\ NoRow \notin Kinds /\ "live" \in Kinds /\ NoJob \notin Jobs
<1>1. \A s \in States : Kind(s) # NoRow
  BY DEF Kind, NoRow, States, QUEUED, PLANNING, RUNNING, RETRYING, COMPLETED, CANCELLED,
         DRAFT, PAUSED, BLOCKED, WAITING_APPROVAL, FAILED
<1>2. Kind(QUEUED) = "live" /\ QUEUED \in States
  BY DEF Kind, QUEUED, PLANNING, RUNNING, RETRYING, COMPLETED, CANCELLED, DRAFT, PAUSED, BLOCKED, States
<1>3. QED
  BY <1>1, <1>2, LedgerBounds DEF Kinds, Jobs, NoJob

(* The rows of one job are no more than all that are written. *)
LEMMA RoomForOne ==
    ASSUME LedgerTypeOK, Room, NEW j \in Jobs
    PROVE  rows[j] < MaxRows
<1> DEFINE mine == {j} \X (1..rows[j])
           Num(n) == <<j, n>>
<1>1. rows[j] \in 0..MaxRows /\ MaxRows \in Nat /\ rows[j] \in Nat
  BY LedgerBounds DEF LedgerTypeOK
<1>2. IsFiniteSet(Jobs \X (1..MaxRows)) /\ IsFiniteSet(Written)
  <2>1. IsFiniteSet(Jobs) /\ IsFiniteSet(1..MaxRows)
    BY <1>1, LedgerBounds, FS_Interval DEF Jobs
  <2>2. IsFiniteSet(Jobs \X (1..MaxRows))
    BY <2>1, FS_Product
  <2>3. Written \subseteq Jobs \X (1..MaxRows)
    BY DEF Written
  <2>4. QED
    BY <2>2, <2>3, FS_Subset
<1>3. mine \subseteq Written
  BY <1>1 DEF Written
<1>4. IsFiniteSet(mine) /\ Cardinality(mine) = rows[j]
  <2>1. IsFiniteSet({j}) /\ Cardinality({j}) = 1
    BY FS_Singleton
  <2>2. IsFiniteSet(1..rows[j]) /\ Cardinality(1..rows[j]) = rows[j]
    <3>1. ASSUME NEW n \in Nat PROVE IsFiniteSet(1..n) /\ Cardinality(1..n) = n
      <4>1. IsFiniteSet(1..n) /\ Cardinality(1..n) = (IF 1 > n THEN 0 ELSE n - 1 + 1)
        BY FS_Interval
      <4>2. QED
        BY <4>1
    <3>2. QED
      BY <1>1, <3>1
  <2>3. Cardinality(mine) = 1 * rows[j] /\ IsFiniteSet(mine)
    BY <2>1, <2>2, FS_Product
  <2>4. QED
    BY <1>1, <2>3
<1>5. Cardinality(mine) <= Cardinality(Written)
  BY <1>2, <1>3, FS_Subset
<1>6. Cardinality(Written) \in Nat
  BY <1>2, FS_CardinalityType
<1>7. QED
  BY <1>1, <1>4, <1>5, <1>6 DEF Room

(* One row more for one job, which exists from then on. *)
Grown(j) ==
    /\ j \in Jobs /\ Room /\ rows' = [rows EXCEPT ![j] = @ + 1]
    /\ \E k \in Kinds : state' = [state EXCEPT ![j] = k]
    /\ asked' = asked \/ \E a \in {"undecided", "decided"} : asked' = [asked EXCEPT ![j] = a]

LEMMA GrownLedger ==
    ASSUME LedgerOK, NEW j, Grown(j)
    PROVE  LedgerOK' /\ Existing \subseteq Existing'
<1>1. j \in Jobs /\ rows[j] < MaxRows /\ rows[j] \in 0..MaxRows /\ MaxRows \in Nat
  BY RoomForOne, LedgerBounds DEF Grown, LedgerOK, LedgerTypeOK
<1>2. PICK k \in Kinds : state' = [state EXCEPT ![j] = k]
  BY DEF Grown
<1>3. state' \in [Jobs -> Kinds \cup {NoRow}] /\ state'[j] = k /\ k # NoRow
      /\ \A i \in Jobs \ {j} : state'[i] = state[i]
  BY <1>1, <1>2, KindIsKind DEF LedgerOK, LedgerTypeOK
<1>4. /\ rows' \in [Jobs -> 0..MaxRows] /\ rows'[j] = rows[j] + 1
      /\ \A i \in Jobs \ {j} : rows'[i] = rows[i]
  BY <1>1 DEF Grown, LedgerOK, LedgerTypeOK
<1>5. asked' \in [Jobs -> {"none", "undecided", "decided"}]
  BY <1>1 DEF Grown, LedgerOK, LedgerTypeOK
<1>6. Existing' = Existing \cup {j}
  BY <1>1, <1>3 DEF Existing
<1>7. \A i \in Existing' : rows'[i] >= 1
  BY <1>1, <1>4, <1>6 DEF LedgerOK, Existing
<1>8. QED
  BY <1>3, <1>4, <1>5, <1>6, <1>7 DEF LedgerOK, LedgerTypeOK

LEMMA MoveGrows ==
    ASSUME LedgerOK, NEW j \in Jobs, NEW from, NEW to \in States, Move(j, from, to),
           asked' = asked \/ asked' = [asked EXCEPT ![j] = "undecided"]
    PROVE  Grown(j)
  BY KindIsKind DEF Move, Accepts, WriteRow, Grown

(* A request of a view for a job that exists. *)
LEMMA PostGrows ==
    ASSUME LedgerOK, NEW j \in Existing,
           PostDecision(j) \/ \E to \in {CANCELLED, RETRYING} : Post(j, to)
    PROVE  Grown(j) \/ UNCHANGED ledgerVars
<1>1. j \in Jobs /\ state[j] \in Kinds
  BY DEF Existing, LedgerOK, LedgerTypeOK
<1>2. CASE PostDecision(j) /\ ~UNCHANGED ledgerVars
  <2>1. /\ Room /\ rows' = [rows EXCEPT ![j] = @ + 1] /\ state' = state
        /\ asked' = [asked EXCEPT ![j] = "decided"]
    BY <1>2 DEF PostDecision, WriteRow
  <2>2. state' = [state EXCEPT ![j] = state[j]]
    BY <1>1, <2>1 DEF LedgerOK, LedgerTypeOK
  <2>3. QED
    BY <1>1, <2>1, <2>2 DEF Grown
<1>3. ASSUME NEW to \in {CANCELLED, RETRYING}, Post(j, to)
      PROVE  Grown(j) \/ UNCHANGED ledgerVars
  BY <1>1, <1>3, StateNames, MoveGrows DEF Post, ledgerVars
<1>4. QED
  BY <1>2, <1>3

LEMMA LedgerMoves ==
    ASSUME ViewsInv, [Next]_vars
    PROVE  LedgerOK' /\ Existing \subseteq Existing'
<1>1. ASSUME UNCHANGED ledgerVars PROVE LedgerOK' /\ Existing \subseteq Existing'
  BY <1>1 DEF ViewsInv, LedgerOK, LedgerTypeOK, Existing, ledgerVars
<1>2. ASSUME NEW j, Grown(j) PROVE LedgerOK' /\ Existing \subseteq Existing'
  BY <1>2, GrownLedger DEF ViewsInv
<1>3. ASSUME NEW j \in Jobs, CreateJob(j) PROVE Grown(j)
  <2>1. Kind(QUEUED) \in Kinds
    BY KindIsKind, StateNames
  <2>2. QED
    BY <1>3, <2>1 DEF CreateJob, WriteRow, Grown
<1>4. ASSUME NEW j \in Jobs, RunnerMoves(j) PROVE Grown(j)
  BY <1>4, MoveGrows DEF RunnerMoves, ViewsInv
<1>5. ASSUME NEW j \in Existing,
             PostDecision(j) \/ \E to \in {CANCELLED, RETRYING} : Post(j, to)
      PROVE  LedgerOK' /\ Existing \subseteq Existing'
  BY <1>1, <1>2, <1>5, PostGrows DEF ViewsInv
<1>6. CASE Worker
  BY <1>2, <1>3, <1>4, <1>6 DEF Worker
<1>7. CASE OwnerNavigates \/ BenchHears \/ UNCHANGED vars
  BY <1>1, <1>7 DEF OwnerNavigates, BenchHears, vars
<1>8. CASE OwnerAtBench
  <2>1. detail \in Seen /\ detail.job \in Existing
    BY <1>8 DEF OwnerAtBench, BenchDecides, BenchActs, OnBench, ViewsInv, BenchOK, Seen
  <2>2. \/ PostDecision(detail.job) \/ UNCHANGED ledgerVars
        \/ \E to \in {CANCELLED, RETRYING} : Post(detail.job, to)
    BY <1>8 DEF OwnerAtBench, BenchDecides, BenchActs
  <2>3. QED
    BY <1>1, <1>5, <2>1, <2>2
<1>9. CASE OwnerAtPanel
  <2>1. InDetail => opened.job \in Existing
    BY DEF InDetail, ViewsInv, PanelOK, Seen
  <2>2. \/ UNCHANGED ledgerVars
        \/ /\ InDetail
           /\ \/ PostDecision(opened.job)
              \/ \E to \in {CANCELLED, RETRYING} : Post(opened.job, to)
    BY <1>9 DEF OwnerAtPanel, Open, PanelDecides, PanelActs
  <2>3. QED
    BY <1>1, <1>5, <2>1, <2>2
<1>10. CASE PanelHears
  BY <1>1, <1>10 DEF PanelHears, PanelPoll, ActAnswered
<1>11. QED
  BY <1>6, <1>7, <1>8, <1>9, <1>10 DEF Next

(* What exists goes on existing, and so what was seen stays in range. *)
LEMMA SeenStays ==
    ASSUME Existing \subseteq Existing'
    PROVE  /\ Seen \subseteq Seen' /\ Seq(Seen) \subseteq Seq(Seen')
           /\ ChatOK /\ UNCHANGED chatVars => ChatOK'
           /\ BenchOK /\ UNCHANGED <<detail, loads, streamVars, orderly>> => BenchOK'
           /\ PanelOK /\ UNCHANGED panelVars => PanelOK'
<1>1. Seen \subseteq Seen'
  BY DEF Seen
<1>2. Seq(Seen) \subseteq Seq(Seen')
  BY <1>1
<1>3. ChatOK /\ UNCHANGED chatVars => ChatOK'
  BY DEF ChatOK, chatVars
<1>4. BenchOK /\ UNCHANGED <<detail, loads, streamVars, orderly>> => BenchOK'
  BY <1>1, <1>2 DEF BenchOK, streamVars
<1>5. PanelOK /\ UNCHANGED panelVars => PanelOK'
  BY <1>1 DEF PanelOK, panelVars
<1>6. QED
  BY <1>1, <1>2, <1>3, <1>4, <1>5

LEMMA SnapshotSeen ==
    ASSUME NEW j
    PROVE  /\ LedgerOK /\ j \in Existing => Snapshot(j) \in Seen
           /\ LedgerOK' /\ j \in Existing' => SnapshotAfter(j) \in Seen'
<1>1. LedgerOK /\ j \in Existing => Snapshot(j) \in Seen
  BY LedgerBounds DEF LedgerOK, LedgerTypeOK, Existing, Snapshot, Seen
<1>2. LedgerOK' /\ j \in Existing' => SnapshotAfter(j) \in Seen'
  BY LedgerBounds DEF LedgerOK, LedgerTypeOK, Existing, SnapshotAfter, Seen
<1>3. QED
  BY <1>1, <1>2

(* The job picked for the bench exists, before a step and after it. *)
LEMMA ShownExists == ChatOK => Shown \in Existing \cup {NoJob}
<1> SUFFICES ASSUME ChatOK PROVE Shown \in Existing \cup {NoJob}
  OBVIOUS
<1>1. ThreadJobs(allJobs, thread) \subseteq Existing
      /\ ThreadJobs(allJobs, thread) \in SUBSET Jobs
  BY DEF ThreadJobs, ChatOK
<1>2. QED
  BY <1>1, PickedIsOne DEF Shown

LEMMA ShownExistsNext == (ChatOK => Shown \in Existing \cup {NoJob})'
  BY ShownExists, PTL

(* One more load keeps the list in range and within its bound. *)
LEMMA AskedSeen ==
    ASSUME LedgerOK, NEW queue \in Seq(Seen), Len(queue) <= MaxLoads, NEW j \in Existing
    PROVE  Asked(queue, j) \in Seq(Seen) /\ Len(Asked(queue, j)) <= MaxLoads
<1> DEFINE q == Append(queue, Snapshot(j))
<1>1. q \in Seq(Seen) /\ Len(q) = Len(queue) + 1
  BY SnapshotSeen, Appended
<1>2. Len(queue) \in Nat /\ MaxLoads \in Nat
  BY BenchBounds, LenProperties
<1> HIDE DEF q
<1>3. CASE Len(q) > MaxLoads
  <2>1. q # <<>>
    BY <1>1, <1>2, EmptySeq
  <2>2. Tail(q) \in Seq(Seen) /\ Len(Tail(q)) = Len(q) - 1
    BY <1>1, <2>1, HeadTailProperties
  <2>3. Asked(queue, j) = Tail(q)
    BY <1>3 DEF Asked, q
  <2>4. QED
    BY <1>1, <1>2, <2>2, <2>3
<1>4. CASE ~(Len(q) > MaxLoads)
  <2>1. Asked(queue, j) = q
    BY <1>4 DEF Asked, q
  <2>2. QED
    BY <1>1, <1>2, <1>4, <2>1
<1>5. QED
  BY <1>3, <1>4

LEMMA ChatTyped ==
    ASSUME ViewsInv, [Next]_vars, Existing \subseteq Existing'
    PROVE  ChatOK'
<1>1. ASSUME BenchEffects PROVE {benchOpen', benchClosed', byHand'} \subseteq BOOLEAN
  BY <1>1 DEF BenchEffects, ViewsInv, ChatOK
<1>2. ASSUME UNCHANGED chatVars PROVE ChatOK'
  BY <1>2, SeenStays DEF ViewsInv
<1>3. ASSUME NEW t \in Threads, SelectThread(t) PROVE ChatOK'
  BY <1>1, <1>3 DEF SelectThread, ViewsInv, ChatOK
<1>4. CASE CloseBench \/ OpenBench \/ ToggleWork
  BY <1>4 DEF CloseBench, OpenBench, ToggleWork, ViewsInv, ChatOK
<1>5. CASE PollJobs
  <2>1. \A j \in Jobs : state[j] # NoRow => j \in Existing'
    BY DEF Existing
  <2>2. state \in [Jobs -> Kinds \cup {NoRow}]
    BY DEF ViewsInv, LedgerOK, LedgerTypeOK
  <2>3. QED
    BY <1>1, <1>5, <2>1, <2>2 DEF PollJobs, ViewsInv, ChatOK
<1>6. CASE Worker \/ OwnerAtBench \/ OwnerAtPanel \/ PanelHears \/ UNCHANGED vars
  <2>1. UNCHANGED chatVars
    BY <1>6 DEF Worker, OwnerAtBench, BenchDecides, BenchActs, OwnerAtPanel, PanelHears, vars
  <2>2. QED
    BY <1>2, <2>1
<1>7. CASE OwnerNavigates
  BY <1>3, <1>4, <1>7 DEF OwnerNavigates
<1>8. CASE BenchHears
  <2>1. PollJobs \/ UNCHANGED chatVars
    BY <1>8 DEF BenchHears, StreamRow, StreamEnd, StreamBreaks, Reconnect, LoadAnswered, LoadLost
  <2>2. QED
    BY <1>2, <1>5, <2>1
<1>9. QED
  BY <1>6, <1>7, <1>8 DEF Next

(* The bench turns to another job: nothing on screen, and one load.        *)
LEMMA FollowedTyped ==
    ASSUME ViewsInv, ChatOK', FollowShown, UNCHANGED ledgerVars
    PROVE  BenchOK'
<1>1. Existing' = Existing /\ Seen' = Seen /\ MaxRows \in Nat /\ MaxLoads \in Nat
  BY LedgerBounds, BenchBounds DEF ledgerVars, Existing, Seen
<1>2. Shown' \in Existing \cup {NoJob}
  BY <1>1, ShownExistsNext
<1>3. CASE Shown' = Shown
  <2>1. UNCHANGED <<detail, loads, streamVars, orderly>>
    BY <1>3 DEF FollowShown, benchVars
  <2>2. QED
    BY <1>1, <2>1, SeenStays DEF ViewsInv
<1>4. CASE Shown' # Shown
  <2>1. /\ detail' = NoDetail /\ source' = "off" /\ cursor' = 0 /\ seqRef' = 0
        /\ orderly' \in BOOLEAN
    BY <1>4 DEF FollowShown
  <2>2. loads' \in Seq(Seen) /\ Len(loads') <= MaxLoads
    <3> DEFINE queue == IF Shown = NoJob THEN <<>> ELSE loads
    <3>1. queue \in Seq(Seen) /\ Len(queue) <= MaxLoads
      BY <1>1, EmptySeq DEF ViewsInv, BenchOK
    <3>2. CASE Shown' = NoJob
      BY <1>1, <1>4, <3>2, EmptySeq DEF FollowShown
    <3>3. CASE Shown' # NoJob
      <4>1. loads' = Asked(queue, Shown') /\ Shown' \in Existing
        BY <1>2, <1>4, <3>3 DEF FollowShown
      <4> HIDE DEF queue
      <4>2. QED
        BY <3>1, <4>1, AskedSeen DEF ViewsInv
    <3>4. QED
      BY <3>2, <3>3
  <2>3. QED
    BY <1>1, <2>1, <2>2 DEF BenchOK
<1>5. QED
  BY <1>3, <1>4

LEMMA StreamTyped ==
    ASSUME ViewsInv, BenchInv, Existing' = Existing, StreamRow \/ StreamEnd
    PROVE  BenchOK'
<1>1. Shown \in Existing /\ Load(Shown) /\ Seen' = Seen
  <2>1. Shown # NoJob /\ Load(Shown)
    BY DEF StreamRow, StreamEnd, BenchInv
  <2>2. QED
    BY <2>1, ShownExists DEF ViewsInv, Seen
<1>2. loads' \in Seq(Seen) /\ Len(loads') <= MaxLoads /\ orderly' \in BOOLEAN
  <2>1. loads' = Asked(loads, Shown) /\ orderly' \in BOOLEAN
    BY <1>1 DEF Load
  <2>2. QED
    BY <1>1, <2>1, AskedSeen DEF ViewsInv, BenchOK
<1>3. detail' = detail
  BY DEF StreamRow, StreamEnd
<1>4. CASE StreamRow
  <2>1. source' = source /\ cursor < rows[Shown] /\ cursor' = cursor + 1 /\ seqRef' = cursor + 1
    BY <1>4 DEF StreamRow
  <2>2. rows[Shown] \in 0..MaxRows /\ cursor \in 0..MaxRows /\ MaxRows \in Nat
    BY <1>1, LedgerBounds DEF ViewsInv, LedgerOK, LedgerTypeOK, BenchOK, Existing
  <2>3. cursor' \in 0..MaxRows /\ seqRef' \in 0..MaxRows
    BY <2>1, <2>2
  <2>4. QED
    BY <1>1, <1>2, <1>3, <2>1, <2>3 DEF ViewsInv, BenchOK
<1>5. CASE StreamEnd
  BY <1>1, <1>2, <1>3, <1>5 DEF StreamEnd, ViewsInv, BenchOK
<1>6. QED
  BY <1>4, <1>5

LEMMA HeardTyped ==
    ASSUME ViewsInv, Existing' = Existing, NEW i \in DOMAIN loads, LoadAnswered(i) \/ LoadLost(i)
    PROVE  BenchOK'
<1>1. /\ Seen' = Seen /\ loads \in Seq(Seen) /\ loads[i] \in Seen /\ MaxRows \in Nat
      /\ Len(loads) \in Nat /\ Len(loads) <= MaxLoads /\ MaxLoads \in Nat
  <2>1. loads \in Seq(Seen) /\ Len(loads) <= MaxLoads
    BY DEF ViewsInv, BenchOK
  <2>2. Len(loads) \in Nat /\ loads[i] \in Seen
    BY <2>1, LenProperties
  <2>3. QED
    BY <2>1, <2>2, LedgerBounds, BenchBounds DEF Seen
<1>2. loads' \in Seq(Seen) /\ Len(loads') <= MaxLoads
  <2>1. loads' = RemoveAt(loads, i)
    BY DEF LoadAnswered, LoadLost
  <2>2. loads' \in Seq(Seen) /\ Len(loads') = Len(loads) - 1
    BY <1>1, <2>1, RemovedAt
  <2>3. QED
    BY <1>1, <2>2
<1>3. CASE LoadAnswered(i)
  <2>1. loads[i].rows \in 0..MaxRows
    BY <1>1 DEF Seen
  <2>2. /\ detail' = loads[i] /\ seqRef' \in 0..MaxRows /\ orderly' \in BOOLEAN
        /\ source' \in {source, "open", "off"} /\ cursor' \in {cursor, loads[i].rows, 0}
    BY <1>3, <2>1 DEF LoadAnswered
  <2>3. QED
    BY <1>1, <1>2, <2>1, <2>2 DEF ViewsInv, BenchOK
<1>4. CASE LoadLost(i)
  BY <1>1, <1>2, <1>4 DEF LoadLost, streamVars, ViewsInv, BenchOK
<1>5. QED
  BY <1>3, <1>4

LEMMA BenchTyped ==
    ASSUME ViewsInv, BenchInv, [Next]_vars, LedgerOK', ChatOK', Existing \subseteq Existing'
    PROVE  BenchOK'
<1>1. CASE Worker \/ OwnerAtPanel \/ PanelHears \/ UNCHANGED vars
  <2>1. UNCHANGED <<detail, loads, streamVars, orderly>>
    BY <1>1 DEF Worker, OwnerAtPanel, PanelHears, vars, benchVars
  <2>2. QED
    BY <2>1, SeenStays DEF ViewsInv
<1>2. CASE OwnerNavigates
  BY <1>2, FollowedTyped DEF OwnerNavigates, SelectThread, CloseBench, OpenBench, ToggleWork
<1>3. CASE OwnerAtBench
  <2>1. /\ Shown # NoJob /\ Len(loads) < MaxLoads /\ UNCHANGED <<detail, streamVars, orderly>>
        /\ loads' = Append(loads, SnapshotAfter(Shown))
    BY <1>3 DEF OwnerAtBench, BenchDecides, BenchActs, OnBench
  <2>2. SnapshotAfter(Shown) \in Seen' /\ loads \in Seq(Seen') /\ Seen \subseteq Seen'
    BY <2>1, ShownExists, SnapshotSeen, SeenStays DEF ViewsInv, BenchOK
  <2>3. loads' \in Seq(Seen') /\ Len(loads') = Len(loads) + 1
    BY <2>1, <2>2, Appended
  <2>4. Len(loads') <= MaxLoads
    BY <2>1, <2>2, <2>3, BenchBounds, LenProperties
  <2>5. QED
    BY <2>1, <2>2, <2>3, <2>4 DEF BenchOK, ViewsInv, streamVars
<1>4. CASE BenchHears
  <2>1. Existing' = Existing /\ UNCHANGED ledgerVars
    BY <1>4 DEF BenchHears, ledgerVars, Existing
  <2>2. CASE PollJobs
    BY <2>1, <2>2, FollowedTyped DEF PollJobs
  <2>3. CASE StreamRow \/ StreamEnd
    BY <2>1, <2>3, StreamTyped
  <2>4. CASE StreamBreaks \/ Reconnect
    <3>1. Seen' = Seen
      BY <2>1 DEF Seen
    <3>2. QED
      BY <2>4, <3>1 DEF StreamBreaks, Reconnect, ViewsInv, BenchOK
  <2>5. CASE \E i \in DOMAIN loads : LoadAnswered(i) \/ LoadLost(i)
    BY <2>1, <2>5, HeardTyped
  <2>6. QED
    BY <1>4, <2>2, <2>3, <2>4, <2>5 DEF BenchHears
<1>5. QED
  BY <1>1, <1>2, <1>3, <1>4 DEF Next

LEMMA FetchTyped ==
    ASSUME ViewsInv, LedgerOK', Existing \subseteq Existing', NEW j \in Existing', Fetch(j)
    PROVE  /\ answers' \subseteq Seen' /\ IsFiniteSet(answers')
           /\ Cardinality(answers') <= MaxLoads
<1>1. /\ answers \subseteq Seen /\ IsFiniteSet(answers) /\ Cardinality(answers) < MaxLoads
      /\ answers' = answers \cup {SnapshotAfter(j)}
  BY DEF Fetch, ViewsInv, PanelOK
<1>2. SnapshotAfter(j) \in Seen' /\ Seen \subseteq Seen'
  BY SnapshotSeen, SeenStays
<1>3. /\ IsFiniteSet(answers')
      /\ Cardinality(answers') \in {Cardinality(answers), Cardinality(answers) + 1}
  BY <1>1, FS_AddElement
<1>4. Cardinality(answers) \in Nat /\ MaxLoads \in Nat
  BY <1>1, BenchBounds, FS_CardinalityType
<1>5. QED
  BY <1>1, <1>2, <1>3, <1>4

(* An answer that came, or was lost. *)
LEMMA LessTyped ==
    ASSUME ViewsInv, Existing' = Existing, NEW d \in answers, answers' = answers \ {d},
           UNCHANGED <<openId, listed, acts>>, opened' \in {opened, d}
    PROVE  PanelOK'
<1>1. /\ answers \subseteq Seen /\ IsFiniteSet(answers) /\ Cardinality(answers) <= MaxLoads
      /\ Seen' = Seen /\ d \in Seen
  BY DEF ViewsInv, PanelOK, Seen
<1>2. IsFiniteSet(answers') /\ Cardinality(answers') = Cardinality(answers) - 1
  BY <1>1, FS_RemoveElement
<1>3. Cardinality(answers) \in Nat /\ MaxLoads \in Nat
  BY <1>1, BenchBounds, FS_CardinalityType
<1>4. QED
  BY <1>1, <1>2, <1>3 DEF ViewsInv, PanelOK

LEMMA FreshTyped ==
    ASSUME NEW l, PanelFresh(l), l \subseteq Existing'
    PROVE  PanelOK'
<1>1. answers' = {} /\ IsFiniteSet({}) /\ Cardinality({}) = 0 /\ MaxLoads \in Nat
  BY FS_EmptySet, BenchBounds DEF PanelFresh
<1>2. QED
  BY <1>1 DEF PanelFresh, PanelOK

LEMMA PanelTyped ==
    ASSUME ViewsInv, [Next]_vars, LedgerOK', Existing \subseteq Existing'
    PROVE  PanelOK'
<1>1. ASSUME UNCHANGED panelVars PROVE PanelOK'
  BY <1>1, SeenStays DEF ViewsInv
<1>2. InDetail => opened \in Seen /\ opened.job \in Existing
  BY DEF InDetail, ViewsInv, PanelOK, Seen
<1>3. Seen \subseteq Seen' /\ answers \subseteq Seen' /\ IsFiniteSet(answers)
      /\ Cardinality(answers) <= MaxLoads
  BY SeenStays DEF ViewsInv, PanelOK
(* A fetch for a job that exists, as the last thing that the panel does.    *)
<1>4. ASSUME NEW j \in Existing, Fetch(j), openId' \in {openId, j},
             opened' \in {opened, NoDetail}, listed' \subseteq Existing',
             acts' \subseteq acts
      PROVE  PanelOK'
  <2>1. /\ answers' \subseteq Seen' /\ IsFiniteSet(answers')
        /\ Cardinality(answers') <= MaxLoads
    BY <1>4, FetchTyped
  <2>2. QED
    BY <1>3, <1>4, <2>1 DEF ViewsInv, PanelOK
<1>5. CASE Worker \/ OwnerAtBench \/ BenchHears \/ UNCHANGED vars
  <2>1. UNCHANGED panelVars
    BY <1>5 DEF Worker, OwnerAtBench, BenchHears, vars
  <2>2. QED
    BY <1>1, <2>1
<1>6. CASE OwnerNavigates
  <2>1. \/ UNCHANGED panelVars \/ PanelFresh({})
        \/ PanelFresh(IF view = "chat" THEN Existing ELSE {})
    BY <1>6 DEF OwnerNavigates, ToggleWork
  <2>2. QED
    BY <1>1, <2>1, FreshTyped
<1>7. CASE OwnerAtPanel
  <2>1. ASSUME NEW j \in Jobs, Open(j) PROVE PanelOK'
    <3>1. j \in Existing /\ Fetch(j) /\ openId' = j /\ UNCHANGED <<opened, listed, acts>>
      BY <2>1 DEF Open, ViewsInv, PanelOK
    <3>2. listed' \subseteq Existing'
      BY <3>1 DEF ViewsInv, PanelOK
    <3>3. QED
      BY <1>4, <3>1, <3>2
  <2>2. CASE PanelDecides
    <3>1. openId \in Existing /\ Fetch(openId) /\ UNCHANGED <<openId, opened, listed, acts>>
      BY <2>2 DEF PanelDecides, ViewsInv, PanelOK
    <3>2. listed' \subseteq Existing'
      BY <3>1 DEF ViewsInv, PanelOK
    <3>3. QED
      BY <1>4, <3>1, <3>2
  <2>3. CASE PanelActs
    <3>1. /\ UNCHANGED <<openId, opened, answers, listed>>
          /\ acts' \subseteq acts \cup {opened.job} /\ opened.job \in Existing
      BY <1>2, <2>3 DEF PanelActs
    <3>2. QED
      BY <1>3, <3>1 DEF ViewsInv, PanelOK
  <2>4. CASE Back /\ UNCHANGED ledgerVars
    <3>1. Existing' = Existing
      BY <2>4 DEF ledgerVars, Existing
    <3>2. QED
      BY <1>3, <2>4, <3>1 DEF Back, loadList, ViewsInv, PanelOK
  <2>5. QED
    BY <1>7, <2>1, <2>2, <2>3, <2>4 DEF OwnerAtPanel
<1>8. CASE PanelHears
  <2>1. CASE PanelPoll
    <3>1. opened.job \in Existing /\ Fetch(opened.job) /\ UNCHANGED <<openId, opened, listed, acts>>
      BY <1>2, <2>1 DEF PanelPoll
    <3>2. listed' \subseteq Existing'
      BY <3>1 DEF ViewsInv, PanelOK
    <3>3. QED
      BY <1>4, <3>1, <3>2
  <2>2. ASSUME NEW j \in Jobs, ActAnswered(j) PROVE PanelOK'
    <3>1. j \in Existing /\ Fetch(j) /\ openId' = j /\ opened' = opened /\ acts' \subseteq acts
      BY <2>2 DEF ActAnswered, ViewsInv, PanelOK
    <3>2. listed' \subseteq Existing'
      BY <2>2 DEF ActAnswered, loadList
    <3>3. QED
      BY <1>4, <3>1, <3>2
  <2>3. ASSUME NEW d \in answers, PanelAnswered(d) \/ PanelLost(d), UNCHANGED ledgerVars
        PROVE  PanelOK'
    <3>1. Existing' = Existing
      BY <2>3 DEF ledgerVars, Existing
    <3>2. QED
      BY <2>3, <3>1, LessTyped DEF PanelAnswered, PanelLost
  <2>4. QED
    BY <1>8, <2>1, <2>2, <2>3 DEF PanelHears
<1>9. QED
  BY <1>5, <1>6, <1>7, <1>8 DEF Next

LEMMA CountsTyped ==
    ASSUME ViewsInv, [Next]_vars
    PROVE  CountsOK'
<1>1. faults \in 0..MaxFaults /\ gestures \in 0..MaxGestures /\ MaxFaults \in Nat /\ MaxGestures \in Nat
  BY BenchBounds, GesturesAssumption DEF ViewsInv, CountsOK
<1>2. faults' = faults \/ (faults < MaxFaults /\ faults' = faults + 1)
  <2>1. CASE Worker \/ OwnerAtPanel \/ UNCHANGED vars
    BY <2>1 DEF Worker, OwnerAtPanel, vars, benchVars
  <2>2. CASE OwnerNavigates
    BY <2>2 DEF OwnerNavigates, SelectThread, CloseBench, OpenBench, ToggleWork, FollowShown, benchVars
  <2>3. CASE OwnerAtBench
    BY <2>3 DEF OwnerAtBench, BenchDecides, BenchActs
  <2>4. CASE BenchHears
    BY <2>4 DEF BenchHears, PollJobs, FollowShown, benchVars, StreamRow, StreamEnd, StreamBreaks,
                Reconnect, LoadAnswered, LoadLost
  <2>5. CASE PanelHears
    BY <2>5 DEF PanelHears, PanelLost
  <2>6. QED
    BY <2>1, <2>2, <2>3, <2>4, <2>5 DEF Next
<1>3. gestures' = gestures \/ (gestures < MaxGestures /\ gestures' = gestures + 1)
  BY DEF Next, Worker, OwnerNavigates, OwnerAtBench, OwnerAtPanel, BenchHears, PanelHears, Gesture, vars
<1>4. QED
  BY <1>1, <1>2, <1>3 DEF CountsOK

LEMMA ViewsStart == Init => ViewsInv
<1> SUFFICES ASSUME Init PROVE ViewsInv
  OBVIOUS
<1>1. PICK first \in {NoRow, "live"} :
        /\ state = [j \in Jobs |-> IF j = 1 THEN first ELSE NoRow]
        /\ rows = [j \in Jobs |-> IF j = 1 /\ first # NoRow THEN 1 ELSE 0]
  BY DEF Init
<1>2. MaxJobs \in Nat \ {0} /\ MaxRows \in Nat \ {0} /\ MaxLoads \in Nat /\ 1 \in Jobs
  BY LedgerBounds, BenchBounds DEF Jobs
<1>3. LedgerOK
  <2>1. state \in [Jobs -> Kinds \cup {NoRow}] /\ rows \in [Jobs -> 0..MaxRows]
    BY <1>1, <1>2, KindIsKind
  <2>2. \A j \in Existing : rows[j] >= 1
    BY <1>1 DEF Existing
  <2>3. QED
    BY <2>1, <2>2 DEF LedgerOK, LedgerTypeOK, Init
<1>4. ChatOK
  <2>1. home \in [Jobs -> Threads] /\ thread \in Threads
    BY <1>2 DEF Init, BenchInit
  <2>2. QED
    BY <2>1 DEF Init, BenchInit, ChatOK
<1>5. BenchOK
  <2>1. loads = <<>> /\ loads \in Seq(Seen) /\ Len(loads) = 0
    BY EmptySeq DEF Init, BenchInit
  <2>2. QED
    BY <1>2, <2>1 DEF Init, BenchInit, BenchOK
<1>6. PanelOK
  <2>1. answers = {} /\ IsFiniteSet({}) /\ Cardinality({}) = 0
    BY FS_EmptySet DEF Init, PanelInit
  <2>2. QED
    BY <1>2, <2>1 DEF Init, PanelInit, PanelOK
<1>7. CountsOK
  BY BenchBounds, GesturesAssumption DEF Init, BenchInit, CountsOK
<1>8. QED
  BY <1>3, <1>4, <1>5, <1>6, <1>7 DEF ViewsInv

LEMMA ViewsKeep == ViewsInv /\ BenchInv /\ [Next]_vars => ViewsInv'
<1> SUFFICES ASSUME ViewsInv, BenchInv, [Next]_vars PROVE ViewsInv'
  OBVIOUS
<1>1. LedgerOK' /\ Existing \subseteq Existing'
  BY LedgerMoves
<1>2. ChatOK'
  BY <1>1, ChatTyped
<1>3. BenchOK' /\ PanelOK' /\ CountsOK'
  BY <1>1, <1>2, BenchTyped, PanelTyped, CountsTyped
<1>4. QED
  BY <1>1, <1>2, <1>3 DEF ViewsInv

LEMMA ViewsTypeOK == ViewsInv => TypeOK
<1> SUFFICES ASSUME ViewsInv PROVE TypeOK
  OBVIOUS
<1>1. Seen \subseteq Snapshots /\ Existing \subseteq Jobs
  BY DEF Seen, Snapshots, Existing
<1>2. loads \in Seq(Snapshots)
  BY <1>1 DEF ViewsInv, BenchOK
<1>3. BenchTypeOK
  BY <1>1, <1>2 DEF ViewsInv, ChatOK, BenchOK, CountsOK, BenchTypeOK
<1>4. PanelTypeOK
  BY <1>1 DEF ViewsInv, PanelOK, PanelTypeOK
<1>5. QED
  BY <1>3, <1>4 DEF ViewsInv, LedgerOK, CountsOK, TypeOK

(* workbench.tsx and work-panel.tsx: every job that is shown, listed, asked  *)
(* for or acted on exists and every snapshot is one the server can give, the *)
(* stream reads no row beyond the ledger, and the bounds are kept.          *)
THEOREM ViewsTyped == Spec => []TypeOK
<1>1. Init => LedgerInv /\ BenchInv
  BY LedgerStarts, BenchStarts
<1>2. LedgerInv /\ BenchInv /\ ViewsInv /\ [Next]_vars => (LedgerInv /\ BenchInv /\ ViewsInv)'
  BY LedgerKeeps, BenchKeeps, ViewsKeep
<1>3. QED
  BY <1>1, <1>2, ViewsStart, ViewsTypeOK, PTL DEF Spec
=============================================================================
