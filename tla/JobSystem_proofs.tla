--------------------------- MODULE JobSystem_proofs ---------------------------
(***************************************************************************)
(* Theorems about the job system, for every number of jobs, tasks, tool    *)
(* calls, approvals, retries and crashes.                                  *)
(***************************************************************************)
EXTENDS JobSystem, TLAPS, WellFoundedInduction

-----------------------------------------------------------------------------
(* The inductive invariant for types: the graph's state is routed.  The     *)
(* number of the step a task completes stays within the plan because the    *)
(* execute node is only entered before the end of the plan.                 *)

RoutedState(m) ==
    /\ m.idx <= m.len
    /\ m.next = "execute" => m.idx < m.len
    /\ m.next = "finalize" => m.idx = m.len

Routed ==
    /\ \A j \in Jobs : RoutedState(checkpoint[j])
    /\ \A t \in Tasks : /\ RoutedState(task[t].mem)
                        /\ task[t].pc \in ExecutePCs => task[t].mem.next = "execute"

TaskOK == task \in [Tasks -> Task] /\ Routed

\* Where a task can stand, listed.
LEMMA PCsAreNamed ==
    PCs = {"idle", "crashed", "report", "look", "wake", "load", "plan", "think",
           "planned", "check", "block", "settle", "settling", "consume", "act", "hold",
           "park", "failing", "complete", "finalize", "closing"}
  BY DEF PCs, RunPCs, PlanPCs, ExecutePCs, FinalizePCs

\* A task that is not running is well typed and routed.
LEMMA IdleTaskType == IdleTask \in Task /\ RoutedState(IdleTask.mem)
  BY StoreAssumption, PCsAreNamed
     DEF IdleTask, Task, NoCheckpoint, Checkpoint, Nodes, Jobs, RoutedState

\* A task that only moves its pc, within the node it is in, stays well typed.
LEMMA GoType ==
    ASSUME TaskOK, NEW t \in Tasks, NEW p \in PCs, Go(t, p), UNCHANGED checkpoint,
           p \in ExecutePCs => task[t].mem.next = "execute"
    PROVE  TaskOK'
  BY DEF TaskOK, Routed, Go, Task, RoutedState

\* A task whose graph leaves memory, and the checkpoint it leaves behind, are
\* well typed and routed.
LEMMA LeaveType ==
    ASSUME TaskOK, NEW t \in Tasks, NEW p \in {"crashed", "report"}, Leave(t, p),
           checkpoint \in [Jobs -> Checkpoint]
    PROVE  TaskOK' /\ checkpoint' \in [Jobs -> Checkpoint]
<1>1. task[t] \in Task
  BY DEF TaskOK
<1>2. [IdleTask EXCEPT !.pc = p, !.job = Job(t)] \in Task
  BY <1>1, IdleTaskType, PCsAreNamed DEF Task, Job
<1>3. task' \in [Tasks -> Task]
  BY <1>2 DEF TaskOK, Leave
<1>4. checkpoint' \in [Jobs -> Checkpoint]
  BY <1>1 DEF Leave, Task, Job
<1>5. \A j \in Jobs : RoutedState(checkpoint'[j])
  BY <1>1 DEF Leave, Task, Job, TaskOK, Routed
<1>6. \A u \in Tasks : /\ RoutedState(task'[u].mem)
                       /\ task'[u].pc \in ExecutePCs => task'[u].mem.next = "execute"
  <2> TAKE u \in Tasks
  <2>1. CASE u = t
    BY <2>1, IdleTaskType DEF Leave, TaskOK, IdleTask, ExecutePCs
  <2>2. CASE u # t
    BY <2>2 DEF Leave, TaskOK, Routed
  <2>3. QED
    BY <2>1, <2>2
<1>7. QED
  BY <1>3, <1>4, <1>5, <1>6 DEF TaskOK, Routed, RoutedState

\* A superstep that begins with a routed state keeps every task routed.
LEMMA SuperstepType ==
    ASSUME TaskOK, NEW t \in Tasks, NEW m \in Checkpoint, RoutedState(m), Superstep(t, m),
           UNCHANGED checkpoint
    PROVE  TaskOK'
<1>1. task[t] \in Task
  BY DEF TaskOK
<1> DEFINE r == [IdleTask EXCEPT !.pc = EntryPC(m.next), !.job = Job(t), !.mem = m,
                                 !.dirty = TRUE]
<1>2. r \in Task
  BY <1>1, IdleTaskType, PCsAreNamed DEF Task, Job, EntryPC
<1>3. r.mem = m /\ (r.pc \in ExecutePCs => m.next = "execute")
  BY <1>2 DEF IdleTask, EntryPC, ExecutePCs
<1>4. task' = [task EXCEPT ![t] = r]
  BY DEF Superstep
<1>5. QED
  BY <1>2, <1>3, <1>4 DEF TaskOK, Routed, RoutedState

\* A move of a job row keeps states and clocks well typed.
LEMMA TransitionType ==
    ASSUME StoreTypeOK, NEW j \in Jobs, NEW target \in States, Transition(j, target)
    PROVE  /\ state' \in [Jobs -> States \cup {NoRow}]
           /\ clock' \in [Jobs -> {"unset", "ticking", "expired"}]
  BY DEF StoreTypeOK, Transition

\* The states the runner and the routes move a row to are states of the
\* lifecycle.
LEMMA StateNames ==
    /\ RUNNING \in States /\ BLOCKED \in States /\ WAITING_APPROVAL \in States
    /\ FAILED \in States /\ COMPLETED \in States /\ CANCELLED \in States
    /\ RETRYING \in States /\ QUEUED \in States /\ PLANNING \in States
  BY DEF States, RUNNING, BLOCKED, WAITING_APPROVAL, FAILED, COMPLETED, CANCELLED,
         RETRYING, QUEUED, PLANNING

\* The steps up to the graph.
LEMMA RunType ==
    ASSUME StoreTypeOK, TaskOK, NEW t \in Tasks, Look(t) \/ Wake(t) \/ Load(t)
    PROVE  StoreTypeOK' /\ TaskOK'
<1>1. task[t] \in Task /\ Job(t) \in Jobs
  BY DEF TaskOK, Task, Job
<1>2. checkpoint[Job(t)] \in Checkpoint /\ RoutedState(checkpoint[Job(t)])
  BY <1>1 DEF StoreTypeOK, TaskOK, Routed
<1>3. CASE Look(t)
  <2>1. StoreTypeOK'
    BY <1>3 DEF Look, StoreTypeOK, storeVars
  <2>2. task' \in [Tasks -> Task]
    BY <1>1, <1>2, <1>3, PCsAreNamed DEF Look, TaskOK, Task
  <2>3. \A u \in Tasks : /\ RoutedState(task'[u].mem)
                         /\ task'[u].pc \in ExecutePCs => task'[u].mem.next = "execute"
    <3> TAKE u \in Tasks
    <3>1. CASE u = t
      BY <1>1, <1>2, <1>3, <3>1 DEF Look, TaskOK, ExecutePCs, Task
    <3>2. CASE u # t
      BY <1>3, <3>2 DEF Look, TaskOK, Routed
    <3>3. QED
      BY <3>1, <3>2
  <2>4. QED
    BY <1>3, <2>1, <2>2, <2>3 DEF Look, storeVars, TaskOK, Routed, RoutedState
<1>4. CASE Wake(t)
  <2>1. CASE Transition(Job(t), RUNNING) /\ Go(t, "load") /\ UNCHANGED checkpoint
    <3>1. TaskOK'
      BY <2>1, GoType, PCsAreNamed DEF ExecutePCs
    <3>2. StoreTypeOK'
      BY <1>1, <1>4, <2>1, TransitionType, StateNames
         DEF Wake, StoreTypeOK, ledgerVars, gateVars
    <3>3. QED
      BY <3>1, <3>2
  <2>2. CASE Refused(Job(t), RUNNING) /\ Raise(t)
    BY <1>4, <2>2, LeaveType
       DEF Raise, Refused, Wake, StoreTypeOK, rowVars, ledgerVars, gateVars
  <2>3. QED
    BY <1>4, <2>1, <2>2 DEF Wake
<1>5. CASE Load(t)
  <2>1. CASE Superstep(t, Fresh) /\ UNCHANGED checkpoint
    <3>1. Fresh \in Checkpoint /\ RoutedState(Fresh)
      BY StoreAssumption DEF Fresh, Checkpoint, Nodes, RoutedState
    <3>2. TaskOK'
      BY <2>1, <3>1, SuperstepType
    <3>3. QED
      BY <1>5, <2>1, <3>2 DEF Load, StoreTypeOK, rowVars, ledgerVars, gateVars
  <2>2. CASE Halt(t)
    BY <1>5, <2>2, LeaveType DEF Halt, Load, StoreTypeOK, rowVars, ledgerVars, gateVars
  <2>3. CASE /\ task' = [task EXCEPT ![t].mem = checkpoint[Job(t)],
                                    ![t].pc = EntryPC(checkpoint[Job(t)].next)]
             /\ UNCHANGED checkpoint
    <3>1. task' \in [Tasks -> Task]
      BY <1>1, <1>2, <2>3, PCsAreNamed DEF TaskOK, Task, EntryPC
    <3>2. \A u \in Tasks : /\ RoutedState(task'[u].mem)
                           /\ task'[u].pc \in ExecutePCs => task'[u].mem.next = "execute"
      <4> TAKE u \in Tasks
      <4>1. CASE u = t
        BY <1>1, <1>2, <2>3, <4>1 DEF TaskOK, ExecutePCs, Task, EntryPC
      <4>2. CASE u # t
        BY <2>3, <4>2 DEF TaskOK, Routed
      <4>3. QED
        BY <4>1, <4>2
    <3>3. TaskOK'
      BY <2>3, <3>1, <3>2 DEF TaskOK, Routed, RoutedState
    <3>4. QED
      BY <1>5, <2>3, <3>3 DEF Load, StoreTypeOK, rowVars, ledgerVars, gateVars
  <2>4. QED
    BY <1>5, <2>1, <2>2, <2>3 DEF Load
<1>6. QED
  BY <1>3, <1>4, <1>5

\* The plan node.
LEMMA PlanType ==
    ASSUME StoreTypeOK, TaskOK, NEW t \in Tasks, PlanRead(t) \/ Think(t) \/ Planned(t)
    PROVE  StoreTypeOK' /\ TaskOK'
<1>1. task[t] \in Task /\ Job(t) \in Jobs
  BY DEF TaskOK, Task, Job
<1>2. CASE PlanRead(t)
  <2>1. state[Job(t)] \in States \cup {NoRow}
    BY <1>1 DEF StoreTypeOK
  <2>2. task' \in [Tasks -> Task]
    BY <1>1, <1>2, <2>1, PCsAreNamed DEF PlanRead, TaskOK, Task
  <2>3. TaskOK'
    BY <1>2, <2>2 DEF PlanRead, TaskOK, Routed, RoutedState, storeVars, ExecutePCs, Task
  <2>4. QED
    BY <1>2, <2>3 DEF PlanRead, StoreTypeOK, storeVars
<1>3. CASE Think(t)
  <2>1. CASE \E n \in Steps :
               task' = [task EXCEPT ![t].pc = "planned", ![t].steps = n]
    <3>1. PICK n \in Steps :
               task' = [task EXCEPT ![t].pc = "planned", ![t].steps = n]
      BY <2>1
    <3>2. n \in 0 .. MaxSteps
      BY StoreAssumption DEF Steps
    <3>3. task' \in [Tasks -> Task]
      BY <1>1, <3>1, <3>2, PCsAreNamed DEF TaskOK, Task
    <3>4. checkpoint' = checkpoint \/ Raise(t)
      BY <1>3 DEF Think
    <3>5. TaskOK' /\ checkpoint' \in [Jobs -> Checkpoint]
      <4>1. CASE checkpoint' = checkpoint
        BY <3>1, <3>3, <4>1
           DEF TaskOK, Routed, RoutedState, ExecutePCs, Task, StoreTypeOK
      <4>2. CASE Raise(t)
        BY <4>2, LeaveType DEF Raise, StoreTypeOK
      <4>3. QED
        BY <3>4, <4>1, <4>2
    <3>6. QED
      BY <1>3, <3>5 DEF Think, StoreTypeOK, rowVars, ledgerVars, gateVars
  <2>2. CASE Raise(t)
    BY <1>3, <2>2, LeaveType DEF Raise, Think, StoreTypeOK, rowVars, ledgerVars, gateVars
  <2>3. QED
    BY <1>3, <2>1, <2>2 DEF Think
<1>4. CASE Planned(t)
  <2> DEFINE n == task[t].steps
             m == [next |-> NodeAfter(n, 0), len |-> n, idx |-> 0]
  <2>1. m \in Checkpoint /\ RoutedState(m)
    BY <1>1, StoreAssumption DEF Task, Checkpoint, Nodes, NodeAfter, RoutedState
  <2>2. CASE Superstep(t, m) /\ UNCHANGED <<rowVars, checkpoint>>
    <3>1. TaskOK'
      BY <2>1, <2>2, SuperstepType
    <3>2. QED
      BY <1>4, <2>2, <3>1 DEF Planned, StoreTypeOK, rowVars, ledgerVars, gateVars
  <2>3. CASE Transition(Job(t), RUNNING) /\ Superstep(t, m) /\ UNCHANGED checkpoint
    <3>1. TaskOK'
      BY <2>1, <2>3, SuperstepType
    <3>2. QED
      BY <1>1, <1>4, <2>3, <3>1, TransitionType, StateNames
         DEF Planned, StoreTypeOK, ledgerVars, gateVars
  <2>4. CASE Refused(Job(t), RUNNING) /\ Raise(t)
    BY <1>4, <2>4, LeaveType
       DEF Raise, Refused, Planned, StoreTypeOK, rowVars, ledgerVars, gateVars
  <2>5. QED
    BY <1>4, <2>2, <2>3, <2>4 DEF Planned
<1>5. QED
  BY <1>2, <1>3, <1>4

\* What Min returns is in the set: the ids of approvals are natural numbers.
LEMMA MinInSet ==
    ASSUME NEW S \in SUBSET Nat, S # {}
    PROVE  Min(S) \in S /\ \A x \in S : Min(S) <= x
<1>1. \E x \in S : \A y \in S : x <= y
  <2> DEFINE R == OpToRel(<, Nat)
  <2>1. IsWellFoundedOn(R, Nat)
    BY NatLessThanWellFounded
  <2>2. PICK x \in S : \A y \in S : ~(<<y, x>> \in R)
    BY <2>1, WFMin
  <2>3. \A y \in S : ~(y < x)
    BY <2>2 DEF OpToRel
  <2>4. QED
    BY <2>3
<1>2. QED
  BY <1>1 DEF Min

\* The approval queries return ids of approvals.
LEMMA SettleableType ==
    ASSUME StoreTypeOK, NEW j \in Jobs
    PROVE  /\ ForJob(j) \subseteq ApprovalIds
           /\ Settleable(j) \subseteq ApprovalIds
           /\ Undecided(j) \subseteq ApprovalIds
           /\ \A cmd : DecidedUnconsumed(j, cmd) \subseteq ApprovalIds
           /\ ApprovalIds \subseteq Nat
  BY StoreAssumption
     DEF StoreTypeOK, ForJob, Settleable, Undecided, DecidedUnconsumed, ApprovalIds

\* Consuming, whatever the id, keeps the approval rows well typed.
LEMMA ConsumeType ==
    ASSUME StoreTypeOK, NEW a, Consume(a)
    PROVE  approval' \in [ApprovalIds -> Approval] /\ requested' \in 0 .. MaxApprovals
<1>1. CASE a \in ApprovalIds
  BY <1>1 DEF StoreTypeOK, Consume, Approval
<1>2. CASE a \notin ApprovalIds
  BY <1>2 DEF StoreTypeOK, Consume
<1>3. QED
  BY <1>1, <1>2

\* Running a command, whichever its approval, keeps the counters well typed.
LEMMA ExecuteType ==
    ASSUME StoreTypeOK, NEW a, Execute(a)
    PROVE  runs' \in [ApprovalIds -> 0 .. RunCap]
<1>1. CASE a \in ApprovalIds
  <2>1. runs[a] \in 0 .. RunCap
    BY <1>1 DEF StoreTypeOK
  <2>2. (IF runs[a] < RunCap THEN runs[a] + 1 ELSE runs[a]) \in 0 .. RunCap
    BY <2>1, StoreAssumption
  <2>3. QED
    BY <2>2 DEF StoreTypeOK, Execute
<1>2. CASE a \notin ApprovalIds
  BY <1>2 DEF StoreTypeOK, Execute
<1>3. QED
  BY <1>1, <1>2

\* The step boundary, and the moves to blocked, waiting_approval and failed.
LEMMA BoundaryType ==
    ASSUME StoreTypeOK, TaskOK, NEW t \in Tasks,
           Check(t) \/ Block(t) \/ Hold(t) \/ Park(t) \/ Fail(t)
    PROVE  StoreTypeOK' /\ TaskOK'
<1>1. task[t] \in Task /\ Job(t) \in Jobs
  BY DEF TaskOK, Task, Job
<1>2. task[t].pc \in ExecutePCs
  BY DEF Check, Block, Hold, Park, Fail, At, ExecutePCs
<1>3. task[t].mem.next = "execute"
  BY <1>2 DEF TaskOK, Routed
<1>4. \/ /\ UNCHANGED checkpoint
         /\ \E p \in {"block", "settle", "park", "complete", "failing"} : Go(t, p)
      \/ Halt(t) \/ Raise(t)
  BY DEF Check, Block, Hold, Park, Fail, storeVars
<1>5. TaskOK' /\ checkpoint' \in [Jobs -> Checkpoint]
  <2>1. CASE /\ UNCHANGED checkpoint
             /\ \E p \in {"block", "settle", "park", "complete", "failing"} : Go(t, p)
    <3>1. PICK p \in {"block", "settle", "park", "complete", "failing"} : Go(t, p)
      BY <2>1
    <3>2. p \in PCs
      BY PCsAreNamed
    <3>3. QED
      BY <1>3, <2>1, <3>1, <3>2, GoType DEF StoreTypeOK
  <2>2. CASE Halt(t) \/ Raise(t)
    BY <2>2, LeaveType DEF Halt, Raise, StoreTypeOK
  <2>3. QED
    BY <1>4, <2>1, <2>2
<1>6. \/ UNCHANGED rowVars
      \/ \E target \in {BLOCKED, WAITING_APPROVAL, FAILED} : Transition(Job(t), target)
  BY DEF Check, Block, Hold, Park, Fail, storeVars, rowVars, Refused
<1>7. /\ state' \in [Jobs -> States \cup {NoRow}]
      /\ clock' \in [Jobs -> {"unset", "ticking", "expired"}]
  BY <1>1, <1>6, TransitionType, StateNames DEF StoreTypeOK, rowVars
<1>8. UNCHANGED <<ledgerVars, gateVars, runs>>
  BY DEF Check, Block, Hold, Park, Fail, storeVars, ledgerVars, gateVars
<1>9. QED
  BY <1>5, <1>7, <1>8 DEF StoreTypeOK, ledgerVars, gateVars

\* settle_decided_approvals.
LEMMA SettleType ==
    ASSUME StoreTypeOK, TaskOK, NEW t \in Tasks,
           \/ SettleRead(t) \/ SettleRejected(t) \/ SettleExecute(t)
           \/ SettleConsume(t) \/ SettleDone(t)
    PROVE  StoreTypeOK' /\ TaskOK'
<1>1. task[t] \in Task /\ Job(t) \in Jobs
  BY DEF TaskOK, Task, Job
<1>2. task[t].mem.next = "execute"
  BY DEF SettleRead, SettleRejected, SettleExecute, SettleConsume, SettleDone, At,
         ExecutePCs, TaskOK, Routed
<1>4. CASE SettleRead(t)
  <2>1. task' \in [Tasks -> Task]
    BY <1>1, <1>4, SettleableType, PCsAreNamed DEF SettleRead, TaskOK, Task
  <2>2. TaskOK'
    BY <1>1, <1>2, <1>4, <2>1
       DEF SettleRead, TaskOK, Routed, RoutedState, storeVars, Task
  <2>3. QED
    BY <1>4, <2>2 DEF SettleRead, StoreTypeOK, storeVars
<1>5. CASE SettleRejected(t)
  <2>1. task' \in [Tasks -> Task]
    BY <1>1, <1>5, PCsAreNamed DEF SettleRejected, TaskOK, Task
  <2>2. TaskOK'
    BY <1>1, <1>2, <1>5, <2>1 DEF SettleRejected, TaskOK, Routed, RoutedState, Task
  <2>3. QED
    BY <1>5, <2>2, ConsumeType DEF SettleRejected, StoreTypeOK, rowVars, ledgerVars
<1>6. CASE SettleExecute(t)
  <2>1. runs' \in [ApprovalIds -> 0 .. RunCap]
    BY <1>6, ExecuteType DEF SettleExecute, StoreTypeOK
  <2>2. TaskOK'
    BY <1>2, <1>6, GoType, PCsAreNamed DEF SettleExecute
  <2>3. QED
    BY <1>6, <2>1, <2>2 DEF SettleExecute, StoreTypeOK, rowVars, ledgerVars, gateVars
<1>7. CASE SettleConsume(t)
  <2>1. task' \in [Tasks -> Task]
    BY <1>1, <1>7, PCsAreNamed DEF SettleConsume, TaskOK, Task
  <2>2. TaskOK'
    BY <1>1, <1>2, <1>7, <2>1 DEF SettleConsume, TaskOK, Routed, RoutedState, Task
  <2>3. QED
    BY <1>7, <2>2, ConsumeType DEF SettleConsume, StoreTypeOK, rowVars, ledgerVars
<1>8. CASE SettleDone(t)
  <2>1. TaskOK'
    BY <1>2, <1>8, GoType, PCsAreNamed DEF SettleDone, storeVars
  <2>2. QED
    BY <1>8, <2>1 DEF SettleDone, StoreTypeOK, storeVars
<1>9. QED
  BY <1>4, <1>5, <1>6, <1>7, <1>8

\* The end of a step, the finalize node, and the checkpoint becoming durable.
LEMMA FinishType ==
    ASSUME StoreTypeOK, TaskOK, NEW t \in Tasks,
           Complete(t) \/ Finalize(t) \/ Close(t) \/ Flush(t)
    PROVE  StoreTypeOK' /\ TaskOK'
<1>1. task[t] \in Task /\ Job(t) \in Jobs
  BY DEF TaskOK, Task, Job
<1>2. task[t].mem \in Checkpoint /\ RoutedState(task[t].mem)
  BY <1>1 DEF Task, TaskOK, Routed
<1>3. CASE Complete(t)
  <2> DEFINE m == task[t].mem
             n == [m EXCEPT !.idx = m.idx + 1, !.next = NodeAfter(m.len, m.idx + 1)]
  <2>1. m.next = "execute"
    BY <1>3 DEF Complete, At, ExecutePCs, TaskOK, Routed
  <2>2. m.idx < m.len /\ m.len \in 0 .. MaxSteps /\ m.idx \in 0 .. MaxSteps
    BY <1>2, <2>1 DEF RoutedState, Checkpoint
  <2>3. m.idx + 1 \in Steps /\ m.idx + 1 \in 0 .. MaxSteps
    BY <2>2, StoreAssumption DEF Steps
  <2>4. n \in Checkpoint
    BY <1>2, <2>2, <2>3 DEF Checkpoint, Nodes, NodeAfter
  <2>5. RoutedState(n)
    BY <1>2, <2>2, <2>3 DEF RoutedState, NodeAfter, Checkpoint
  <2>6. Superstep(t, n) /\ UNCHANGED checkpoint
    BY <1>3 DEF Complete
  <2>7. TaskOK'
    BY <2>4, <2>5, <2>6, SuperstepType
  <2>8. completed' \in [Jobs -> SUBSET Steps]
    BY <1>1, <1>3, <2>3 DEF Complete, StoreTypeOK
  <2>9. QED
    BY <1>3, <2>7, <2>8 DEF Complete, StoreTypeOK, rowVars, gateVars
<1>4. CASE Finalize(t)
  <2>1. TaskOK'
    BY <1>4, GoType, PCsAreNamed DEF Finalize, ExecutePCs
  <2>2. closed' \in [Jobs -> BOOLEAN]
    BY <1>4 DEF Finalize, StoreTypeOK
  <2>3. QED
    BY <1>4, <2>1, <2>2 DEF Finalize, StoreTypeOK, rowVars, gateVars
<1>5. CASE Close(t)
  <2>1. CASE Refused(Job(t), COMPLETED) /\ Raise(t)
    BY <1>5, <2>1, LeaveType
       DEF Raise, Refused, Close, StoreTypeOK, rowVars, ledgerVars, gateVars
  <2>2. CASE /\ Transition(Job(t), COMPLETED)
             /\ task' = [task EXCEPT ![t] =
                           [IdleTask EXCEPT !.pc = "report", !.job = Job(t)]]
             /\ checkpoint' = [checkpoint EXCEPT ![Job(t)] =
                                 [task[t].mem EXCEPT !.next = "end"]]
    <3> DEFINE m == [task[t].mem EXCEPT !.next = "end"]
               r == [IdleTask EXCEPT !.pc = "report", !.job = Job(t)]
    <3>1. m \in Checkpoint /\ RoutedState(m)
      BY <1>2 DEF Checkpoint, Nodes, RoutedState
    <3>2. r \in Task /\ RoutedState(r.mem) /\ r.pc \notin ExecutePCs
      BY <1>1, IdleTaskType, PCsAreNamed DEF Task, IdleTask, ExecutePCs
    <3>3. checkpoint' \in [Jobs -> Checkpoint]
          /\ \A j \in Jobs : RoutedState(checkpoint'[j])
      BY <1>1, <2>2, <3>1 DEF StoreTypeOK, TaskOK, Routed
    <3>4. task' \in [Tasks -> Task]
      BY <2>2, <3>2 DEF TaskOK
    <3>5. \A u \in Tasks : /\ RoutedState(task'[u].mem)
                           /\ task'[u].pc \in ExecutePCs => task'[u].mem.next = "execute"
      BY <2>2, <3>2 DEF TaskOK, Routed
    <3>6. TaskOK'
      BY <3>3, <3>4, <3>5 DEF TaskOK, Routed, RoutedState
    <3>7. QED
      BY <1>1, <1>5, <2>2, <3>3, <3>6, TransitionType, StateNames
         DEF Close, StoreTypeOK, ledgerVars, gateVars
  <2>3. QED
    BY <1>5, <2>1, <2>2 DEF Close
<1>6. CASE Flush(t)
  <2>1. checkpoint' \in [Jobs -> Checkpoint]
        /\ \A j \in Jobs : RoutedState(checkpoint'[j])
    BY <1>1, <1>2, <1>6 DEF Flush, StoreTypeOK, TaskOK, Routed
  <2>2. task' \in [Tasks -> Task]
    BY <1>6 DEF Flush, TaskOK, Task
  <2>3. TaskOK'
    BY <1>6, <2>1, <2>2 DEF Flush, TaskOK, Routed, RoutedState, ExecutePCs
  <2>4. QED
    BY <1>6, <2>1, <2>3 DEF Flush, StoreTypeOK, rowVars, ledgerVars, gateVars
<1>7. QED
  BY <1>3, <1>4, <1>5, <1>6

-----------------------------------------------------------------------------
CallOK == call \in [Tasks -> [Calls -> Call]]

\* The executor's turn: a call starts, the turn ends.
LEMMA TurnType ==
    ASSUME StoreTypeOK, TaskOK, CallOK, NEW t \in Tasks,
           \/ \E c \in Calls, cmd \in Commands : StartCall(t, c, cmd)
           \/ ExecutorReturns(t)
           \/ ExecutorRaises(t)
    PROVE  StoreTypeOK' /\ TaskOK' /\ CallOK'
<1>1. task[t] \in Task /\ Job(t) \in Jobs
  BY DEF TaskOK, Task, Job
<1>2. task[t].pc = "act" /\ task[t].mem.next = "execute"
  BY DEF StartCall, ExecutorReturns, ExecutorRaises, At, ExecutePCs, TaskOK, Routed
<1>3. UNCHANGED storeVars
  BY DEF StartCall, ExecutorReturns, ExecutorRaises
<1>4. StoreTypeOK'
  BY <1>3 DEF StoreTypeOK, storeVars
<1>5. IdleCall \in Call
  BY StoreAssumption DEF IdleCall, Call, CallPCs
<1>6. CASE \E c \in Calls, cmd \in Commands : StartCall(t, c, cmd)
  <2>1. PICK c \in Calls, cmd \in Commands : StartCall(t, c, cmd)
    BY <1>6
  <2>2. task' \in [Tasks -> Task]
    BY <1>1, <2>1 DEF StartCall, TaskOK, Task
  <2>3. TaskOK'
    BY <1>1, <1>2, <1>3, <2>1, <2>2
       DEF StartCall, TaskOK, Routed, RoutedState, Task, storeVars
  <2>4. [pc |-> "lookup", cmd |-> cmd, ap |-> 0] \in Call
    BY StoreAssumption DEF Call, CallPCs
  <2>5. CallOK'
    BY <2>1, <2>4 DEF StartCall, CallOK
  <2>6. QED
    BY <1>4, <2>3, <2>5
<1>7. CASE ExecutorReturns(t)
  <2>1. task' \in [Tasks -> Task]
    BY <1>1, <1>7, PCsAreNamed DEF ExecutorReturns, TaskOK, Task
  <2>2. TaskOK'
    BY <1>1, <1>2, <1>3, <1>7, <2>1
       DEF ExecutorReturns, TaskOK, Routed, RoutedState, Task, storeVars
  <2>3. QED
    BY <1>4, <1>7, <2>2 DEF ExecutorReturns, CallOK
<1>8. CASE ExecutorRaises(t)
  <2>1. task' \in [Tasks -> Task]
    BY <1>1, <1>8, PCsAreNamed DEF ExecutorRaises, TaskOK, Task
  <2>2. TaskOK'
    BY <1>1, <1>2, <1>3, <1>8, <2>1
       DEF ExecutorRaises, TaskOK, Routed, RoutedState, Task, storeVars
  <2>3. CallOK'
    BY <1>5, <1>8 DEF ExecutorRaises, CallOK
  <2>4. QED
    BY <1>4, <2>2, <2>3
<1>9. QED
  BY <1>6, <1>7, <1>8

\* One step of a run_command call.
LEMMA ToolType ==
    ASSUME StoreTypeOK, TaskOK, CallOK, NEW t \in Tasks, NEW c \in Calls, ToolStep(t, c)
    PROVE  StoreTypeOK' /\ TaskOK' /\ CallOK'
<1>1. task[t] \in Task /\ Job(t) \in Jobs /\ call[t][c] \in Call
  BY DEF TaskOK, Task, Job, CallOK
<1>2. IdleCall \in Call
  BY StoreAssumption DEF IdleCall, Call, CallPCs
<1>3. ASSUME NEW p \in CallPCs, CallGo(t, c, p) PROVE CallOK'
  <2>1. [call[t][c] EXCEPT !.pc = p] \in Call
    BY <1>1 DEF Call
  <2>2. call' = [call EXCEPT ![t] = [call[t] EXCEPT ![c] = [call[t][c] EXCEPT !.pc = p]]]
    BY <1>3 DEF CallGo, CallOK
  <2>3. QED
    BY <2>1, <2>2 DEF CallOK
<1>4. Return(t, c) => CallOK'
  BY <1>2 DEF Return, CallOK
<1>5. UNCHANGED <<task, checkpoint>>
  BY DEF ToolStep, LookUp, AskPending, CallCreate, CallReject, CallConsume, CallExecute,
         storeVars
<1>6. TaskOK'
  BY <1>5 DEF TaskOK, Routed, RoutedState
<1>7. CASE LookUp(t, c)
  <2> DEFINE found == DecidedUnconsumed(Job(t), call[t][c].cmd)
  <2>1. StoreTypeOK'
    BY <1>7 DEF LookUp, StoreTypeOK, storeVars
  <2>2. CASE CallGo(t, c, "ask")
    BY <1>3, <1>6, <2>1, <2>2 DEF CallPCs
  <2>3. CASE found # {}
    <3>1. Min(found) \in 0 .. MaxApprovals
      BY <1>1, <2>3, SettleableType, MinInSet, StoreAssumption DEF ApprovalIds
    <3>2. \E p \in {"reject", "consume"} :
             call' = [call EXCEPT ![t][c] = [@ EXCEPT !.ap = Min(found), !.pc = p]]
      BY <1>7, <2>3 DEF LookUp
    <3>3. PICK p \in {"reject", "consume"} :
             call' = [call EXCEPT ![t][c] = [@ EXCEPT !.ap = Min(found), !.pc = p]]
      BY <3>2
    <3>4. [call[t][c] EXCEPT !.ap = Min(found), !.pc = p] \in Call
      BY <1>1, <3>1 DEF Call, CallPCs
    <3>5. CallOK'
      BY <3>3, <3>4 DEF CallOK
    <3>6. QED
      BY <1>6, <2>1, <3>5
  <2>4. QED
    BY <1>7, <2>2, <2>3 DEF LookUp
<1>8. CASE AskPending(t, c)
  <2>1. CallOK'
    BY <1>3, <1>4, <1>8 DEF AskPending, CallPCs
  <2>2. QED
    BY <1>6, <1>8, <2>1 DEF AskPending, StoreTypeOK, storeVars
<1>9. CASE CallCreate(t, c)
  <2>1. requested + 1 \in ApprovalIds /\ requested + 1 \in 0 .. MaxApprovals
    BY <1>9, StoreAssumption DEF CallCreate, CreateApproval, StoreTypeOK, ApprovalIds
  <2>2. [job |-> Job(t), cmd |-> call[t][c].cmd, decision |-> "undecided",
         consumed |-> FALSE] \in Approval
    BY <1>1 DEF Call, Approval, Decisions
  <2>3. StoreTypeOK'
    BY <1>9, <2>1, <2>2 DEF CallCreate, CreateApproval, StoreTypeOK, rowVars, ledgerVars
  <2>4. QED
    BY <1>4, <1>6, <1>9, <2>3 DEF CallCreate
<1>10. CASE CallReject(t, c) \/ CallConsume(t, c)
  <2>1. CallOK'
    BY <1>3, <1>4, <1>10 DEF CallReject, CallConsume, CallPCs
  <2>2. Consume(call[t][c].ap)
    BY <1>10 DEF CallReject, CallConsume
  <2>3. approval' \in [ApprovalIds -> Approval] /\ requested' \in 0 .. MaxApprovals
    BY <2>2, ConsumeType
  <2>4. QED
    BY <1>6, <1>10, <2>1, <2>3
       DEF CallReject, CallConsume, StoreTypeOK, rowVars, ledgerVars
<1>11. CASE CallExecute(t, c)
  <2>1. runs' \in [ApprovalIds -> 0 .. RunCap]
    BY <1>11, ExecuteType DEF CallExecute
  <2>2. QED
    BY <1>4, <1>6, <1>11, <2>1 DEF CallExecute, StoreTypeOK, rowVars, ledgerVars, gateVars
<1>12. QED
  BY <1>7, <1>8, <1>9, <1>10, <1>11 DEF ToolStep

-----------------------------------------------------------------------------
\* The inductive invariant, and the part of it about the process.
TypeInv == TypeOK /\ Routed

ProcOK ==
    /\ proc \in {"boot", "up", "down"}
    /\ strands \subseteq Jobs
    /\ claiming \in BOOLEAN
    /\ kicks \in [Jobs -> 0 .. MaxKicks]
    /\ crashes \in 0 .. MaxCrashes
    /\ retries \in 0 .. MaxRetries

\* TypeInv, split into the parts that steps disturb.
LEMMA TypeInvParts ==
    /\ TypeInv <=> StoreTypeOK /\ TaskOK /\ CallOK /\ ProcOK
    /\ TypeInv' <=> StoreTypeOK' /\ TaskOK' /\ CallOK' /\ ProcOK'
  BY DEF TypeInv, TypeOK, TaskOK, CallOK, ProcOK

\* A spawned task is well typed.
LEMMA SpawnType ==
    ASSUME TaskOK, NEW j \in Jobs, NEW s \in States \cup {NoRow}, Spawn(j, s),
           UNCHANGED checkpoint
    PROVE  TaskOK'
<1>1. PICK t \in Tasks :
         task' = [task EXCEPT ![t] = [IdleTask EXCEPT !.pc = "look", !.job = j, !.view = s]]
  BY DEF Spawn
<1> DEFINE r == [IdleTask EXCEPT !.pc = "look", !.job = j, !.view = s]
<1>2. r \in Task /\ RoutedState(r.mem) /\ r.pc \notin ExecutePCs
  BY IdleTaskType, PCsAreNamed DEF Task, IdleTask, ExecutePCs
<1>3. QED
  BY <1>1, <1>2 DEF TaskOK, Routed, RoutedState

\* The end of a task.
LEMMA EndType ==
    ASSUME TaskOK, NEW t \in Tasks, task' = [task EXCEPT ![t] = IdleTask],
           UNCHANGED checkpoint
    PROVE  TaskOK'
<1>1. IdleTask.pc \notin ExecutePCs
  BY DEF IdleTask, ExecutePCs
<1>2. QED
  BY <1>1, IdleTaskType DEF TaskOK, Routed, RoutedState

\* Every step of a task keeps the types.
LEMMA TaskStepType ==
    ASSUME TypeInv, NEW t \in Tasks, TaskStep(t)
    PROVE  TypeInv'
<1>1. StoreTypeOK /\ TaskOK /\ CallOK /\ ProcOK
  BY TypeInvParts
<1>2. ProcOK'
  BY <1>1 DEF TaskStep, ProcOK, procVars, spentVars
<1>3. CASE (RunnerStep(t) \/ Flush(t)) /\ UNCHANGED call
  <2>1. StoreTypeOK' /\ TaskOK'
    BY <1>1, <1>3, RunType, PlanType, BoundaryType, SettleType, FinishType DEF RunnerStep
  <2>2. CallOK'
    BY <1>1, <1>3 DEF CallOK
  <2>3. QED
    BY <1>2, <2>1, <2>2, TypeInvParts
<1>4. CASE ExecutorStep(t)
  <2>1. StoreTypeOK' /\ TaskOK' /\ CallOK'
    BY <1>1, <1>4, TurnType, ToolType DEF ExecutorStep
  <2>2. QED
    BY <1>2, <2>1, TypeInvParts
<1>5. CASE RunCrashed(t) \/ Report(t)
  <2>1. /\ task' = [task EXCEPT ![t] = IdleTask]
        /\ UNCHANGED <<checkpoint, call, ledgerVars, gateVars, runs>>
    BY <1>5 DEF RunCrashed, Report, storeVars, ledgerVars, gateVars
  <2>2. TaskOK' /\ CallOK'
    BY <1>1, <2>1, EndType DEF CallOK
  <2>3. Job(t) \in Jobs
    BY <1>1 DEF TaskOK, Task, Job
  <2>4. Transition(Job(t), FAILED) \/ UNCHANGED rowVars
    BY <1>5 DEF RunCrashed, Report, Refused, storeVars, rowVars
  <2>5. StoreTypeOK'
    BY <1>1, <2>1, <2>3, <2>4, TransitionType, StateNames
       DEF StoreTypeOK, rowVars, ledgerVars, gateVars
  <2>6. QED
    BY <1>2, <2>2, <2>5, TypeInvParts
<1>6. QED
  BY <1>3, <1>4, <1>5 DEF TaskStep

\* Every other step of the worker keeps the types.
LEMMA WorkerType ==
    ASSUME TypeInv, Worker
    PROVE  TypeInv'
<1>1. StoreTypeOK /\ TaskOK /\ CallOK /\ ProcOK
  BY TypeInvParts
<1>2. \A j \in Jobs : state[j] \in States \cup {NoRow}
  BY <1>1 DEF StoreTypeOK
<1>3. ASSUME UNCHANGED storeVars PROVE StoreTypeOK' /\ UNCHANGED checkpoint
  BY <1>1, <1>3 DEF StoreTypeOK, storeVars
<1>4. ASSUME UNCHANGED storeVars, UNCHANGED task PROVE TaskOK'
  BY <1>1, <1>3, <1>4 DEF TaskOK, Routed, RoutedState
<1>5. ASSUME UNCHANGED call PROVE CallOK'
  BY <1>1, <1>5 DEF CallOK
<1>6. ASSUME NEW j \in Jobs, Recover(j) PROVE TypeInv'
  <2>1. StoreTypeOK' /\ TaskOK' /\ CallOK'
    BY <1>1, <1>2, <1>3, <1>5, <1>6, SpawnType DEF Recover
  <2>2. ProcOK'
    BY <1>1, <1>6 DEF Recover, ProcOK, spentVars
  <2>3. QED
    BY <2>1, <2>2, TypeInvParts
<1>7. ASSUME NEW j \in Jobs, Claim(j) PROVE TypeInv'
  <2>1. PLANNING \in States \cup {NoRow} /\ UNCHANGED checkpoint
    BY <1>7, StateNames DEF Claim
  <2>2. TaskOK' /\ CallOK'
    BY <1>1, <1>5, <1>7, <2>1, SpawnType DEF Claim
  <2>3. StoreTypeOK'
    BY <1>1, <1>7, <2>1 DEF Claim, StoreTypeOK, ledgerVars, gateVars
  <2>4. ProcOK'
    BY <1>1, <1>7 DEF Claim, ProcOK, spentVars
  <2>5. QED
    BY <2>2, <2>3, <2>4, TypeInvParts
<1>8. ASSUME NEW j \in Jobs, Resume(j) PROVE TypeInv'
  <2>1. StoreTypeOK' /\ TaskOK' /\ CallOK'
    BY <1>1, <1>2, <1>3, <1>4, <1>5, <1>8, SpawnType DEF Resume
  <2>2. kicks[j] \in 0 .. MaxKicks /\ kicks[j] - 1 \in 0 .. MaxKicks
    BY <1>1, <1>8, WorkerAssumption DEF Resume, ProcOK
  <2>3. ProcOK'
    BY <1>1, <1>8, <2>2 DEF Resume, ProcOK, spentVars
  <2>4. QED
    BY <2>1, <2>3, TypeInvParts
<1>9. CASE Serve \/ Poll \/ ClaimNothing
  <2>1. StoreTypeOK' /\ TaskOK' /\ CallOK'
    BY <1>3, <1>4, <1>5, <1>9 DEF Serve, Poll, ClaimNothing
  <2>2. ProcOK'
    BY <1>1, <1>9 DEF Serve, Poll, ClaimNothing, ProcOK, spentVars
  <2>3. QED
    BY <2>1, <2>2, TypeInvParts
<1>10. CASE Crash
  <2>1. StoreTypeOK' /\ UNCHANGED checkpoint
    BY <1>3, <1>10 DEF Crash
  <2>2. IdleTask.pc \notin ExecutePCs
    BY DEF IdleTask, ExecutePCs
  <2>3. TaskOK'
    BY <1>1, <1>10, <2>1, <2>2, IdleTaskType DEF Crash, TaskOK, Routed, RoutedState
  <2>4. IdleCall \in Call
    BY StoreAssumption DEF IdleCall, Call, CallPCs
  <2>5. CallOK'
    BY <1>10, <2>4 DEF Crash, CallOK
  <2>6. ProcOK'
    <3>1. crashes' \in 0 .. MaxCrashes /\ 0 \in 0 .. MaxKicks
      BY <1>1, <1>10, WorkerAssumption DEF Crash, ProcOK
    <3>2. kicks' \in [Jobs -> 0 .. MaxKicks]
      BY <1>10, <3>1 DEF Crash
    <3>3. QED
      BY <1>1, <1>10, <3>1, <3>2 DEF Crash, ProcOK
  <2>7. QED
    BY <2>1, <2>3, <2>5, <2>6, TypeInvParts
<1>11. CASE Boot
  <2>1. StoreTypeOK' /\ TaskOK' /\ CallOK'
    BY <1>3, <1>4, <1>5, <1>11 DEF Boot
  <2>2. ProcOK'
    BY <1>1, <1>11 DEF Boot, ProcOK, StrandedLive, spentVars
  <2>3. QED
    BY <2>1, <2>2, TypeInvParts
<1>12. QED
  BY <1>6, <1>7, <1>8, <1>9, <1>10, <1>11, TaskStepType DEF Worker

\* The owner's requests and the wall clock keep the types.
LEMMA OwnerType ==
    ASSUME TypeInv, Owner \/ \E j \in Jobs : ClockExpires(j)
    PROVE  TypeInv'
<1>1. StoreTypeOK /\ TaskOK /\ CallOK /\ ProcOK
  BY TypeInvParts
<1>2. ASSUME UNCHANGED task, UNCHANGED call, UNCHANGED checkpoint PROVE TaskOK' /\ CallOK'
  BY <1>1, <1>2 DEF TaskOK, Routed, RoutedState, CallOK
<1>3. ASSUME NEW j \in Jobs, Kick(j) PROVE kicks' \in [Jobs -> 0 .. MaxKicks]
  <2>1. kicks[j] \in 0 .. MaxKicks /\ kicks[j] + 1 \in 0 .. MaxKicks
    BY <1>1, <1>3, WorkerAssumption DEF Kick, ProcOK
  <2>2. QED
    BY <1>1, <1>3, <2>1 DEF Kick, ProcOK
<1>4. ASSUME NEW j \in Jobs, Create(j) PROVE TypeInv'
  <2>1. StoreTypeOK'
    BY <1>1, <1>4, StateNames DEF Create, CreateRow, StoreTypeOK, ledgerVars, gateVars
  <2>2. ProcOK'
    BY <1>1, <1>4 DEF Create, ProcOK, procVars, spentVars
  <2>3. QED
    BY <1>2, <1>4, <2>1, <2>2, TypeInvParts DEF Create
<1>5. ASSUME NEW j \in Jobs, CancelJob(j) PROVE TypeInv'
  <2>1. StoreTypeOK'
    BY <1>1, <1>5, TransitionType, StateNames
       DEF CancelJob, StoreTypeOK, ledgerVars, gateVars
  <2>2. ProcOK'
    BY <1>1, <1>5 DEF CancelJob, ProcOK, procVars, spentVars
  <2>3. QED
    BY <1>2, <1>5, <2>1, <2>2, TypeInvParts DEF CancelJob
<1>6. ASSUME NEW j \in Jobs, RetryJob(j) PROVE TypeInv'
  <2>1. StoreTypeOK'
    BY <1>1, <1>6, TransitionType, StateNames
       DEF RetryJob, StoreTypeOK, ledgerVars, gateVars
  <2>2. retries' \in 0 .. MaxRetries
    BY <1>1, <1>6, WorkerAssumption DEF RetryJob, ProcOK
  <2>3. ProcOK'
    BY <1>1, <1>3, <1>6, <2>2 DEF RetryJob, Kick, ProcOK
  <2>4. QED
    BY <1>2, <1>6, <2>1, <2>3, TypeInvParts DEF RetryJob
<1>7. ASSUME NEW a \in ApprovalIds, NEW d \in {"approved", "rejected"},
             DecideApproval(a, d)
      PROVE  TypeInv'
  <2>1. approval[a] \in Approval /\ approval[a].job \in Jobs
    BY <1>1 DEF StoreTypeOK, Approval
  <2>2. [approval[a] EXCEPT !.decision = d] \in Approval
    BY <2>1 DEF Approval, Decisions
  <2>3. StoreTypeOK'
    BY <1>1, <1>7, <2>2 DEF DecideApproval, RecordDecision, StoreTypeOK, rowVars, ledgerVars
  <2>4. ProcOK'
    BY <1>1, <1>3, <1>7, <2>1 DEF DecideApproval, Kick, ProcOK
  <2>5. QED
    BY <1>2, <1>7, <2>3, <2>4, TypeInvParts DEF DecideApproval
<1>8. ASSUME NEW j \in Jobs, ClockExpires(j) PROVE TypeInv'
  <2>1. StoreTypeOK'
    BY <1>1, <1>8 DEF ClockExpires, StoreTypeOK, ledgerVars, gateVars
  <2>2. ProcOK'
    BY <1>1, <1>8 DEF ClockExpires, ProcOK, procVars, spentVars
  <2>3. QED
    BY <1>2, <1>8, <2>1, <2>2, TypeInvParts DEF ClockExpires
<1>9. QED
  BY <1>4, <1>5, <1>6, <1>7, <1>8 DEF Owner

\* The system starts well typed.
LEMMA InitType == Init => TypeInv
<1> SUFFICES ASSUME Init PROVE TypeInv
  OBVIOUS
<1>1. StoreTypeOK
  <2>1. NoCheckpoint \in Checkpoint /\ NoApproval \in Approval
    BY StoreAssumption
       DEF NoCheckpoint, Checkpoint, Nodes, NoApproval, Approval, Decisions, Jobs
  <2>2. 0 \in 0 .. MaxApprovals /\ 0 \in 0 .. RunCap
    BY StoreAssumption
  <2>3. QED
    BY <2>1, <2>2 DEF Init, StoreInit, StoreTypeOK
<1>2. TaskOK
  <2>1. RoutedState(NoCheckpoint) /\ IdleTask.pc \notin ExecutePCs
    BY DEF RoutedState, NoCheckpoint, IdleTask, ExecutePCs
  <2>2. QED
    BY <2>1, IdleTaskType DEF Init, StoreInit, TaskOK, Routed
<1>3. CallOK
  <2>1. IdleCall \in Call
    BY StoreAssumption DEF IdleCall, Call, CallPCs
  <2>2. QED
    BY <2>1 DEF Init, CallOK
<1>4. ProcOK
  <2>1. 0 \in 0 .. MaxKicks /\ 0 \in 0 .. MaxCrashes /\ 0 \in 0 .. MaxRetries
    BY WorkerAssumption
  <2>2. QED
    BY <2>1 DEF Init, ProcOK
<1>5. QED
  BY <1>1, <1>2, <1>3, <1>4, TypeInvParts

\* TypeInv is inductive.
LEMMA TypeStep == TypeInv /\ [Next]_vars => TypeInv'
<1> SUFFICES ASSUME TypeInv, [Next]_vars PROVE TypeInv'
  OBVIOUS
<1>1. CASE Next
  BY <1>1, WorkerType, OwnerType DEF Next
<1>2. CASE UNCHANGED vars
  BY <1>2 DEF vars, storeVars, procVars, spentVars, TypeInv, TypeOK, StoreTypeOK, Routed,
              RoutedState
<1>3. QED
  BY <1>1, <1>2

(* The type invariant of the job system: with it, a task completes a step    *)
(* of its plan and no step beyond, and an approval a task settles exists.    *)
THEOREM TypeCorrect == Spec => []TypeOK
<1>1. TypeInv => TypeOK
  BY DEF TypeInv
<1>2. QED
  BY <1>1, InitType, TypeStep, PTL DEF Spec

-----------------------------------------------------------------------------
(* OnlyApprovedRuns is not inductive: why a command that is about to run is  *)
(* approved is a matter of the step before, and why its approval still is    *)
(* for the job of the task is a matter of the whole turn.  GateInv adds that *)
(* an approval row has a decision column exactly from its insert on, that a  *)
(* call is in flight only during the executor's turn of its task, and that   *)
(* the approval a call goes on to consume or to execute backs its command.   *)

Inserted == \A a \in ApprovalIds : a <= requested <=> approval[a].decision # "absent"

InTurn == \A t \in Tasks, c \in Calls : ~CallAt(t, c, "idle") => At(t, "act")

RanApproved == \A a \in ApprovalIds : runs[a] > 0 => approval[a].decision = "approved"

Backed(t, c) ==
    LET a == call[t][c].ap
    IN  /\ a \in ApprovalIds
        /\ approval[a].decision = "approved"
        /\ approval[a].cmd = call[t][c].cmd
        /\ approval[a].job = task[t].job

CallsBacked ==
    \A t \in Tasks, c \in Calls : call[t][c].pc \in {"consume", "execute"} => Backed(t, c)

GateInv == Inserted /\ InTurn /\ RanApproved /\ CallsBacked

\* What does not run a command, insert a row, decide or move a call keeps
\* GateInv, as long as no task leaves the turn its calls belong to.
LEMMA GateFrame ==
    ASSUME GateInv, UNCHANGED <<requested, runs>>,
           \A a \in ApprovalIds : /\ approval'[a].decision = approval[a].decision
                                  /\ approval'[a].cmd = approval[a].cmd
                                  /\ approval'[a].job = approval[a].job,
           \A t \in Tasks, c \in Calls :
               \/ call'[t][c].pc = "idle"
               \/ /\ call'[t][c] = call[t][c]
                  /\ task'[t].pc = task[t].pc
                  /\ task'[t].job = task[t].job
    PROVE  GateInv'
<1>1. Inserted' /\ RanApproved'
  BY DEF GateInv, Inserted, RanApproved
<1>2. InTurn'
  BY DEF GateInv, InTurn, CallAt, At
<1>3. CallsBacked'
  BY DEF GateInv, CallsBacked, Backed
<1>4. QED
  BY <1>1, <1>2, <1>3 DEF GateInv

\* Consuming an approval changes nothing else of it.
LEMMA ConsumeFrame ==
    ASSUME StoreTypeOK, NEW a, Consume(a)
    PROVE  /\ UNCHANGED requested
           /\ \A b \in ApprovalIds : /\ approval'[b].decision = approval[b].decision
                                     /\ approval'[b].cmd = approval[b].cmd
                                     /\ approval'[b].job = approval[b].job
  BY DEF StoreTypeOK, Consume, Approval

\* Running a command under an approved approval keeps RanApproved.
LEMMA ExecuteApproved ==
    ASSUME StoreTypeOK, RanApproved, NEW a, Execute(a), UNCHANGED gateVars,
           a \in ApprovalIds => approval[a].decision = "approved"
    PROVE  RanApproved'
  BY DEF StoreTypeOK, RanApproved, Execute, gateVars

\* A step of the graph is a step of its own task alone, outside the turn.
LEMMA RunnerFrame ==
    ASSUME TaskOK, NEW t \in Tasks, RunnerStep(t)
    PROVE  /\ task[t].pc # "act"
           /\ \A u \in Tasks \ {t} : task'[u] = task[u]
<1>1. CASE Look(t) \/ Wake(t) \/ Load(t)
  BY <1>1 DEF TaskOK, Look, Wake, Load, At, Go, Raise, Halt, Leave, Superstep
<1>2. CASE PlanRead(t) \/ Think(t) \/ Planned(t)
  BY <1>2 DEF TaskOK, PlanRead, Think, Planned, At, Raise, Leave, Superstep
<1>3. CASE Check(t) \/ Block(t) \/ Hold(t) \/ Park(t) \/ Fail(t)
  BY <1>3 DEF TaskOK, Check, Block, Hold, Park, Fail, At, Go, Raise, Halt, Leave
<1>4. CASE \/ SettleRead(t) \/ SettleRejected(t) \/ SettleExecute(t) \/ SettleConsume(t)
           \/ SettleDone(t)
  BY <1>4 DEF TaskOK, SettleRead, SettleRejected, SettleExecute, SettleConsume,
              SettleDone, At, Go
<1>5. CASE Complete(t) \/ Finalize(t) \/ Close(t)
  BY <1>5 DEF TaskOK, Complete, Finalize, Close, At, Go, Raise, Leave, Superstep
<1>6. QED
  BY <1>1, <1>2, <1>3, <1>4, <1>5 DEF RunnerStep

\* Only settle_decided_approvals, among the steps of the graph, touches the
\* approvals or runs a command.
LEMMA RunnerGate ==
    ASSUME NEW t \in Tasks, RunnerStep(t)
    PROVE  \/ UNCHANGED <<gateVars, runs>>
           \/ UNCHANGED runs /\ \E a : Consume(a)
           \/ SettleExecute(t)
<1>1. CASE Look(t) \/ Wake(t) \/ Load(t) \/ PlanRead(t) \/ Think(t) \/ Planned(t)
  BY <1>1 DEF Look, Wake, Load, PlanRead, Think, Planned, storeVars, gateVars
<1>2. CASE Check(t) \/ Block(t) \/ Hold(t) \/ Park(t) \/ Fail(t)
  BY <1>2 DEF Check, Block, Hold, Park, Fail, storeVars, gateVars
<1>3. CASE SettleRejected(t) \/ SettleConsume(t)
  BY <1>3 DEF SettleRejected, SettleConsume
<1>4. CASE SettleRead(t) \/ SettleDone(t) \/ Complete(t) \/ Finalize(t) \/ Close(t)
  BY <1>4 DEF SettleRead, SettleDone, Complete, Finalize, Close, storeVars, gateVars
<1>5. QED
  BY <1>1, <1>2, <1>3, <1>4 DEF RunnerStep

\* The graph's own steps keep GateInv.
LEMMA RunnerGated ==
    ASSUME TypeInv, GateInv, NEW t \in Tasks, RunnerStep(t), UNCHANGED call
    PROVE  GateInv'
<1>1. StoreTypeOK /\ TaskOK /\ CallOK
  BY TypeInvParts
<1>2. /\ task[t].pc # "act"
      /\ \A u \in Tasks \ {t} : task'[u] = task[u]
  BY <1>1, RunnerFrame
<1>3. \A u \in Tasks, c \in Calls :
          \/ call'[u][c].pc = "idle"
          \/ /\ call'[u][c] = call[u][c]
             /\ task'[u].pc = task[u].pc
             /\ task'[u].job = task[u].job
  <2>1. \A c \in Calls : call[t][c].pc = "idle"
    BY <1>2 DEF GateInv, InTurn, CallAt, At
  <2>2. QED
    BY <1>2, <2>1
<1>4. CASE UNCHANGED <<gateVars, runs>>
  BY <1>3, <1>4, GateFrame DEF gateVars
<1>5. CASE UNCHANGED runs /\ \E a : Consume(a)
  BY <1>1, <1>3, <1>5, ConsumeFrame, GateFrame
<1>6. CASE SettleExecute(t)
  <2> DEFINE a == Min(task[t].todo)
  <2>1. approval[a].decision = "approved" /\ UNCHANGED gateVars
    BY <1>6 DEF SettleExecute
  <2>2. CASE UNCHANGED runs
    BY <1>3, <2>1, <2>2, GateFrame DEF gateVars
  <2>3. CASE Execute(a)
    <3>1. RanApproved'
      BY <1>1, <2>1, <2>3, ExecuteApproved DEF GateInv
    <3>2. Inserted' /\ InTurn' /\ CallsBacked'
      BY <1>3, <2>1
         DEF GateInv, Inserted, InTurn, CallsBacked, Backed, gateVars, CallAt, At
    <3>3. QED
      BY <3>1, <3>2 DEF GateInv
  <2>4. QED
    BY <1>6, <2>2, <2>3 DEF SettleExecute
<1>7. QED
  BY <1>4, <1>5, <1>6, RunnerGate

\* The start and the end of an executor turn keep GateInv.
LEMMA TurnGated ==
    ASSUME TypeInv, GateInv, NEW t \in Tasks,
           \/ \E c \in Calls, cmd \in Commands : StartCall(t, c, cmd)
           \/ ExecutorReturns(t)
           \/ ExecutorRaises(t)
    PROVE  GateInv'
<1>1. StoreTypeOK /\ TaskOK /\ CallOK
  BY TypeInvParts
<1>2. UNCHANGED <<gateVars, runs>>
  BY DEF StartCall, ExecutorReturns, ExecutorRaises, storeVars, gateVars
<1>3. Inserted' /\ RanApproved'
  BY <1>2 DEF GateInv, Inserted, RanApproved, gateVars
<1>4. CASE \E c \in Calls, cmd \in Commands : StartCall(t, c, cmd)
  <2>1. PICK c \in Calls, cmd \in Commands : StartCall(t, c, cmd)
    BY <1>4
  <2>2. call'[t][c].pc = "lookup"
    BY <1>1, <2>1 DEF StartCall, CallOK
  <2>3. \A u \in Tasks, d \in Calls : <<u, d>> # <<t, c>> => call'[u][d] = call[u][d]
    BY <1>1, <2>1 DEF StartCall, CallOK
  <2>4. \A u \in Tasks : task'[u].pc = task[u].pc /\ task'[u].job = task[u].job
    BY <1>1, <2>1 DEF StartCall, TaskOK, Task
  <2>5. InTurn'
    BY <2>1, <2>2, <2>3, <2>4 DEF GateInv, InTurn, CallAt, At, StartCall
  <2>6. CallsBacked'
    BY <1>2, <2>2, <2>3, <2>4 DEF GateInv, CallsBacked, Backed, gateVars
  <2>7. QED
    BY <1>3, <2>5, <2>6 DEF GateInv
<1>5. CASE ExecutorReturns(t) \/ ExecutorRaises(t)
  <2>1. \A c \in Calls : call'[t][c].pc = "idle"
    BY <1>1, <1>5 DEF ExecutorReturns, ExecutorRaises, CallOK, CallAt, IdleCall
  <2>2. \A u \in Tasks \ {t} : call'[u] = call[u] /\ task'[u] = task[u]
    BY <1>1, <1>5 DEF ExecutorReturns, ExecutorRaises, CallOK, TaskOK
  <2>3. QED
    BY <1>2, <2>1, <2>2, GateFrame DEF gateVars
<1>6. QED
  BY <1>4, <1>5

\* A call that looks up its approval finds one that backs it, unless the owner
\* rejected the command.
LEMMA LookUpGated ==
    ASSUME TypeInv, GateInv, NEW t \in Tasks, NEW c \in Calls, LookUp(t, c)
    PROVE  GateInv'
<1>1. StoreTypeOK /\ TaskOK /\ CallOK
  BY TypeInvParts
<1>2. UNCHANGED <<gateVars, runs, task>>
  BY DEF LookUp, storeVars, gateVars
<1>3. call[t][c] \in Call /\ Job(t) \in Jobs /\ task[t].pc = "act"
  BY <1>1 DEF CallOK, TaskOK, Task, Job, LookUp, GateInv, InTurn, CallAt, At
<1>4. \A u \in Tasks, d \in Calls : <<u, d>> # <<t, c>> => call'[u][d] = call[u][d]
  BY <1>1 DEF LookUp, CallGo, CallOK
<1>5. Inserted' /\ RanApproved'
  BY <1>2 DEF GateInv, Inserted, RanApproved, gateVars
<1>6. InTurn'
  BY <1>2, <1>3, <1>4 DEF GateInv, InTurn, CallAt, At
<1>7. call'[t][c].pc \in {"consume", "execute"} => Backed(t, c)'
  <2> DEFINE found == DecidedUnconsumed(Job(t), call[t][c].cmd)
  <2> SUFFICES ASSUME call'[t][c].pc \in {"consume", "execute"} PROVE Backed(t, c)'
    OBVIOUS
  <2>1. found # {} /\ ~CallGo(t, c, "ask")
    BY <1>1 DEF LookUp, CallGo, CallOK, Call
  <2> DEFINE p == IF approval[Min(found)].decision = "rejected" THEN "reject" ELSE "consume"
  <2>2. call' = [call EXCEPT ![t][c] = [@ EXCEPT !.ap = Min(found), !.pc = p]]
    BY <2>1 DEF LookUp
  <2>3. call'[t][c] = [call[t][c] EXCEPT !.ap = Min(found), !.pc = p]
    BY <1>1, <2>2 DEF CallOK
  <2>4. /\ call'[t][c].ap = Min(found)
        /\ call'[t][c].cmd = call[t][c].cmd
        /\ p = "consume"
    BY <1>3, <2>3 DEF Call
  <2>5. Min(found) \in found /\ Min(found) \in ApprovalIds
    BY <1>1, <1>3, <2>1, SettleableType, MinInSet
  <2>6. /\ Min(found) <= requested
        /\ approval[Min(found)].job = Job(t)
        /\ approval[Min(found)].cmd = call[t][c].cmd
        /\ approval[Min(found)].decision # "undecided"
    BY <2>5 DEF DecidedUnconsumed, Settleable, ForJob
  <2>7. approval[Min(found)].decision = "approved"
    <3>1. approval[Min(found)].decision \in Decisions
      BY <1>1, <2>5 DEF StoreTypeOK, Approval
    <3>2. approval[Min(found)].decision # "absent"
      BY <2>5, <2>6 DEF GateInv, Inserted
    <3>3. approval[Min(found)].decision # "rejected"
      BY <2>4
    <3>4. QED
      BY <2>6, <3>1, <3>2, <3>3 DEF Decisions
  <2>8. QED
    BY <1>2, <2>4, <2>5, <2>6, <2>7 DEF Backed, gateVars, Job
<1>8. CallsBacked'
  BY <1>2, <1>4, <1>7 DEF GateInv, CallsBacked, Backed, gateVars
<1>9. QED
  BY <1>5, <1>6, <1>8 DEF GateInv

\* The other steps of a call: it asks, inserts its request, consumes, executes.
LEMMA CallGated ==
    ASSUME TypeInv, GateInv, NEW t \in Tasks, NEW c \in Calls,
           \/ AskPending(t, c) \/ CallCreate(t, c) \/ CallReject(t, c)
           \/ CallConsume(t, c) \/ CallExecute(t, c)
    PROVE  GateInv'
<1>1. StoreTypeOK /\ TaskOK /\ CallOK
  BY TypeInvParts
<1>2. /\ call[t][c] \in Call
      /\ task[t].pc = "act"
      /\ UNCHANGED task
  BY <1>1 DEF CallOK, GateInv, InTurn, CallAt, At, AskPending, CallCreate, CallReject,
              CallConsume, CallExecute
<1>3. \A u \in Tasks, d \in Calls : <<u, d>> # <<t, c>> => call'[u][d] = call[u][d]
  BY <1>1 DEF CallOK, AskPending, CallCreate, CallReject, CallConsume, CallExecute,
              CallGo, Return
<1>4. /\ call'[t][c].ap = call[t][c].ap
      /\ call'[t][c].cmd = call[t][c].cmd
      \/ call'[t][c].pc = "idle"
  BY <1>1, <1>2 DEF CallOK, AskPending, CallCreate, CallReject, CallConsume, CallExecute,
                    CallGo, Return, Call, IdleCall
<1>5. call'[t][c].pc \in {"idle", "create", "execute"}
  BY <1>1, <1>2 DEF CallOK, AskPending, CallCreate, CallReject, CallConsume, CallExecute,
                    CallGo, Return, Call, IdleCall
<1>6. InTurn'
  BY <1>2, <1>3 DEF GateInv, InTurn, CallAt, At
<1>7. call'[t][c].pc = "execute" => CallConsume(t, c) /\ Backed(t, c)
  <2>1. call'[t][c].pc = "execute" => CallConsume(t, c)
    BY <1>1, <1>2 DEF CallOK, AskPending, CallCreate, CallReject, CallExecute, CallGo,
                      Return, Call, IdleCall
  <2>2. QED
    BY <2>1 DEF GateInv, CallsBacked, CallConsume, CallAt
<1>8. ASSUME \A a \in ApprovalIds :
                 approval[a].decision # "absent" =>
                     /\ approval'[a].decision = approval[a].decision
                     /\ approval'[a].cmd = approval[a].cmd
                     /\ approval'[a].job = approval[a].job
      PROVE  CallsBacked'
  <2> SUFFICES ASSUME NEW u \in Tasks, NEW d \in Calls,
                      call'[u][d].pc \in {"consume", "execute"}
               PROVE  Backed(u, d)'
    BY DEF CallsBacked
  <2>1. call'[u][d].ap = call[u][d].ap /\ call'[u][d].cmd = call[u][d].cmd
    BY <1>3, <1>4
  <2>2. Backed(u, d)
    BY <1>3, <1>5, <1>7 DEF GateInv, CallsBacked
  <2>3. QED
    BY <1>2, <1>8, <2>1, <2>2 DEF Backed
<1>9. CASE AskPending(t, c)
  <2>1. UNCHANGED <<gateVars, runs>>
    BY <1>9 DEF AskPending, storeVars, gateVars
  <2>2. CallsBacked'
    BY <1>8, <2>1 DEF gateVars
  <2>3. QED
    BY <1>6, <2>1, <2>2 DEF GateInv, Inserted, RanApproved, gateVars
<1>10. CASE CallCreate(t, c)
  <2> DEFINE n == requested + 1
  <2>1. /\ n \in ApprovalIds /\ requested \in Nat
        /\ requested' = n
        /\ approval'[n].decision = "undecided"
        /\ \A a \in ApprovalIds \ {n} : approval'[a] = approval[a]
        /\ UNCHANGED runs
    BY <1>1, <1>10, StoreAssumption
       DEF CallCreate, CreateApproval, StoreTypeOK, ApprovalIds
  <2>2. approval[n].decision = "absent"
    BY <2>1 DEF GateInv, Inserted
  <2>3. Inserted'
    BY <2>1 DEF GateInv, Inserted, ApprovalIds
  <2>4. RanApproved'
    BY <2>1, <2>2 DEF GateInv, RanApproved
  <2>5. CallsBacked'
    BY <1>8, <2>1, <2>2
  <2>6. QED
    BY <1>6, <2>3, <2>4, <2>5 DEF GateInv
<1>11. CASE CallReject(t, c) \/ CallConsume(t, c)
  <2>1. Consume(call[t][c].ap) /\ UNCHANGED runs
    BY <1>11 DEF CallReject, CallConsume
  <2>2. /\ UNCHANGED requested
        /\ \A b \in ApprovalIds : /\ approval'[b].decision = approval[b].decision
                                  /\ approval'[b].cmd = approval[b].cmd
                                  /\ approval'[b].job = approval[b].job
    BY <1>1, <2>1, ConsumeFrame
  <2>3. CallsBacked'
    BY <1>8, <2>2
  <2>4. QED
    BY <1>6, <2>1, <2>2, <2>3 DEF GateInv, Inserted, RanApproved
<1>12. CASE CallExecute(t, c)
  <2>1. Execute(call[t][c].ap) /\ UNCHANGED gateVars
    BY <1>12 DEF CallExecute
  <2>2. Backed(t, c)
    BY <1>12 DEF GateInv, CallsBacked, CallExecute, CallAt
  <2>3. RanApproved'
    BY <1>1, <2>1, <2>2, ExecuteApproved DEF GateInv, Backed
  <2>4. CallsBacked'
    BY <1>8, <2>1 DEF gateVars
  <2>5. QED
    BY <1>6, <2>1, <2>3, <2>4 DEF GateInv, Inserted, gateVars
<1>13. QED
  BY <1>9, <1>10, <1>11, <1>12

\* Every step of a task keeps GateInv.
LEMMA TaskStepGated ==
    ASSUME TypeInv, GateInv, NEW t \in Tasks, TaskStep(t)
    PROVE  GateInv'
<1>1. StoreTypeOK /\ TaskOK /\ CallOK
  BY TypeInvParts
<1>2. CASE RunnerStep(t) /\ UNCHANGED call
  BY <1>2, RunnerGated
<1>3. CASE Flush(t) /\ UNCHANGED call
  <2>1. \A u \in Tasks : task'[u].pc = task[u].pc /\ task'[u].job = task[u].job
    BY <1>1, <1>3 DEF Flush, TaskOK, Task
  <2>2. UNCHANGED <<gateVars, runs>>
    BY <1>3 DEF Flush
  <2>3. QED
    BY <1>3, <2>1, <2>2, GateFrame DEF gateVars
<1>4. CASE ExecutorStep(t)
  BY <1>4, TurnGated, LookUpGated, CallGated DEF ExecutorStep, ToolStep
<1>5. CASE RunCrashed(t) \/ Report(t)
  <2>1. \A c \in Calls : call[t][c].pc = "idle"
    BY <1>5 DEF RunCrashed, Report, At, GateInv, InTurn, CallAt
  <2>2. \A u \in Tasks \ {t} : task'[u] = task[u]
    BY <1>1, <1>5 DEF RunCrashed, Report, TaskOK
  <2>3. UNCHANGED <<call, gateVars, runs>>
    BY <1>5 DEF RunCrashed, Report, storeVars, gateVars
  <2>4. QED
    BY <2>1, <2>2, <2>3, GateFrame DEF gateVars
<1>6. QED
  BY <1>2, <1>3, <1>4, <1>5 DEF TaskStep

\* Every other step of the system keeps GateInv: tasks are spawned where no
\* call is in flight, a crash ends every call, and the owner decides once.
LEMMA SystemGated ==
    ASSUME TypeInv, GateInv, Next
    PROVE  GateInv'
<1>1. StoreTypeOK /\ TaskOK /\ CallOK
  BY TypeInvParts
<1>2. ASSUME NEW j \in Jobs, NEW s, Spawn(j, s), UNCHANGED <<call, gateVars, runs>>
      PROVE  GateInv'
  <2>1. PICK t \in Tasks : /\ At(t, "idle")
                           /\ \A u \in Tasks \ {t} : task'[u] = task[u]
    BY <1>1, <1>2 DEF Spawn, TaskOK
  <2>2. \A c \in Calls : call[t][c].pc = "idle"
    BY <2>1 DEF GateInv, InTurn, CallAt, At
  <2>3. QED
    BY <1>2, <2>1, <2>2, GateFrame DEF gateVars
<1>3. ASSUME UNCHANGED <<task, call, gateVars, runs>> PROVE GateInv'
  BY <1>3, GateFrame DEF gateVars
<1>4. ASSUME NEW j \in Jobs, Recover(j) \/ Claim(j) \/ Resume(j) PROVE GateInv'
  BY <1>2, <1>3, <1>4 DEF Recover, Claim, Resume, storeVars, gateVars
<1>5. CASE Serve \/ Poll \/ ClaimNothing \/ Boot
  BY <1>3, <1>5 DEF Serve, Poll, ClaimNothing, Boot, storeVars, gateVars
<1>6. CASE Crash
  <2>1. \A t \in Tasks, c \in Calls : call'[t][c].pc = "idle"
    BY <1>6 DEF Crash, IdleCall
  <2>2. UNCHANGED <<gateVars, runs>>
    BY <1>6 DEF Crash, storeVars, gateVars
  <2>3. QED
    BY <2>1, <2>2, GateFrame DEF gateVars
<1>7. ASSUME NEW j \in Jobs, Create(j) \/ CancelJob(j) \/ RetryJob(j) \/ ClockExpires(j)
      PROVE  GateInv'
  BY <1>3, <1>7 DEF Create, CancelJob, RetryJob, ClockExpires, gateVars
<1>8. ASSUME NEW a \in ApprovalIds, NEW d \in {"approved", "rejected"},
             DecideApproval(a, d)
      PROVE  GateInv'
  <2>1. /\ a <= requested
        /\ approval[a].decision = "undecided"
        /\ UNCHANGED <<requested, runs, task, call>>
        /\ \A b \in ApprovalIds \ {a} : approval'[b] = approval[b]
        /\ approval'[a].decision = d
    BY <1>1, <1>8 DEF DecideApproval, RecordDecision, StoreTypeOK, Approval
  <2>2. Inserted'
    BY <2>1 DEF GateInv, Inserted
  <2>3. RanApproved'
    BY <2>1 DEF GateInv, RanApproved
  <2>4. InTurn'
    BY <2>1 DEF GateInv, InTurn, CallAt, At
  <2>5. CallsBacked'
    BY <2>1 DEF GateInv, CallsBacked, Backed
  <2>6. QED
    BY <2>2, <2>3, <2>4, <2>5 DEF GateInv
<1>9. QED
  BY <1>4, <1>5, <1>6, <1>7, <1>8, TaskStepGated DEF Next, Owner, Worker

\* GateInv is inductive with TypeInv.
LEMMA GateInit == Init => GateInv
<1> SUFFICES ASSUME Init PROVE GateInv
  OBVIOUS
<1>1. Inserted /\ RanApproved
  BY DEF Init, StoreInit, Inserted, RanApproved, NoApproval, ApprovalIds
<1>2. InTurn /\ CallsBacked
  BY DEF Init, InTurn, CallsBacked, CallAt, IdleCall
<1>3. QED
  BY <1>1, <1>2 DEF GateInv

LEMMA GateStep == TypeInv /\ GateInv /\ [Next]_vars => GateInv'
<1> SUFFICES ASSUME TypeInv, GateInv, [Next]_vars PROVE GateInv'
  OBVIOUS
<1>1. CASE Next
  BY <1>1, SystemGated
<1>2. CASE UNCHANGED vars
  BY <1>2, GateFrame DEF vars, storeVars, gateVars
<1>3. QED
  BY <1>1, <1>2

(* The approval gate: in every behaviour a command ran, or is about to run   *)
(* in a tool call, only under an approval its owner gave for this command in *)
(* this job.                                                                 *)
THEOREM GateHolds == Spec => []OnlyApprovedRuns
<1>1. GateInv => OnlyApprovedRuns
  BY DEF GateInv, RanApproved, CallsBacked, Backed, OnlyApprovedRuns, CallAt, Job
<1>2. QED
  BY <1>1, GateInit, GateStep, InitType, TypeStep, PTL DEF Spec

-----------------------------------------------------------------------------
(* The ledger and the checkpoint.  LedgerLeadsCheckpoint is inductive with   *)
(* TypeInv: a step only ever takes over the index of the checkpoint, of the  *)
(* memory of the same job, or none at all, except where the ledger entry for *)
(* it is written in the same action.                                         *)

\* The steps before index idx of job j are in the ledger.
Led(idx, j) == 1 .. idx \subseteq completed[j]

\* No step of a plan precedes index 0.
LEMMA LedFromZero == \A j : Led(0, j)
  BY DEF Led

\* What a task's step does to its own index and to the checkpoint of its job.
LEMMA RunnerIndex ==
    ASSUME StoreTypeOK, TaskOK, NEW t \in Tasks, RunnerStep(t), ~Complete(t)
    PROVE  /\ UNCHANGED completed
           /\ task'[t].job = task[t].job
           /\ task'[t].mem.idx \in {0, task[t].mem.idx, checkpoint[Job(t)].idx}
           /\ \A j \in Jobs : \/ checkpoint'[j].idx = checkpoint[j].idx
                              \/ j = Job(t) /\ checkpoint'[j].idx = task[t].mem.idx
<1>1. task[t] \in Task /\ Job(t) = task[t].job /\ Job(t) \in Jobs
  BY DEF TaskOK, Task, Job
<1>2. checkpoint \in [Jobs -> Checkpoint] /\ task[t].mem \in Checkpoint
  BY <1>1 DEF StoreTypeOK, Task
<1>3. ASSUME NEW p, Leave(t, p)
      PROVE  /\ task'[t].job = task[t].job
             /\ task'[t].mem.idx = 0
             /\ \A j \in Jobs : \/ checkpoint'[j].idx = checkpoint[j].idx
                                \/ j = Job(t) /\ checkpoint'[j].idx = task[t].mem.idx
  BY <1>1, <1>2, <1>3 DEF Leave, IdleTask, NoCheckpoint, TaskOK
<1>4. ASSUME NEW p, Go(t, p)
      PROVE  task'[t].job = task[t].job /\ task'[t].mem.idx = task[t].mem.idx
  BY <1>1, <1>4 DEF Go, TaskOK, Task
<1>5. ASSUME NEW m, Superstep(t, m), m.idx = 0
      PROVE  task'[t].job = task[t].job /\ task'[t].mem.idx = 0
  BY <1>1, <1>5 DEF Superstep, TaskOK, IdleTask
<1>6. CASE Look(t)
  BY <1>1, <1>6 DEF Look, TaskOK, Task, storeVars
<1>7. CASE Wake(t)
  BY <1>3, <1>4, <1>7 DEF Wake, Raise, ledgerVars
<1>8. CASE Load(t)
  <2>1. CASE Superstep(t, Fresh) /\ UNCHANGED checkpoint
    BY <1>5, <1>8, <2>1 DEF Load, Fresh, ledgerVars
  <2>2. CASE Halt(t)
    BY <1>3, <1>8, <2>2 DEF Load, Halt, ledgerVars
  <2>3. CASE /\ task' = [task EXCEPT ![t].mem = checkpoint[Job(t)],
                                    ![t].pc = EntryPC(checkpoint[Job(t)].next)]
             /\ UNCHANGED checkpoint
    BY <1>1, <1>8, <2>3 DEF Load, TaskOK, Task, ledgerVars
  <2>4. QED
    BY <1>8, <2>1, <2>2, <2>3 DEF Load
<1>9. CASE PlanRead(t)
  BY <1>1, <1>9 DEF PlanRead, TaskOK, Task, storeVars
<1>10. CASE Think(t)
  <2>1. CASE /\ \E n \in Steps : task' = [task EXCEPT ![t].pc = "planned", ![t].steps = n]
             /\ UNCHANGED checkpoint
    BY <1>1, <1>10, <2>1 DEF Think, TaskOK, Task, ledgerVars
  <2>2. CASE Raise(t)
    BY <1>3, <1>10, <2>2 DEF Think, Raise, ledgerVars
  <2>3. QED
    BY <1>10, <2>1, <2>2 DEF Think
<1>11. CASE Planned(t)
  BY <1>3, <1>5, <1>11 DEF Planned, Raise, ledgerVars
<1>12. CASE Check(t) \/ Block(t) \/ Hold(t) \/ Park(t) \/ Fail(t)
  BY <1>3, <1>4, <1>12
     DEF Check, Block, Hold, Park, Fail, Halt, Raise, ledgerVars, storeVars
<1>13. CASE \/ SettleRead(t) \/ SettleRejected(t) \/ SettleExecute(t) \/ SettleConsume(t)
            \/ SettleDone(t)
  <2>1. UNCHANGED <<completed, checkpoint>>
    BY <1>13 DEF SettleRead, SettleRejected, SettleExecute, SettleConsume, SettleDone,
                 storeVars, ledgerVars
  <2>2. task'[t].job = task[t].job /\ task'[t].mem = task[t].mem
    BY <1>1, <1>13 DEF SettleRead, SettleRejected, SettleExecute, SettleConsume,
                       SettleDone, Go, TaskOK, Task
  <2>3. QED
    BY <2>1, <2>2
<1>14. CASE Finalize(t)
  BY <1>4, <1>14 DEF Finalize
<1>15. CASE Close(t)
  <2>1. CASE Raise(t)
    BY <1>3, <1>15, <2>1 DEF Close, Raise, ledgerVars
  <2>2. CASE /\ task' = [task EXCEPT ![t] =
                           [IdleTask EXCEPT !.pc = "report", !.job = Job(t)]]
             /\ checkpoint' = [checkpoint EXCEPT ![Job(t)] =
                                 [task[t].mem EXCEPT !.next = "end"]]
    BY <1>1, <1>2, <1>15, <2>2
       DEF Close, ledgerVars, IdleTask, NoCheckpoint, TaskOK, Checkpoint
  <2>3. QED
    BY <1>15, <2>1, <2>2 DEF Close
<1>16. QED
  BY <1>6, <1>7, <1>8, <1>9, <1>10, <1>11, <1>12, <1>13, <1>14, <1>15 DEF RunnerStep

\* A task's step keeps the ledger ahead of the checkpoint.
LEMMA TaskStepLed ==
    ASSUME TypeInv, LedgerLeadsCheckpoint, NEW t \in Tasks, TaskStep(t)
    PROVE  LedgerLeadsCheckpoint'
<1>1. StoreTypeOK /\ TaskOK /\ CallOK
  BY TypeInvParts
<1>2. task[t] \in Task /\ Job(t) = task[t].job /\ Job(t) \in Jobs
  BY <1>1 DEF TaskOK, Task, Job
<1>3. Led(task[t].mem.idx, Job(t)) /\ Led(checkpoint[Job(t)].idx, Job(t))
  BY <1>2 DEF LedgerLeadsCheckpoint, Led
<1>4. CASE RunnerStep(t) /\ ~Complete(t)
  <2>1. /\ UNCHANGED completed
        /\ task'[t].job = task[t].job
        /\ task'[t].mem.idx \in {0, task[t].mem.idx, checkpoint[Job(t)].idx}
        /\ \A j \in Jobs : \/ checkpoint'[j].idx = checkpoint[j].idx
                           \/ j = Job(t) /\ checkpoint'[j].idx = task[t].mem.idx
    BY <1>1, <1>4, RunnerIndex
  <2>2. \A u \in Tasks \ {t} : task'[u] = task[u]
    BY <1>1, <1>4, RunnerFrame
  <2>3. \A j \in Jobs : Led(checkpoint'[j].idx, j)
    BY <1>3, <2>1 DEF LedgerLeadsCheckpoint, Led
  <2>4. \A u \in Tasks : Led(task'[u].mem.idx, task'[u].job)
    BY <1>2, <1>3, <2>1, <2>2, LedFromZero DEF LedgerLeadsCheckpoint, Led, Job
  <2>5. QED
    BY <2>1, <2>3, <2>4 DEF LedgerLeadsCheckpoint, Led, Job
<1>5. CASE Complete(t)
  <2> DEFINE i == task[t].mem.idx
  <2>1. i \in Nat
    BY <1>2 DEF Task, Checkpoint
  <2>2. completed' = [completed EXCEPT ![Job(t)] = @ \cup {i + 1}] /\ UNCHANGED checkpoint
    BY <1>5 DEF Complete
  <2>3. task'[t].mem.idx = i + 1 /\ task'[t].job = task[t].job
    BY <1>1, <1>2, <1>5 DEF Complete, Superstep, TaskOK, Task, Checkpoint, IdleTask
  <2>4. \A u \in Tasks \ {t} : task'[u] = task[u]
    BY <1>1, <1>5 DEF Complete, Superstep, TaskOK
  <2>5. \A j \in Jobs : completed[j] \subseteq completed'[j]
    BY <1>1, <1>2, <2>2 DEF StoreTypeOK
  <2>6. 1 .. (i + 1) \subseteq completed'[Job(t)]
    <3>1. 1 .. (i + 1) \subseteq (1 .. i) \cup {i + 1}
      BY <2>1
    <3>2. QED
      BY <1>1, <1>2, <1>3, <2>2, <3>1 DEF Led, StoreTypeOK
  <2>7. \A j \in Jobs : 1 .. checkpoint'[j].idx \subseteq completed'[j]
    BY <2>2, <2>5 DEF LedgerLeadsCheckpoint
  <2>8. \A u \in Tasks \ {t} : task[u].job \in Jobs
    BY <1>1 DEF TaskOK, Task
  <2>9. \A u \in Tasks : 1 .. task'[u].mem.idx \subseteq completed'[task'[u].job]
    <3> TAKE u \in Tasks
    <3>1. CASE u = t
      BY <1>2, <2>3, <2>6, <3>1
    <3>2. CASE u # t
      BY <2>4, <2>5, <2>8, <3>2 DEF LedgerLeadsCheckpoint, Job
    <3>3. QED
      BY <3>1, <3>2
  <2>10. QED
    BY <2>7, <2>9 DEF LedgerLeadsCheckpoint, Job
<1>6. CASE Flush(t)
  <2>1. \A u \in Tasks : task'[u].mem = task[u].mem /\ task'[u].job = task[u].job
    BY <1>1, <1>6 DEF Flush, TaskOK, Task
  <2>2. \A j \in Jobs : Led(checkpoint'[j].idx, j)
    BY <1>1, <1>2, <1>3, <1>6 DEF Flush, StoreTypeOK, LedgerLeadsCheckpoint, Led
  <2>3. UNCHANGED completed
    BY <1>6 DEF Flush, ledgerVars
  <2>4. QED
    BY <2>1, <2>2, <2>3 DEF LedgerLeadsCheckpoint, Led, Job
<1>7. CASE ExecutorStep(t)
  <2>1. UNCHANGED <<completed, checkpoint>>
    BY <1>7 DEF ExecutorStep, ToolStep, StartCall, ExecutorReturns, ExecutorRaises, LookUp,
                AskPending, CallCreate, CallReject, CallConsume, CallExecute, storeVars,
                ledgerVars
  <2>2. \A u \in Tasks : task'[u].mem = task[u].mem /\ task'[u].job = task[u].job
    <3>1. CASE \E c \in Calls : ToolStep(t, c)
      BY <3>1 DEF ToolStep, LookUp, AskPending, CallCreate, CallReject, CallConsume,
                  CallExecute
    <3>2. CASE \E c \in Calls, cmd \in Commands : StartCall(t, c, cmd)
      BY <1>1, <1>2, <3>2 DEF StartCall, TaskOK, Task
    <3>3. CASE ExecutorReturns(t) \/ ExecutorRaises(t)
      BY <1>1, <1>2, <3>3 DEF ExecutorReturns, ExecutorRaises, TaskOK, Task
    <3>4. QED
      BY <1>7, <3>1, <3>2, <3>3 DEF ExecutorStep
  <2>3. QED
    BY <2>1, <2>2 DEF LedgerLeadsCheckpoint, Job
<1>8. CASE RunCrashed(t) \/ Report(t)
  <2>1. task' = [task EXCEPT ![t] = IdleTask] /\ UNCHANGED <<completed, checkpoint>>
    BY <1>8 DEF RunCrashed, Report, storeVars, ledgerVars
  <2>2. task'[t].mem.idx = 0 /\ \A u \in Tasks \ {t} : task'[u] = task[u]
    BY <1>1, <2>1 DEF TaskOK, IdleTask, NoCheckpoint
  <2>3. QED
    BY <2>1, <2>2, LedFromZero DEF LedgerLeadsCheckpoint, Led, Job
<1>9. QED
  BY <1>4, <1>5, <1>6, <1>7, <1>8 DEF TaskStep

\* The ledger leads the checkpoint at first and after every step.
LEMMA LedInit == Init => LedgerLeadsCheckpoint
  BY LedFromZero DEF Init, StoreInit, LedgerLeadsCheckpoint, Led, NoCheckpoint, IdleTask

LEMMA LedStep == TypeInv /\ LedgerLeadsCheckpoint /\ [Next]_vars => LedgerLeadsCheckpoint'
<1> SUFFICES ASSUME TypeInv, LedgerLeadsCheckpoint, [Next]_vars
             PROVE  LedgerLeadsCheckpoint'
  OBVIOUS
<1>1. TaskOK
  BY TypeInvParts
<1>2. ASSUME UNCHANGED <<task, completed, checkpoint>> PROVE LedgerLeadsCheckpoint'
  BY <1>2 DEF LedgerLeadsCheckpoint, Job
<1>3. ASSUME NEW j \in Jobs, NEW s, Spawn(j, s), UNCHANGED <<completed, checkpoint>>
      PROVE  LedgerLeadsCheckpoint'
  <2>1. PICK t \in Tasks :
           task' = [task EXCEPT ![t] =
                       [IdleTask EXCEPT !.pc = "look", !.job = j, !.view = s]]
    BY <1>3 DEF Spawn
  <2>2. task'[t].mem.idx = 0 /\ \A u \in Tasks \ {t} : task'[u] = task[u]
    BY <1>1, <2>1 DEF TaskOK, IdleTask, NoCheckpoint
  <2>3. QED
    BY <1>3, <2>2, LedFromZero DEF LedgerLeadsCheckpoint, Led, Job
<1>4. ASSUME NEW j \in Jobs, Recover(j) \/ Claim(j) \/ Resume(j)
      PROVE  LedgerLeadsCheckpoint'
  BY <1>2, <1>3, <1>4 DEF Recover, Claim, Resume, storeVars, ledgerVars
<1>5. CASE Serve \/ Poll \/ ClaimNothing \/ Boot
  BY <1>2, <1>5 DEF Serve, Poll, ClaimNothing, Boot, storeVars
<1>6. CASE Crash
  <2>1. \A t \in Tasks : task'[t].mem.idx = 0
    BY <1>6 DEF Crash, IdleTask, NoCheckpoint
  <2>2. QED
    BY <1>6, <2>1, LedFromZero DEF Crash, storeVars, LedgerLeadsCheckpoint, Led, Job
<1>7. CASE Owner \/ \E j \in Jobs : ClockExpires(j)
  BY <1>2, <1>7
     DEF Owner, Create, CancelJob, RetryJob, DecideApproval, ClockExpires, ledgerVars
<1>8. CASE UNCHANGED vars
  BY <1>2, <1>8 DEF vars, storeVars
<1>9. QED
  BY <1>4, <1>5, <1>6, <1>7, <1>8, TaskStepLed DEF Next, Worker

(* Crashes do not lose finished steps: in every behaviour the ledger shows   *)
(* every step that a checkpoint, or a task that resumed one, is past.        *)
THEOREM LedgerLeads == Spec => []LedgerLeadsCheckpoint
  BY LedInit, LedStep, InitType, TypeStep, PTL DEF Spec
=============================================================================
