---------------------------- MODULE JobLife_proofs ----------------------------
(***************************************************************************)
(* Theorems about the life of a job: nothing touches it in the queue, it   *)
(* is never left without a task, it is completed only with its plan behind *)
(* it, its approvals are decided once, and the system as a whole keeps the *)
(* contract of JobContract.                                                *)
(***************************************************************************)
EXTENDS JobSystem_proofs

-----------------------------------------------------------------------------
(* What the lifecycle allows, and what a task's step does to its row and to *)
(* itself.                                                                  *)

\* The moves the proofs turn on.
LEMMA LegalMoves ==
    /\ \A target : ~Legal(COMPLETED, target) /\ ~Legal(NoRow, target)
    /\ \A target : Legal(QUEUED, target) => target \in {PLANNING, CANCELLED}
    /\ \A s \in LIVE : Legal(s, FAILED)
    /\ \A s, target : Legal(s, target) => s \in States /\ target \in States
  BY DEF Legal, LEGAL_TRANSITIONS, States, LIVE, DRAFT, QUEUED, PLANNING,
         WAITING_APPROVAL, RUNNING, PAUSED, BLOCKED, RETRYING, FAILED, CANCELLED,
         COMPLETED, NoRow

\* The job of task t moves to one of the targets.
Moved(t, targets) ==
    \E target \in targets : /\ Legal(state[Job(t)], target)
                            /\ state' = [state EXCEPT ![Job(t)] = target]

RunnerTargets == {RUNNING, BLOCKED, WAITING_APPROVAL, FAILED}

\* A task moves no row but its job's, and completes it in one place only.
LEMMA RowMoves ==
    ASSUME NEW t \in Tasks, TaskStep(t)
    PROVE  \/ UNCHANGED state
           \/ Moved(t, RunnerTargets)
           \/ Close(t) /\ Moved(t, {COMPLETED})
<1>1. CASE RunnerStep(t)
  <2>1. CASE \/ Wake(t) \/ Planned(t) \/ Block(t) \/ Park(t) \/ Fail(t)
    BY <2>1 DEF Wake, Planned, Block, Park, Fail, Transition, Refused, rowVars, Moved,
                RunnerTargets
  <2>2. CASE Close(t)
    BY <2>2 DEF Close, Transition, Refused, rowVars, Moved
  <2>3. CASE \/ Look(t) \/ Load(t) \/ PlanRead(t) \/ Think(t) \/ Check(t) \/ Hold(t)
             \/ SettleRead(t) \/ SettleRejected(t) \/ SettleExecute(t)
             \/ SettleConsume(t) \/ SettleDone(t) \/ Complete(t) \/ Finalize(t)
    BY <2>3 DEF Look, Load, PlanRead, Think, Check, Hold, SettleRead, SettleRejected,
                SettleExecute, SettleConsume, SettleDone, Complete, Finalize, rowVars,
                storeVars
  <2>4. QED
    BY <1>1, <2>1, <2>2, <2>3 DEF RunnerStep
<1>2. CASE Flush(t) \/ Report(t)
  BY <1>2 DEF Flush, Report, rowVars, storeVars
<1>3. CASE RunCrashed(t)
  BY <1>3 DEF RunCrashed, Transition, Refused, rowVars, Moved, RunnerTargets
<1>4. CASE ExecutorStep(t)
  BY <1>4 DEF ExecutorStep, StartCall, ExecutorReturns, ExecutorRaises, ToolStep, LookUp,
              AskPending, CallCreate, CallReject, CallConsume, CallExecute, rowVars,
              storeVars
<1>5. QED
  BY <1>1, <1>2, <1>3, <1>4 DEF TaskStep

(* Only a graph that runs has written what is not durable yet, and it has    *)
(* not ended; an ended graph belongs to a completed job.                   *)
OutsidePCs == {"idle", "look", "wake", "load", "crashed", "report"}
Tidy(r) == /\ r.pc \in OutsidePCs => ~r.dirty
           /\ r.dirty => r.mem.next # "end"
CleanOutside == \A t \in Tasks : Tidy(task[t])
EndIsCompleted == \A j \in Jobs : checkpoint[j].next = "end" => state[j] = COMPLETED

\* How a step leaves its task: still at work on its job, out of the task set
\* after its report, or with its job out of the LIVE states.
Works(t)    == task'[t].job = Job(t) /\ task'[t].pc \notin {"idle", "report"}
Reported(t) == At(t, "report") /\ task'[t].pc = "idle" /\ UNCHANGED state
Rests(t)    == /\ task'[t].job = Job(t) \/ task'[t].pc = "idle"
               /\ state'[Job(t)] \notin LIVE

LEMMA RunnerMoves ==
    ASSUME StoreTypeOK, TaskOK, EndIsCompleted, NEW t \in Tasks, Tidy(task[t]),
           RunnerStep(t)
    PROVE  /\ task[t].pc # "idle" /\ Tidy(task'[t])
           /\ Works(t) \/ Rests(t)
<1>1. task[t] \in Task /\ Job(t) = task[t].job /\ Job(t) \in Jobs
  BY DEF TaskOK, Task, Job
<1>2. state[Job(t)] \in States \cup {NoRow}
  BY <1>1 DEF StoreTypeOK
<1>3. ASSUME NEW p, Go(t, p), p \notin OutsidePCs \/ ~task[t].dirty
      PROVE  /\ task'[t].job = Job(t) /\ task'[t].pc = p /\ Tidy(task'[t])
  BY <1>1, <1>3 DEF Go, TaskOK, Task, Tidy
<1>4. ASSUME NEW p, Leave(t, p)
      PROVE  /\ task'[t].job = Job(t) /\ task'[t].pc = p /\ Tidy(task'[t])
  BY <1>1, <1>4 DEF Leave, TaskOK, IdleTask, Tidy
<1>5. ASSUME NEW m, m.next # "end", Superstep(t, m)
      PROVE  Tidy(task'[t]) /\ Works(t)
  <2>1. task'[t].job = Job(t) /\ task'[t].pc = EntryPC(m.next) /\ task'[t].mem = m
    BY <1>1, <1>5 DEF Superstep, TaskOK, IdleTask
  <2>2. EntryPC(m.next) \in {"check", "finalize", "plan"}
    BY DEF EntryPC
  <2>3. QED
    BY <1>5, <2>1, <2>2 DEF Tidy, Works, OutsidePCs
<1>6. CASE Look(t)
  BY <1>1, <1>6 DEF Look, At, TaskOK, Task, Tidy, Works, OutsidePCs
<1>7. CASE Wake(t)
  <2>1. ~task[t].dirty /\ task[t].pc # "idle"
    BY <1>7 DEF Wake, At, Tidy, OutsidePCs
  <2>2. QED
    BY <1>3, <1>4, <1>7, <2>1 DEF Wake, Raise, Works
<1>8. CASE Load(t)
  <2>1. ~task[t].dirty /\ task[t].pc # "idle" /\ UNCHANGED state
    BY <1>8 DEF Load, At, Tidy, OutsidePCs, rowVars
  <2>2. CASE Superstep(t, Fresh)
    BY <1>5, <2>1, <2>2 DEF Fresh
  <2>3. CASE checkpoint[Job(t)].next = "end" /\ Halt(t)
    BY <1>1, <1>4, <2>1, <2>3 DEF Halt, EndIsCompleted, Rests, LIVE, COMPLETED,
                                  PLANNING, RUNNING, RETRYING
  <2>4. CASE task' = [task EXCEPT ![t].mem = checkpoint[Job(t)],
                                  ![t].pc = EntryPC(checkpoint[Job(t)].next)]
    <3>1. EntryPC(checkpoint[Job(t)].next) \in {"check", "finalize", "plan"}
      BY DEF EntryPC
    <3>2. QED
      BY <1>1, <2>1, <2>4, <3>1 DEF TaskOK, Task, Tidy, Works, OutsidePCs
  <2>5. QED
    BY <1>8, <2>2, <2>3, <2>4 DEF Load
<1>9. CASE PlanRead(t)
  BY <1>1, <1>9 DEF PlanRead, At, TaskOK, Task, Tidy, Works, OutsidePCs
<1>10. CASE Think(t)
  <2>1. task[t].pc = "think"
    BY <1>10 DEF Think, At
  <2>2. CASE \E n \in Steps : task' = [task EXCEPT ![t].pc = "planned", ![t].steps = n]
    BY <1>1, <2>1, <2>2 DEF TaskOK, Task, Tidy, Works, OutsidePCs
  <2>3. CASE Raise(t)
    BY <1>4, <2>1, <2>3 DEF Raise, Works
  <2>4. QED
    BY <1>10, <2>2, <2>3 DEF Think
<1>11. CASE Planned(t)
  <2> DEFINE planned == [next |-> NodeAfter(task[t].steps, 0), len |-> task[t].steps,
                         idx |-> 0]
  <2>1. task[t].pc = "planned" /\ planned.next # "end"
    BY <1>11 DEF Planned, At, NodeAfter
  <2>2. CASE Superstep(t, planned)
    BY <1>5, <2>1, <2>2
  <2>3. CASE Raise(t)
    BY <1>4, <2>1, <2>3 DEF Raise, Works
  <2>4. QED
    BY <1>11, <2>2, <2>3 DEF Planned
<1>12. ASSUME NEW p, Halt(t), task[t].pc = p, p # "idle",
              \/ state[Job(t)] = CANCELLED /\ UNCHANGED state
              \/ \E target \in {BLOCKED, WAITING_APPROVAL, FAILED} : Transition(Job(t), target)
       PROVE  task[t].pc # "idle" /\ Tidy(task'[t]) /\ Rests(t)
  <2>1. state'[Job(t)] \in {CANCELLED, BLOCKED, WAITING_APPROVAL, FAILED}
    BY <1>1, <1>12 DEF Transition, StoreTypeOK
  <2>2. QED
    BY <1>4, <1>12, <2>1 DEF Halt, Rests, LIVE, CANCELLED, BLOCKED, WAITING_APPROVAL,
                             FAILED, PLANNING, RUNNING, RETRYING
<1>13. CASE Check(t)
  <2>1. task[t].pc = "check" /\ UNCHANGED state
    BY <1>13 DEF Check, At, rowVars
  <2>2. CASE state[Job(t)] = CANCELLED /\ Halt(t)
    BY <1>12, <2>1, <2>2
  <2>3. CASE Go(t, "block") \/ Go(t, "settle")
    BY <1>3, <2>1, <2>3 DEF OutsidePCs, Works
  <2>4. QED
    BY <1>13, <2>2, <2>3 DEF Check
<1>14. CASE Block(t) \/ Fail(t)
  <2>1. task[t].pc \in {"block", "failing"}
    BY <1>14 DEF Block, Fail, At
  <2>2. CASE \E target \in {BLOCKED, FAILED} : Transition(Job(t), target) /\ Halt(t)
    BY <1>12, <2>1, <2>2
  <2>3. CASE Raise(t)
    BY <1>4, <2>1, <2>3 DEF Raise, Works
  <2>4. QED
    BY <1>14, <2>2, <2>3 DEF Block, Fail
<1>15. CASE Park(t)
  <2>1. task[t].pc = "park"
    BY <1>15 DEF Park, At
  <2>2. CASE Transition(Job(t), WAITING_APPROVAL) /\ Halt(t)
    BY <1>12, <2>1, <2>2
  <2>3. CASE Go(t, "failing")
    BY <1>3, <2>1, <2>3 DEF OutsidePCs, Works
  <2>4. QED
    BY <1>15, <2>2, <2>3 DEF Park
<1>16. CASE SettleRead(t) \/ SettleRejected(t) \/ SettleConsume(t)
  BY <1>1, <1>16 DEF SettleRead, SettleRejected, SettleConsume, At, TaskOK, Task, Tidy,
                     Works, OutsidePCs
<1>17. CASE SettleExecute(t) \/ SettleDone(t) \/ Hold(t) \/ Finalize(t)
  <2>1. /\ task[t].pc \in {"settling", "hold", "finalize"}
        /\ \E p \in {"consume", "failing", "act", "park", "complete", "closing"} : Go(t, p)
    BY <1>17 DEF SettleExecute, SettleDone, Hold, Finalize, At
  <2>2. QED
    BY <1>3, <2>1 DEF OutsidePCs, Works
<1>18. CASE Complete(t)
  <2> DEFINE m == task[t].mem
             n == [m EXCEPT !.idx = m.idx + 1, !.next = NodeAfter(m.len, m.idx + 1)]
  <2>1. task[t].pc = "complete" /\ Superstep(t, n)
    BY <1>18 DEF Complete, At
  <2>2. n.next # "end"
    BY <1>1 DEF NodeAfter, Task, Checkpoint
  <2>3. QED
    BY <1>5, <2>1, <2>2
<1>19. CASE Close(t)
  <2>1. task[t].pc = "closing"
    BY <1>19 DEF Close, At
  <2>2. CASE /\ Transition(Job(t), COMPLETED)
             /\ task' = [task EXCEPT ![t] =
                           [IdleTask EXCEPT !.pc = "report", !.job = Job(t)]]
    <3>1. task'[t].job = Job(t) /\ Tidy(task'[t])
      BY <1>1, <2>2 DEF TaskOK, IdleTask, Tidy
    <3>2. state'[Job(t)] = COMPLETED
      BY <1>1, <2>2 DEF Transition, StoreTypeOK
    <3>3. QED
      BY <2>1, <3>1, <3>2 DEF Rests, LIVE, COMPLETED, PLANNING, RUNNING, RETRYING
  <2>3. CASE Raise(t)
    BY <1>4, <2>1, <2>3 DEF Raise, Works
  <2>4. QED
    BY <1>19, <2>2, <2>3 DEF Close
<1>20. QED
  BY <1>6, <1>7, <1>8, <1>9, <1>10, <1>11, <1>13, <1>14, <1>15, <1>16, <1>17, <1>18, <1>19
     DEF RunnerStep

\* An executor's step keeps its task at work and its memory; it takes turns with
\* no other task.
LEMMA ExecutorMoves ==
    ASSUME TypeInv, GateInv, NEW t \in Tasks, ExecutorStep(t)
    PROVE  /\ task[t].pc = "act"
           /\ task'[t].pc \in {"act", "hold", "failing"}
           /\ task'[t].job = task[t].job
           /\ task'[t].mem = task[t].mem /\ task'[t].dirty = task[t].dirty
           /\ task'[t].todo = task[t].todo
           /\ \A u \in Tasks \ {t} : task'[u] = task[u]
           /\ UNCHANGED <<rowVars, ledgerVars, checkpoint>>
<1>1. TaskOK /\ CallOK /\ task[t] \in Task
  BY TypeInvParts DEF TaskOK
<1>2. CASE \E c \in Calls : ToolStep(t, c)
  <2>1. \E c \in Calls : ~CallAt(t, c, "idle")
    BY <1>2 DEF ToolStep, LookUp, AskPending, CallCreate, CallReject, CallConsume,
                CallExecute, CallAt
  <2>2. task[t].pc = "act"
    BY <2>1 DEF GateInv, InTurn, At
  <2>3. UNCHANGED <<task, rowVars, ledgerVars, checkpoint>>
    BY <1>2 DEF ToolStep, LookUp, AskPending, CallCreate, CallReject, CallConsume,
                CallExecute, storeVars, rowVars, ledgerVars
  <2>4. QED
    BY <2>2, <2>3
<1>3. CASE \E c \in Calls, cmd \in Commands : StartCall(t, c, cmd)
  BY <1>1, <1>3 DEF StartCall, At, TaskOK, Task, storeVars, rowVars, ledgerVars
<1>4. CASE ExecutorReturns(t) \/ ExecutorRaises(t)
  BY <1>1, <1>4 DEF ExecutorReturns, ExecutorRaises, At, TaskOK, Task, storeVars, rowVars,
                    ledgerVars
<1>5. QED
  BY <1>2, <1>3, <1>4 DEF ExecutorStep

\* Every step of a task is its own, and leaves it in one of the three ways.
LEMMA TaskMoves ==
    ASSUME TypeInv, GateInv, CleanOutside, EndIsCompleted, NEW t \in Tasks, TaskStep(t)
    PROVE  /\ task[t].pc # "idle" /\ Tidy(task'[t])
           /\ \A u \in Tasks \ {t} : task'[u] = task[u]
           /\ Works(t) \/ Reported(t) \/ Rests(t)
<1>1. StoreTypeOK /\ TaskOK /\ CallOK
  BY TypeInvParts
<1>2. task[t] \in Task /\ Job(t) = task[t].job /\ Job(t) \in Jobs /\ Tidy(task[t])
  BY <1>1 DEF TaskOK, Task, Job, CleanOutside
<1>3. CASE RunnerStep(t)
  BY <1>1, <1>2, <1>3, RunnerMoves, RunnerFrame
<1>4. CASE Flush(t)
  <2>1. task[t].pc \notin OutsidePCs
    BY <1>2, <1>4 DEF Flush, Tidy
  <2>2. QED
    BY <1>1, <1>2, <1>4, <2>1 DEF Flush, TaskOK, Task, Tidy, Works, OutsidePCs
<1>5. CASE ExecutorStep(t)
  BY <1>2, <1>5, ExecutorMoves DEF Tidy, Works, OutsidePCs
<1>6. CASE RunCrashed(t)
  <2>1. task' = [task EXCEPT ![t] = IdleTask] /\ task[t].pc = "crashed"
    BY <1>6 DEF RunCrashed, At
  <2>2. state'[Job(t)] \notin LIVE
    <3>1. CASE Transition(Job(t), FAILED)
      BY <1>1, <1>2, <3>1 DEF Transition, StoreTypeOK, LIVE, FAILED, PLANNING, RUNNING,
                              RETRYING
    <3>2. CASE Refused(Job(t), FAILED)
      BY <3>2, LegalMoves DEF Refused, rowVars
    <3>3. QED
      BY <1>6, <3>1, <3>2 DEF RunCrashed
  <2>3. QED
    BY <1>1, <2>1, <2>2 DEF TaskOK, IdleTask, Tidy, Rests
<1>7. CASE Report(t)
  BY <1>1, <1>7 DEF Report, At, storeVars, TaskOK, IdleTask, Tidy, Reported
<1>8. QED
  BY <1>3, <1>4, <1>5, <1>6, <1>7 DEF TaskStep

\* What becomes durable: the memory of the task that runs the graph, or the end
\* of a graph whose job is completed in the same transaction.
LEMMA CheckpointMoves ==
    ASSUME TypeInv, NEW t \in Tasks, TaskStep(t)
    PROVE  \A j \in Jobs : \/ checkpoint'[j] = checkpoint[j]
                           \/ j = Job(t) /\ task[t].dirty /\ checkpoint'[j] = task[t].mem
                           \/ j = Job(t) /\ state'[j] = COMPLETED /\ At(t, "closing")
<1>1. StoreTypeOK /\ TaskOK /\ CallOK
  BY TypeInvParts
<1>2. task[t] \in Task /\ Job(t) = task[t].job /\ Job(t) \in Jobs
  BY <1>1 DEF TaskOK, Task, Job
<1>3. ASSUME NEW p, Leave(t, p)
      PROVE  \A j \in Jobs : \/ checkpoint'[j] = checkpoint[j]
                             \/ j = Job(t) /\ task[t].dirty /\ checkpoint'[j] = task[t].mem
  BY <1>1, <1>2, <1>3 DEF Leave, StoreTypeOK
<1>4. CASE UNCHANGED checkpoint
  BY <1>4
<1>5. CASE \E p \in {"crashed", "report"} : Leave(t, p)
  BY <1>3, <1>5
<1>6. CASE RunnerStep(t)
  <2>1. CASE Close(t)
    <3>1. CASE Transition(Job(t), COMPLETED)
               /\ checkpoint' = [checkpoint EXCEPT ![Job(t)] =
                                   [task[t].mem EXCEPT !.next = "end"]]
      <4>1. state'[Job(t)] = COMPLETED /\ At(t, "closing")
        BY <1>1, <1>2, <2>1, <3>1 DEF Transition, StoreTypeOK, Close
      <4>2. QED
        BY <1>1, <1>2, <3>1, <4>1 DEF StoreTypeOK
    <3>2. QED
      BY <1>5, <2>1, <3>1 DEF Close, Raise
  <2>2. CASE \/ Look(t) \/ PlanRead(t) \/ SettleRead(t) \/ SettleRejected(t)
             \/ SettleExecute(t) \/ SettleConsume(t) \/ SettleDone(t) \/ Hold(t)
             \/ Complete(t) \/ Finalize(t)
    BY <1>4, <2>2 DEF Look, PlanRead, SettleRead, SettleRejected, SettleExecute,
                      SettleConsume, SettleDone, Hold, Complete, Finalize, storeVars
  <2>3. CASE Wake(t) \/ Load(t) \/ Think(t) \/ Planned(t) \/ Check(t)
    BY <1>4, <1>5, <2>3 DEF Wake, Load, Think, Planned, Check, Raise, Halt
  <2>4. CASE Block(t) \/ Park(t) \/ Fail(t)
    BY <1>4, <1>5, <2>4 DEF Block, Park, Fail, Raise, Halt
  <2>5. QED
    BY <1>6, <2>1, <2>2, <2>3, <2>4 DEF RunnerStep
<1>7. CASE Flush(t)
  BY <1>1, <1>2, <1>7 DEF Flush, StoreTypeOK
<1>8. CASE ExecutorStep(t)
  BY <1>4, <1>8 DEF ExecutorStep, StartCall, ExecutorReturns, ExecutorRaises, ToolStep,
                    LookUp, AskPending, CallCreate, CallReject, CallConsume, CallExecute,
                    storeVars
<1>9. CASE RunCrashed(t) \/ Report(t)
  BY <1>4, <1>9 DEF RunCrashed, Report, storeVars
<1>10. QED
  BY <1>6, <1>7, <1>8, <1>9 DEF TaskStep

-----------------------------------------------------------------------------
(* No orphans.  The invariant adds to LiveIsDriven what makes it inductive:  *)
(* the boot scan, before the process serves, and that a task only resumes an *)
(* ended graph for a completed job.                                          *)

BootIsDriven ==
    proc = "boot" => \A j \in Jobs : state[j] \in LIVE => j \in strands \/ Driven(j)

LifeInv == CleanOutside /\ EndIsCompleted /\ BootIsDriven /\ LiveIsDriven

\* A spawned task drives its job and disturbs no other task.
LEMMA SpawnLife ==
    ASSUME TaskOK, CleanOutside, NEW j, NEW s, Spawn(j, s)
    PROVE  CleanOutside' /\ Driven(j)' /\ \A i : Driven(i) => Driven(i)'
<1>1. PICK t \in Tasks :
         /\ At(t, "idle")
         /\ task' = [task EXCEPT ![t] =
                       [IdleTask EXCEPT !.pc = "look", !.job = j, !.view = s]]
  BY DEF Spawn
<1>2. /\ task'[t].pc = "look" /\ task'[t].job = j /\ ~task'[t].dirty
      /\ \A u \in Tasks \ {t} : task'[u] = task[u]
  BY <1>1 DEF TaskOK, IdleTask
<1>3. CleanOutside'
  BY <1>2 DEF CleanOutside, Tidy
<1>4. Driven(j)'
  BY <1>2 DEF Driven, Drives, At
<1>5. ASSUME NEW i, Driven(i) PROVE Driven(i)'
  <2>1. PICK u \in Tasks : Drives(u, i) /\ ~At(u, "report")
    BY <1>5 DEF Driven
  <2>2. u # t
    BY <1>1, <2>1 DEF Drives, At
  <2>3. QED
    BY <1>2, <2>1, <2>2 DEF Driven, Drives, At
<1>6. QED
  BY <1>3, <1>4, <1>5

\* A task's step leaves no job behind.
LEMMA TaskLife ==
    ASSUME TypeInv, GateInv, LifeInv, NEW t \in Tasks, TaskStep(t)
    PROVE  LifeInv'
<1>1. StoreTypeOK /\ TaskOK
  BY TypeInvParts
<1>2. Job(t) = task[t].job /\ Job(t) \in Jobs /\ Tidy(task[t])
  BY <1>1 DEF TaskOK, Task, Job, LifeInv, CleanOutside
<1>3. /\ task[t].pc # "idle" /\ Tidy(task'[t])
      /\ \A u \in Tasks \ {t} : task'[u] = task[u]
      /\ Works(t) \/ Reported(t) \/ Rests(t)
  BY TaskMoves DEF LifeInv
<1>4. \/ UNCHANGED state
      \/ \E target : /\ Legal(state[Job(t)], target)
                     /\ state' = [state EXCEPT ![Job(t)] = target]
  BY RowMoves DEF Moved
<1>5. \A j \in Jobs : j # Job(t) => state'[j] = state[j]
  BY <1>1, <1>4 DEF StoreTypeOK
<1>6. CleanOutside'
  BY <1>3 DEF LifeInv, CleanOutside
<1>7. EndIsCompleted'
  <2> SUFFICES ASSUME NEW j \in Jobs, checkpoint'[j].next = "end"
               PROVE  state'[j] = COMPLETED
    BY DEF EndIsCompleted
  <2>1. CASE checkpoint'[j] = checkpoint[j]
    <3>1. state[j] = COMPLETED
      BY <2>1 DEF LifeInv, EndIsCompleted
    <3>2. QED
      BY <1>4, <1>5, <3>1, LegalMoves
  <2>2. CASE task[t].dirty /\ checkpoint'[j] = task[t].mem
    BY <1>2, <2>2 DEF Tidy
  <2>3. QED
    BY <2>1, <2>2, CheckpointMoves
<1>8. ASSUME NEW j \in Jobs, state'[j] \in LIVE
      PROVE  /\ Driven(j) => Driven(j)'
             /\ Driven(j)' \/ state'[j] = state[j]
  <2>1. ASSUME NEW u \in Tasks \ {t}, Drives(u, j), ~At(u, "report") PROVE Driven(j)'
    BY <1>3, <2>1 DEF Driven, Drives, At
  <2>2. CASE j # Job(t)
    BY <1>2, <1>5, <2>1, <2>2 DEF Driven, Drives
  <2>3. CASE j = Job(t) /\ Works(t)
    BY <2>3 DEF Works, Driven, Drives, At
  <2>4. CASE j = Job(t) /\ Reported(t)
    BY <2>1, <2>4 DEF Reported, Driven
  <2>5. QED
    BY <1>3, <1>8, <2>2, <2>3, <2>4 DEF Rests
<1>9. UNCHANGED procVars
  BY DEF TaskStep
<1>10. BootIsDriven'
  BY <1>8, <1>9 DEF LifeInv, BootIsDriven, procVars
<1>11. LiveIsDriven'
  BY <1>8, <1>9 DEF LifeInv, LiveIsDriven, LIVE, procVars
<1>12. QED
  BY <1>6, <1>7, <1>10, <1>11 DEF LifeInv

\* Where a row changes without a task, it leaves the LIVE states or is asked for.
LEMMA SystemLife ==
    ASSUME TypeInv, GateInv, LifeInv, Next
    PROVE  LifeInv'
<1>1. StoreTypeOK /\ TaskOK /\ ProcOK
  BY TypeInvParts
<1>2. \A j : Driven(j)' <=> \E t \in Tasks : /\ task'[t].pc \notin {"idle", "report"}
                                             /\ task'[t].job = j
  BY DEF Driven, Drives, At
<1>3. ASSUME NEW j \in Jobs, NEW s, Spawn(j, s), UNCHANGED <<state, checkpoint>>,
             proc' = proc, strands \subseteq strands' \cup {j},
             \A i \in Jobs : kicks'[i] = kicks[i] \/ i = j
      PROVE  LifeInv'
  <2>1. CleanOutside' /\ Driven(j)' /\ \A i : Driven(i) => Driven(i)'
    BY <1>1, <1>3, SpawnLife DEF LifeInv
  <2>2. QED
    BY <1>3, <2>1 DEF LifeInv, EndIsCompleted, BootIsDriven, LiveIsDriven
<1>4. ASSUME NEW j \in Jobs, Recover(j) PROVE LifeInv'
  BY <1>3, <1>4 DEF Recover, storeVars
<1>5. ASSUME NEW j \in Jobs, Claim(j) PROVE LifeInv'
  <2>1. CleanOutside' /\ Driven(j)' /\ \A i : Driven(i) => Driven(i)'
    BY <1>1, <1>5, SpawnLife DEF Claim, LifeInv
  <2>2. /\ state[j] = QUEUED /\ \A i \in Jobs \ {j} : state'[i] = state[i]
        /\ UNCHANGED <<checkpoint, proc, strands, kicks>>
    BY <1>1, <1>5 DEF Claim, OldestQueued, StoreTypeOK
  <2>3. EndIsCompleted'
    BY <2>2 DEF LifeInv, EndIsCompleted, QUEUED, COMPLETED
  <2>4. QED
    BY <2>1, <2>2, <2>3 DEF LifeInv, BootIsDriven, LiveIsDriven
<1>6. ASSUME NEW j \in Jobs, Resume(j) PROVE LifeInv'
  <2>1. CASE Spawn(j, state[j])
    BY <1>1, <1>3, <1>6, <2>1 DEF Resume, storeVars, ProcOK
  <2>2. CASE state[j] \notin Resumable /\ UNCHANGED task
    <3>1. state[j] # RETRYING /\ \A i \in Jobs \ {j} : kicks'[i] = kicks[i]
      BY <1>1, <1>6, <2>2 DEF Resume, Resumable, ProcOK
    <3>2. QED
      BY <1>6, <2>2, <3>1 DEF Resume, storeVars, LifeInv, CleanOutside, EndIsCompleted,
                              BootIsDriven, LiveIsDriven, Driven, Drives, At
  <2>3. QED
    BY <1>6, <2>1, <2>2 DEF Resume
<1>7. CASE Crash
  <2>1. \A t \in Tasks : task'[t] = IdleTask
    BY <1>7 DEF Crash
  <2>2. CleanOutside'
    BY <2>1 DEF CleanOutside, Tidy, IdleTask
  <2>3. QED
    BY <1>7, <2>2 DEF Crash, storeVars, LifeInv, EndIsCompleted, BootIsDriven, LiveIsDriven
<1>8. CASE Boot
  BY <1>8 DEF Boot, StrandedLive, storeVars, LifeInv, CleanOutside, EndIsCompleted,
              BootIsDriven, LiveIsDriven
<1>9. CASE Serve
  BY <1>9 DEF Serve, LIVE, storeVars, LifeInv, CleanOutside, EndIsCompleted, BootIsDriven,
              LiveIsDriven, Driven, Drives, At
<1>10. CASE Poll \/ ClaimNothing \/ \E j \in Jobs : ClockExpires(j)
  BY <1>10 DEF Poll, ClaimNothing, ClockExpires, storeVars, procVars, LifeInv,
               CleanOutside, EndIsCompleted, BootIsDriven, LiveIsDriven, Driven, Drives, At
<1>11. ASSUME NEW j \in Jobs, \A i \in Jobs \ {j} : state'[i] = state[i],
              state[j] # COMPLETED,
              \/ state'[j] = state[j]
              \/ state'[j] \notin LIVE
              \/ state'[j] = RETRYING /\ proc = "up" /\ kicks'[j] > 0,
              UNCHANGED <<task, checkpoint, proc, strands>>,
              \A i \in Jobs : kicks[i] > 0 => kicks'[i] > 0
       PROVE  LifeInv'
  <2>1. EndIsCompleted'
    BY <1>11 DEF LifeInv, EndIsCompleted
  <2>2. \A i : Driven(i) <=> Driven(i)'
    BY <1>11 DEF Driven, Drives, At
  <2>3. BootIsDriven'
    BY <1>11, <2>2 DEF LifeInv, BootIsDriven
  <2>4. LiveIsDriven'
    BY <1>11, <2>2 DEF LifeInv, LiveIsDriven, LIVE, PLANNING, RUNNING, RETRYING
  <2>5. CleanOutside'
    BY <1>11 DEF LifeInv, CleanOutside
  <2>6. QED
    BY <2>1, <2>3, <2>4, <2>5 DEF LifeInv
<1>12. ASSUME NEW j \in Jobs, Create(j) \/ CancelJob(j) PROVE LifeInv'
  <2>1. /\ \A i \in Jobs \ {j} : state'[i] = state[i]
        /\ state[j] # COMPLETED /\ state'[j] \in {QUEUED, CANCELLED}
    <3>1. CASE Create(j)
      BY <1>1, <3>1 DEF Create, CreateRow, StoreTypeOK, NoRow, COMPLETED
    <3>2. CASE CancelJob(j)
      BY <1>1, <3>2, LegalMoves DEF CancelJob, Transition, StoreTypeOK
    <3>3. QED
      BY <1>12, <3>1, <3>2
  <2>2. UNCHANGED <<task, checkpoint, proc, strands, kicks>>
    BY <1>12 DEF Create, CancelJob, procVars
  <2>3. QED
    BY <1>11, <2>1, <2>2 DEF LIVE, QUEUED, CANCELLED, PLANNING, RUNNING, RETRYING
<1>13. ASSUME NEW j \in Jobs, RetryJob(j) PROVE LifeInv'
  <2>1. /\ \A i \in Jobs \ {j} : state'[i] = state[i]
        /\ state[j] # COMPLETED /\ state'[j] = RETRYING
    BY <1>1, <1>13, LegalMoves DEF RetryJob, Transition, StoreTypeOK
  <2>2. UNCHANGED <<task, checkpoint, proc, strands>> /\ proc = "up"
    BY <1>13 DEF RetryJob, Kick
  <2>3. kicks'[j] > 0 /\ \A i \in Jobs : kicks[i] > 0 => kicks'[i] > 0
    BY <1>1, <1>13 DEF RetryJob, Kick, ProcOK
  <2>4. QED
    BY <1>11, <2>1, <2>2, <2>3
<1>14. ASSUME NEW a \in ApprovalIds, NEW d, DecideApproval(a, d) PROVE LifeInv'
  <2>1. UNCHANGED <<state, task, checkpoint, proc, strands>>
    BY <1>14 DEF DecideApproval, Kick, rowVars
  <2>2. \A i \in Jobs : kicks[i] > 0 => kicks'[i] > 0
    BY <1>1, <1>14 DEF DecideApproval, Kick, ProcOK
  <2>3. QED
    BY <2>1, <2>2 DEF LifeInv, CleanOutside, EndIsCompleted, BootIsDriven, LiveIsDriven,
                      Driven, Drives, At
<1>15. QED
  BY <1>4, <1>5, <1>6, <1>7, <1>8, <1>9, <1>10, <1>12, <1>13, <1>14, TaskLife
     DEF Next, Owner, Worker

LEMMA LifeStep == TypeInv /\ GateInv /\ LifeInv /\ [Next]_vars => LifeInv'
<1>1. TypeInv /\ GateInv /\ LifeInv /\ UNCHANGED vars => LifeInv'
  BY DEF vars, storeVars, procVars, LifeInv, CleanOutside, EndIsCompleted, BootIsDriven,
         LiveIsDriven, Driven, Drives, At
<1>2. QED
  BY <1>1, SystemLife

LEMMA LifeInit == Init => LifeInv
<1> SUFFICES ASSUME Init PROVE LifeInv
  OBVIOUS
<1>1. CleanOutside
  BY DEF Init, CleanOutside, Tidy, IdleTask
<1>2. EndIsCompleted /\ BootIsDriven /\ LiveIsDriven
  BY DEF Init, StoreInit, EndIsCompleted, BootIsDriven, LiveIsDriven, NoCheckpoint, LIVE,
         NoRow, PLANNING, RUNNING, RETRYING
<1>3. QED
  BY <1>1, <1>2 DEF LifeInv

(* jobs/worker.py: in every behaviour, whatever tasks, crashes, boots,      *)
(* cancels and retries interleave, a serving process has for each job in a   *)
(* LIVE state a task that has still to move it on, or a resume() on its way. *)
THEOREM LiveHasATask == Spec => []LiveIsDriven
<1>1. LifeInv => LiveIsDriven
  BY DEF LifeInv
<1>2. QED
  BY <1>1, LifeInit, LifeStep, GateInit, GateStep, InitType, TypeStep, PTL DEF Spec

-----------------------------------------------------------------------------
(* The queue.  A task's step touches the ledger, the approvals and the      *)
(* checkpoint of its own job only, and no step moves a row back into the    *)
(* queue.                                                                   *)

\* What a task does to the approval rows.
LEMMA GateMoves ==
    ASSUME NEW t \in Tasks, TaskStep(t)
    PROVE  \/ UNCHANGED gateVars
           \/ \E a : Consume(a)
           \/ \E cmd : CreateApproval(Job(t), cmd)
<1>1. CASE RunnerStep(t)
  BY <1>1, RunnerGate DEF SettleExecute, gateVars
<1>2. CASE Flush(t) \/ RunCrashed(t) \/ Report(t)
  BY <1>2 DEF Flush, RunCrashed, Report, storeVars, gateVars
<1>3. CASE \E c \in Calls : ToolStep(t, c)
  BY <1>3 DEF ToolStep, LookUp, AskPending, CallCreate, CallReject, CallConsume,
              CallExecute, storeVars, gateVars
<1>4. CASE ExecutorStep(t) /\ ~\E c \in Calls : ToolStep(t, c)
  BY <1>4 DEF ExecutorStep, StartCall, ExecutorReturns, ExecutorRaises, storeVars, gateVars
<1>5. QED
  BY <1>1, <1>2, <1>3, <1>4 DEF TaskStep

\* What a task does to the ledger: it records a step, or the end of the plan.
LEMMA LedgerMoves ==
    ASSUME TypeInv, GateInv, NEW t \in Tasks, TaskStep(t)
    PROVE  \/ UNCHANGED ledgerVars
           \/ Complete(t)
           \/ Finalize(t)
<1>1. CASE RunnerStep(t) /\ ~Complete(t) /\ ~Finalize(t)
  BY <1>1 DEF RunnerStep, Look, Wake, Load, PlanRead, Think, Planned, Check, Block,
              SettleRead, SettleRejected, SettleExecute, SettleConsume, SettleDone, Hold,
              Park, Fail, Close, storeVars, ledgerVars
<1>2. CASE Flush(t) \/ RunCrashed(t) \/ Report(t)
  BY <1>2 DEF Flush, RunCrashed, Report, storeVars, ledgerVars
<1>3. CASE ExecutorStep(t)
  BY <1>3, ExecutorMoves
<1>4. QED
  BY <1>1, <1>2, <1>3 DEF TaskStep

\* A row inserted or consumed for one job is no row of another.
LEMMA RowsOfOthers ==
    ASSUME StoreTypeOK, NEW i \in Jobs, NEW j \in Jobs \ {i},
           UNCHANGED gateVars \/ (\E a : Consume(a)) \/ (\E cmd : CreateApproval(i, cmd))
    PROVE  ForJob(j)' = ForJob(j)
<1>1. requested \in Nat /\ 1 .. requested \subseteq ApprovalIds
  BY StoreAssumption DEF StoreTypeOK, ApprovalIds
<1>2. CASE UNCHANGED gateVars
  BY <1>2 DEF ForJob, gateVars
<1>3. CASE \E a : Consume(a)
  BY <1>1, <1>3, ConsumeFrame DEF ForJob
<1>4. CASE \E cmd : CreateApproval(i, cmd)
  <2>1. /\ requested' = requested + 1 /\ requested + 1 \in ApprovalIds
        /\ approval'[requested + 1].job = i
        /\ \A a \in 1 .. requested : approval'[a] = approval[a]
    BY <1>1, <1>4, StoreAssumption DEF CreateApproval, StoreTypeOK, ApprovalIds
  <2>2. 1 .. requested' = (1 .. requested) \cup {requested + 1}
    BY <1>1, <2>1
  <2>3. QED
    BY <2>1, <2>2 DEF ForJob
<1>5. QED
  BY <1>2, <1>3, <1>4

\* A job in the queue, or not yet in it; what a boot has yet to recover is past it.
InQueue(j)  == state[j] \in {NoRow, QUEUED}
StrandsPast == \A j \in strands : ~InQueue(j)
QueueInv    == QueuedIsUntouched /\ StrandsPast

LEMMA TaskQueue ==
    ASSUME TypeInv, GateInv, LifeInv, QueueInv, NEW t \in Tasks, TaskStep(t)
    PROVE  QueueInv'
<1>1. StoreTypeOK /\ TaskOK /\ ProcOK
  BY TypeInvParts
<1>2. Job(t) = task[t].job /\ Job(t) \in Jobs
  BY <1>1 DEF TaskOK, Task, Job
<1>3. /\ task[t].pc # "idle"
      /\ \A u \in Tasks \ {t} : task'[u] = task[u]
      /\ task'[t].job = Job(t) \/ task'[t].pc = "idle"
  BY TaskMoves DEF LifeInv, Works, Reported, Rests
<1>4. ~InQueue(Job(t))
  BY <1>2, <1>3 DEF QueueInv, QueuedIsUntouched, InQueue, Drives
<1>5. \A j \in Jobs : InQueue(j)' => j # Job(t) /\ state'[j] = state[j]
  <2>1. CASE UNCHANGED state
    BY <1>4, <2>1 DEF InQueue
  <2>2. CASE \E target \in RunnerTargets \cup {COMPLETED} :
                 state' = [state EXCEPT ![Job(t)] = target]
    BY <1>1, <1>2, <2>2 DEF StoreTypeOK, InQueue, RunnerTargets, COMPLETED, RUNNING,
                            BLOCKED, WAITING_APPROVAL, FAILED, NoRow, QUEUED
  <2>3. QED
    BY <2>1, <2>2, RowMoves DEF Moved
<1>6. ASSUME NEW j \in Jobs, InQueue(j)'
      PROVE  /\ \A u \in Tasks : ~Drives(u, j)'
             /\ kicks'[j] = 0 /\ checkpoint'[j] = NoCheckpoint /\ ForJob(j)' = {}
             /\ completed'[j] = {} /\ ~closed'[j]
  <2>1. /\ j # Job(t)
        /\ \A u \in Tasks : ~Drives(u, j)
        /\ kicks[j] = 0 /\ checkpoint[j] = NoCheckpoint /\ ForJob(j) = {}
        /\ completed[j] = {} /\ ~closed[j]
    BY <1>5, <1>6 DEF QueueInv, QueuedIsUntouched, InQueue
  <2>2. \A u \in Tasks : ~Drives(u, j)'
    BY <1>2, <1>3, <2>1 DEF Drives
  <2>3. kicks'[j] = 0
    BY <2>1 DEF TaskStep, procVars
  <2>4. checkpoint'[j] = NoCheckpoint
    BY <2>1, CheckpointMoves
  <2>5. ForJob(j)' = {}
    BY <1>1, <1>2, <2>1, GateMoves, RowsOfOthers
  <2>6. completed'[j] = {} /\ ~closed'[j]
    BY <1>1, <1>2, <2>1, LedgerMoves DEF Complete, Finalize, ledgerVars, StoreTypeOK
  <2>7. QED
    BY <2>1, <2>2, <2>3, <2>4, <2>5, <2>6
<1>7. StrandsPast'
  <2>1. strands' = strands /\ strands \subseteq Jobs
    BY <1>1 DEF TaskStep, procVars, ProcOK
  <2>2. QED
    BY <1>5, <2>1 DEF QueueInv, StrandsPast, InQueue
<1>8. QED
  BY <1>6, <1>7 DEF QueueInv, QueuedIsUntouched, InQueue

LEMMA SystemQueue ==
    ASSUME TypeInv, GateInv, LifeInv, QueueInv, Next
    PROVE  QueueInv'
<1>1. StoreTypeOK /\ TaskOK /\ ProcOK
  BY TypeInvParts
<1>2. ASSUME \A j \in Jobs : InQueue(j)' => InQueue(j),
             \A j \in Jobs : InQueue(j)' => \/ \A u \in Tasks : ~Drives(u, j)'
                                            \/ UNCHANGED task,
             \A j \in Jobs : InQueue(j)' => kicks'[j] \in {0, kicks[j]},
             UNCHANGED <<checkpoint, completed, closed, requested>>,
             \A a \in ApprovalIds : approval'[a].job = approval[a].job,
             \A j \in strands' : ~InQueue(j)'
      PROVE  QueueInv'
  <2>1. 1 .. requested \subseteq ApprovalIds
    BY <1>1, StoreAssumption DEF StoreTypeOK, ApprovalIds
  <2>2. \A j \in Jobs : ForJob(j)' = ForJob(j)
    BY <1>2, <2>1 DEF ForJob
  <2>3. \A j \in Jobs : InQueue(j)' => \A u \in Tasks : ~Drives(u, j)'
    BY <1>2 DEF QueueInv, QueuedIsUntouched, InQueue, Drives
  <2>4. \A j \in Jobs : InQueue(j)' => kicks'[j] = 0
    BY <1>2 DEF QueueInv, QueuedIsUntouched, InQueue
  <2>5. QED
    BY <1>2, <2>2, <2>3, <2>4 DEF QueueInv, QueuedIsUntouched, InQueue, StrandsPast
<1>3. ASSUME NEW j \in Jobs, NEW s, Spawn(j, s), ~InQueue(j)',
             \A i \in Jobs : InQueue(i) => \A u \in Tasks : ~Drives(u, i)
      PROVE  \A i \in Jobs : InQueue(i)' /\ InQueue(i) => \A u \in Tasks : ~Drives(u, i)'
  <2>1. PICK t \in Tasks : /\ task'[t].job = j
                           /\ \A u \in Tasks \ {t} : task'[u] = task[u]
    BY <1>1, <1>3 DEF Spawn, TaskOK, IdleTask
  <2>2. QED
    BY <1>3, <2>1 DEF Drives
<1>4. \A i \in Jobs : InQueue(i) => \A u \in Tasks : ~Drives(u, i)
  BY DEF QueueInv, QueuedIsUntouched, InQueue
<1>5. StrandsPast
  BY DEF QueueInv
<1>6. ASSUME NEW j \in Jobs, Recover(j) PROVE QueueInv'
  <2>1. ~InQueue(j) /\ UNCHANGED state
    BY <1>5, <1>6 DEF Recover, StrandsPast, storeVars
  <2>2. \A i \in Jobs : InQueue(i)' => \A u \in Tasks : ~Drives(u, i)'
    BY <1>3, <1>4, <1>6, <2>1 DEF Recover, InQueue
  <2>3. QED
    BY <1>2, <1>5, <1>6, <2>1, <2>2 DEF Recover, storeVars, StrandsPast, InQueue
<1>7. ASSUME NEW j \in Jobs, Claim(j) PROVE QueueInv'
  <2>1. /\ state'[j] = PLANNING /\ \A i \in Jobs \ {j} : state'[i] = state[i]
        /\ UNCHANGED <<ledgerVars, gateVars, checkpoint, strands, kicks>>
    BY <1>1, <1>7 DEF Claim, StoreTypeOK
  <2>2. ~InQueue(j)' /\ \A i \in Jobs : InQueue(i)' => InQueue(i)
    BY <2>1 DEF InQueue, PLANNING, NoRow, QUEUED
  <2>3. \A i \in Jobs : InQueue(i)' => \A u \in Tasks : ~Drives(u, i)'
    BY <1>3, <1>4, <1>7, <2>2 DEF Claim
  <2>4. \A i \in strands' : ~InQueue(i)'
    BY <1>1, <1>5, <2>1, <2>2 DEF StrandsPast, ProcOK
  <2>5. QED
    BY <1>2, <2>1, <2>2, <2>3, <2>4 DEF ledgerVars, gateVars
<1>8. ASSUME NEW j \in Jobs, Resume(j) PROVE QueueInv'
  <2>1. /\ kicks' = [kicks EXCEPT ![j] = @ - 1] /\ kicks[j] > 0
        /\ UNCHANGED <<storeVars, strands>>
    BY <1>8 DEF Resume
  <2>2. UNCHANGED <<state, checkpoint, completed, closed, requested, approval, strands>>
    BY <2>1 DEF storeVars
  <2>3. ~InQueue(j) /\ ~InQueue(j)'
    BY <2>1, <2>2 DEF QueueInv, QueuedIsUntouched, InQueue
  <2>4. \A i \in Jobs \ {j} : kicks'[i] = kicks[i]
    BY <1>1, <2>1 DEF ProcOK
  <2>5. \A i \in Jobs : InQueue(i)' => \/ \A u \in Tasks : ~Drives(u, i)'
                                       \/ UNCHANGED task
    BY <1>3, <1>4, <1>8, <2>2, <2>3 DEF Resume, InQueue
  <2>6. \A i \in Jobs : InQueue(i)' => kicks'[i] \in {0, kicks[i]}
    BY <2>3, <2>4
  <2>7. QED
    BY <1>2, <1>5, <2>2, <2>5, <2>6 DEF StrandsPast, InQueue
<1>9. CASE Crash
  <2>1. /\ \A u \in Tasks : task'[u].pc = "idle"
        /\ \A j \in Jobs : kicks'[j] = 0
        /\ strands' = {} /\ UNCHANGED storeVars
    BY <1>9 DEF Crash, IdleTask
  <2>2. QED
    BY <1>2, <2>1 DEF storeVars, Drives, InQueue
<1>10. CASE Boot
  <2>1. \A j \in strands' : ~InQueue(j)'
    BY <1>10 DEF Boot, StrandedLive, storeVars, InQueue, LIVE, NoRow, QUEUED, PLANNING,
                 RUNNING, RETRYING
  <2>2. QED
    BY <1>2, <1>10, <2>1 DEF Boot, storeVars, InQueue
<1>11. CASE Serve \/ Poll \/ ClaimNothing \/ \E j \in Jobs : ClockExpires(j)
  <2>1. UNCHANGED <<state, task, ledgerVars, gateVars, checkpoint, strands, kicks>>
    BY <1>11 DEF Serve, Poll, ClaimNothing, ClockExpires, storeVars, ledgerVars, gateVars,
                 procVars
  <2>2. QED
    BY <1>2, <1>5, <2>1 DEF ledgerVars, gateVars, InQueue, StrandsPast
<1>12. ASSUME NEW j \in Jobs, Create(j) \/ CancelJob(j) \/ RetryJob(j) PROVE QueueInv'
  <2>1. /\ InQueue(j)' => InQueue(j) /\ Create(j)
        /\ \A i \in Jobs \ {j} : state'[i] = state[i]
        /\ j \in strands => ~Create(j)
    <3>1. CASE Create(j)
      BY <1>1, <1>5, <3>1 DEF Create, CreateRow, StoreTypeOK, InQueue, StrandsPast
    <3>2. CASE \E target \in {CANCELLED, RETRYING} : Transition(j, target)
      <4>1. ~Create(j)
        BY <3>2, LegalMoves DEF Transition, Create, CreateRow
      <4>2. QED
        BY <1>1, <3>2, <4>1 DEF Transition, StoreTypeOK, InQueue, CANCELLED, RETRYING,
                                NoRow, QUEUED
    <3>3. QED
      BY <1>12, <3>1, <3>2 DEF CancelJob, RetryJob
  <2>2. UNCHANGED <<task, ledgerVars, gateVars, checkpoint, strands>>
    BY <1>12 DEF Create, CancelJob, RetryJob, Kick, procVars
  <2>3. \A i \in Jobs : InQueue(i)' => kicks'[i] = kicks[i]
    BY <1>1, <1>12, <2>1 DEF Create, CancelJob, RetryJob, Kick, procVars, ProcOK
  <2>4. \A i \in strands' : ~InQueue(i)'
    BY <1>1, <1>5, <2>1, <2>2 DEF StrandsPast, InQueue, ProcOK
  <2>5. \A i \in Jobs : InQueue(i)' => InQueue(i)
    BY <2>1 DEF InQueue
  <2>6. QED
    BY <1>2, <2>2, <2>3, <2>4, <2>5 DEF ledgerVars, gateVars
<1>13. ASSUME NEW a \in ApprovalIds, NEW d, DecideApproval(a, d) PROVE QueueInv'
  <2>1. /\ UNCHANGED <<state, task, ledgerVars, requested, checkpoint, strands>>
        /\ a <= requested
        /\ approval' = [approval EXCEPT ![a].decision = d]
        /\ kicks' = [kicks EXCEPT ![approval[a].job] = @ + 1]
    BY <1>13 DEF DecideApproval, RecordDecision, Kick, rowVars
  <2>2. ~InQueue(approval[a].job) /\ approval[a].job \in Jobs
    <3>1. approval[a].job \in Jobs
      BY <1>1 DEF StoreTypeOK, Approval
    <3>2. a \in ForJob(approval[a].job)
      BY <1>1, <2>1, StoreAssumption DEF ForJob, StoreTypeOK, ApprovalIds
    <3>3. QED
      BY <3>1, <3>2 DEF QueueInv, QueuedIsUntouched, InQueue
  <2>3. \A b \in ApprovalIds : approval'[b].job = approval[b].job
    BY <1>1, <2>1 DEF StoreTypeOK, Approval
  <2>4. \A j \in Jobs : InQueue(j)' => kicks'[j] = kicks[j]
    BY <1>1, <2>1, <2>2 DEF ProcOK, InQueue
  <2>5. QED
    BY <1>2, <1>5, <2>1, <2>3, <2>4 DEF ledgerVars, InQueue, StrandsPast
<1>14. QED
  BY <1>6, <1>7, <1>8, <1>9, <1>10, <1>11, <1>12, <1>13, TaskQueue DEF Next, Owner, Worker

LEMMA QueueStep == TypeInv /\ GateInv /\ LifeInv /\ QueueInv /\ [Next]_vars => QueueInv'
<1>1. TypeInv /\ GateInv /\ LifeInv /\ QueueInv /\ UNCHANGED vars => QueueInv'
  BY DEF vars, storeVars, procVars, QueueInv, QueuedIsUntouched, StrandsPast, InQueue,
         Drives, ForJob
<1>2. QED
  BY <1>1, SystemQueue

LEMMA QueueInit == Init => QueueInv
<1> SUFFICES ASSUME Init PROVE QueueInv
  OBVIOUS
<1>1. \A j : ForJob(j) = {}
  BY DEF Init, StoreInit, ForJob
<1>2. QED
  BY <1>1 DEF Init, StoreInit, IdleTask, QueueInv, QueuedIsUntouched, StrandsPast, Drives

(* store.claim_queued, worker.resume: in every behaviour a job has no task,  *)
(* no resume(), no checkpoint, no approval and no ledger entry before its     *)
(* claim took it out of the queue.                                           *)
THEOREM QueueIsClean == Spec => []QueuedIsUntouched
<1>1. QueueInv => QueuedIsUntouched
  BY DEF QueueInv
<1>2. QED
  BY <1>1, QueueInit, QueueStep, LifeInit, LifeStep, GateInit, GateStep, InitType,
     TypeStep, PTL DEF Spec

-----------------------------------------------------------------------------
(* Decisions.  What a task holds to settle, and what a tool call is about to *)
(* consume, has been decided: nobody consumes an undecided request.          *)

Ruled(a) == approval[a].decision \in {"approved", "rejected"}

ConsumedRuled == \A a \in ApprovalIds : approval[a].consumed => Ruled(a)
TodoRuled ==
    \A t \in Tasks : /\ \A a \in task[t].todo : Ruled(a)
                     /\ task[t].pc = "consume" => task[t].todo # {}
CallsRuled ==
    \A t \in Tasks, c \in Calls :
        call[t][c].pc \in {"reject", "consume"} => call[t][c].ap \in ApprovalIds
                                                   /\ Ruled(call[t][c].ap)
RuleInv == ConsumedRuled /\ TodoRuled /\ CallsRuled

\* What DecisionsAreFinal says of one step.
FinalFor(a) ==
    /\ Ruled(a) => approval'[a].decision = approval[a].decision
    /\ approval[a].consumed => approval'[a].consumed
    /\ approval'[a].consumed => Ruled(a)
FinalStep == \A a \in ApprovalIds : FinalFor(a)

\* What can be settled has been decided.
LEMMA SettleableRuled ==
    ASSUME StoreTypeOK, Inserted, NEW j \in Jobs, NEW a \in Settleable(j)
    PROVE  a \in ApprovalIds /\ Ruled(a)
  BY SettleableType DEF Settleable, ForJob, Inserted, Ruled, StoreTypeOK, Approval, Decisions

LEMMA ConsumeFinal ==
    ASSUME StoreTypeOK, ConsumedRuled, NEW a \in ApprovalIds, Ruled(a), Consume(a)
    PROVE  FinalStep
  BY DEF StoreTypeOK, Approval, ConsumedRuled, Consume, FinalStep, FinalFor

\* The approval a settling task is at is the first of those it has to do.
LEMMA FirstToDo ==
    ASSUME TaskOK, RuleInv, NEW t \in Tasks, task[t].todo # {}
    PROVE  Min(task[t].todo) \in ApprovalIds /\ Ruled(Min(task[t].todo))
<1>1. task[t].todo \in SUBSET ApprovalIds
  BY DEF TaskOK, Task
<1>2. ApprovalIds \subseteq Nat
  BY StoreAssumption DEF ApprovalIds
<1>3. Min(task[t].todo) \in task[t].todo
  BY <1>1, <1>2, MinInSet
<1>4. QED
  BY <1>1, <1>3 DEF RuleInv, TodoRuled

LEMMA SystemFinal ==
    ASSUME TypeInv, GateInv, RuleInv, [Next]_vars
    PROVE  FinalStep
<1>1. StoreTypeOK /\ TaskOK /\ CallOK
  BY TypeInvParts
<1>2. ASSUME UNCHANGED gateVars PROVE FinalStep
  BY <1>2 DEF gateVars, RuleInv, ConsumedRuled, FinalStep, FinalFor
<1>3. ASSUME NEW t \in Tasks, RunnerStep(t) PROVE FinalStep
  <2>1. CASE SettleRejected(t) \/ SettleConsume(t)
    <3>1. task[t].todo # {} /\ Consume(Min(task[t].todo))
      BY <2>1 DEF SettleRejected, SettleConsume, At, RuleInv, TodoRuled
    <3>2. QED
      BY <1>1, <3>1, FirstToDo, ConsumeFinal DEF RuleInv
  <2>2. CASE ~(SettleRejected(t) \/ SettleConsume(t))
    <3>1. UNCHANGED gateVars
      BY <1>3, <2>2 DEF RunnerStep, Look, Wake, Load, PlanRead, Think, Planned, Check, Block,
                        SettleRead, SettleExecute, SettleDone, Hold, Park, Fail, Complete,
                        Finalize, Close, storeVars, gateVars
    <3>2. QED
      BY <1>2, <3>1
  <2>3. QED
    BY <2>1, <2>2
<1>4. ASSUME NEW t \in Tasks, ExecutorStep(t) PROVE FinalStep
  <2>1. ASSUME NEW c \in Calls, CallReject(t, c) \/ CallConsume(t, c) PROVE FinalStep
    <3>1. call[t][c].ap \in ApprovalIds /\ Ruled(call[t][c].ap) /\ Consume(call[t][c].ap)
      BY <2>1 DEF CallReject, CallConsume, CallAt, RuleInv, CallsRuled
    <3>2. QED
      BY <1>1, <3>1, ConsumeFinal DEF RuleInv
  <2>2. ASSUME NEW c \in Calls, CallCreate(t, c) PROVE FinalStep
    <3>1. PICK cmd : CreateApproval(Job(t), cmd)
      BY <2>2 DEF CallCreate
    <3> DEFINE r == requested + 1
    <3>2. r \in ApprovalIds /\ requested \in Nat
      BY <1>1, <3>1, StoreAssumption DEF CreateApproval, StoreTypeOK, ApprovalIds
    <3>3. approval[r].decision = "absent"
      BY <3>2 DEF GateInv, Inserted
    <3>4. ~Ruled(r) /\ ~approval[r].consumed
      BY <3>2, <3>3 DEF Ruled, RuleInv, ConsumedRuled
    <3>5. ~approval'[r].consumed /\ \A a \in ApprovalIds \ {r} : approval'[a] = approval[a]
      BY <1>1, <3>1, <3>2 DEF CreateApproval, StoreTypeOK
    <3>6. QED
      BY <3>4, <3>5 DEF FinalStep, FinalFor, RuleInv, ConsumedRuled
  <2>3. CASE ~\E c \in Calls : CallReject(t, c) \/ CallConsume(t, c) \/ CallCreate(t, c)
    <3>1. UNCHANGED gateVars
      BY <1>4, <2>3 DEF ExecutorStep, StartCall, ExecutorReturns, ExecutorRaises, ToolStep,
                        LookUp, AskPending, CallExecute, storeVars, gateVars
    <3>2. QED
      BY <1>2, <3>1
  <2>4. QED
    BY <2>1, <2>2, <2>3
<1>5. ASSUME NEW t \in Tasks, TaskStep(t) PROVE FinalStep
  <2>1. CASE Flush(t) \/ RunCrashed(t) \/ Report(t)
    BY <1>2, <2>1 DEF Flush, RunCrashed, Report, storeVars, gateVars
  <2>2. QED
    BY <1>3, <1>4, <1>5, <2>1 DEF TaskStep
<1>6. ASSUME NEW a \in ApprovalIds, NEW d, DecideApproval(a, d) PROVE FinalStep
  BY <1>1, <1>6 DEF DecideApproval, RecordDecision, StoreTypeOK, Approval, RuleInv,
                    ConsumedRuled, Ruled, FinalStep, FinalFor
<1>7. CASE \E j \in Jobs : \/ Create(j) \/ CancelJob(j) \/ RetryJob(j) \/ ClockExpires(j)
                           \/ Recover(j) \/ Claim(j) \/ Resume(j)
  BY <1>2, <1>7 DEF Create, CancelJob, RetryJob, ClockExpires, Recover, Claim, Resume,
                    storeVars, gateVars
<1>8. CASE Serve \/ Poll \/ ClaimNothing \/ Crash \/ Boot \/ UNCHANGED vars
  BY <1>2, <1>8 DEF Serve, Poll, ClaimNothing, Crash, Boot, vars, storeVars, gateVars
<1>9. QED
  BY <1>5, <1>6, <1>7, <1>8 DEF Next, Owner, Worker

\* The approvals a task has to do only ever become fewer, or are read again.
LEMMA TodoMoves ==
    ASSUME StoreTypeOK, TaskOK, RuleInv, NEW t \in Tasks, RunnerStep(t)
    PROVE  /\ task'[t].todo \subseteq task[t].todo \cup Settleable(Job(t))
           /\ task'[t].pc = "consume" => task'[t].todo # {}
<1>1. task[t] \in Task
  BY DEF TaskOK
<1>2. ASSUME NEW p \in {"crashed", "report"}, Leave(t, p)
      PROVE  task'[t].todo = {} /\ task'[t].pc # "consume"
  BY <1>2 DEF Leave, TaskOK, IdleTask
<1>3. ASSUME NEW m, Superstep(t, m) PROVE task'[t].todo = {} /\ task'[t].pc # "consume"
  BY <1>3 DEF Superstep, TaskOK, IdleTask, EntryPC
<1>4. ASSUME NEW p \in PCs \ {"consume"}, Go(t, p)
      PROVE  task'[t].todo = task[t].todo /\ task'[t].pc # "consume"
  BY <1>1, <1>4 DEF Go, TaskOK, Task
<1>5. CASE Look(t) \/ PlanRead(t)
  BY <1>1, <1>5 DEF Look, PlanRead, TaskOK, Task
<1>6. CASE Load(t)
  BY <1>1, <1>2, <1>3, <1>6 DEF Load, Halt, EntryPC, TaskOK, Task
<1>7. CASE Think(t)
  BY <1>1, <1>2, <1>7 DEF Think, Raise, TaskOK, Task
<1>8. CASE Planned(t) \/ Complete(t)
  BY <1>2, <1>3, <1>8 DEF Planned, Complete, Raise
<1>9. CASE Wake(t) \/ Check(t) \/ Block(t) \/ Park(t) \/ Fail(t)
  BY <1>2, <1>4, <1>9, PCsAreNamed DEF Wake, Check, Block, Park, Fail, Raise, Halt
<1>10. CASE SettleDone(t) \/ Hold(t) \/ Finalize(t)
  BY <1>4, <1>10, PCsAreNamed DEF SettleDone, Hold, Finalize
<1>11. CASE SettleRead(t) \/ SettleRejected(t) \/ SettleConsume(t)
  BY <1>1, <1>11 DEF SettleRead, SettleRejected, SettleConsume, At, TaskOK, Task
<1>12. CASE SettleExecute(t)
  BY <1>1, <1>12 DEF SettleExecute, Go, TaskOK, Task
<1>13. CASE Close(t)
  BY <1>1, <1>2, <1>13 DEF Close, Raise, TaskOK, IdleTask
<1>14. QED
  BY <1>5, <1>6, <1>7, <1>8, <1>9, <1>10, <1>11, <1>12, <1>13 DEF RunnerStep

\* A tool call takes up a decided approval only.
LEMMA LookUpRuled ==
    ASSUME StoreTypeOK, TaskOK, CallOK, Inserted, NEW t \in Tasks, NEW c \in Calls,
           LookUp(t, c), call'[t][c].pc \in {"reject", "consume"}
    PROVE  call'[t][c].ap \in ApprovalIds /\ Ruled(call'[t][c].ap)
<1> DEFINE found == DecidedUnconsumed(Job(t), call[t][c].cmd)
           p == IF approval[Min(found)].decision = "rejected" THEN "reject" ELSE "consume"
<1>1. call[t][c] \in Call /\ Job(t) \in Jobs
  BY DEF CallOK, TaskOK, Task, Job
<1>2. found # {} /\ ~CallGo(t, c, "ask")
  BY DEF LookUp, CallGo, CallOK, Call
<1>3. call' = [call EXCEPT ![t][c] = [@ EXCEPT !.ap = Min(found), !.pc = p]]
  BY <1>2 DEF LookUp
<1>4. call'[t][c] = [call[t][c] EXCEPT !.ap = Min(found), !.pc = p]
  BY <1>3 DEF CallOK
<1>5. call'[t][c].ap = Min(found)
  BY <1>1, <1>4 DEF Call
<1>6. Min(found) \in found
  BY <1>1, <1>2, SettleableType, MinInSet
<1>7. found \subseteq Settleable(Job(t))
  BY DEF DecidedUnconsumed
<1>8. QED
  BY <1>1, <1>5, <1>6, <1>7, SettleableRuled

LEMMA CallMoves ==
    ASSUME TypeInv, GateInv, RuleInv, NEW t \in Tasks, ExecutorStep(t), NEW u \in Tasks,
           NEW c \in Calls, call'[u][c].pc \in {"reject", "consume"}
    PROVE  call'[u][c].ap \in ApprovalIds /\ Ruled(call'[u][c].ap)
<1>1. StoreTypeOK /\ TaskOK /\ CallOK
  BY TypeInvParts
<1>2. CASE call'[u][c] = call[u][c]
  BY <1>2 DEF RuleInv, CallsRuled
<1>3. ASSUME NEW d \in Calls, ToolStep(t, d) PROVE call'[u][c].ap \in ApprovalIds /\ Ruled(call'[u][c].ap)
  <2>1. <<u, c>> # <<t, d>> => call'[u][c] = call[u][c]
    BY <1>1, <1>3 DEF ToolStep, LookUp, AskPending, CallCreate, CallReject, CallConsume,
                      CallExecute, CallGo, Return, CallOK
  <2>2. ~LookUp(t, d) => call'[t][d].pc \in {"idle", "create", "execute"}
    <3>1. call[t][d] \in Call
      BY <1>1 DEF CallOK
    <3>2. QED
      BY <1>1, <1>3, <3>1 DEF ToolStep, AskPending, CallCreate, CallReject, CallConsume,
                              CallExecute, CallGo, Return, CallOK, Call, IdleCall
  <2>3. QED
    BY <1>1, <1>2, <2>1, <2>2, LookUpRuled DEF GateInv
<1>4. ASSUME NEW d \in Calls, NEW cmd \in Commands, StartCall(t, d, cmd)
      PROVE  call'[u][c] = call[u][c]
  <2>1. call' = [call EXCEPT ![t][d] = [pc |-> "lookup", cmd |-> cmd, ap |-> 0]]
    BY <1>4 DEF StartCall
  <2>2. call'[t][d].pc = "lookup"
    BY <1>1, <2>1 DEF CallOK
  <2>3. <<u, c>> # <<t, d>> => call'[u][c] = call[u][c]
    BY <1>1, <2>1 DEF CallOK
  <2>4. QED
    BY <2>2, <2>3
<1>5. CASE ExecutorReturns(t)
  BY <1>2, <1>5 DEF ExecutorReturns
<1>6. CASE ExecutorRaises(t)
  <2>1. call' = [call EXCEPT ![t] = [d \in Calls |-> IdleCall]]
    BY <1>6 DEF ExecutorRaises
  <2>2. CASE u = t
    BY <1>1, <2>1, <2>2 DEF CallOK, IdleCall
  <2>3. CASE u # t
    BY <1>1, <1>2, <2>1, <2>3 DEF CallOK
  <2>4. QED
    BY <2>2, <2>3
<1>7. QED
  BY <1>2, <1>3, <1>4, <1>5, <1>6 DEF ExecutorStep

\* Decided approvals is all that is held or consumed, after every step too.
LEMMA RuleStep == TypeInv /\ GateInv /\ LifeInv /\ RuleInv /\ [Next]_vars => RuleInv'
<1> SUFFICES ASSUME TypeInv, GateInv, LifeInv, RuleInv, [Next]_vars PROVE RuleInv'
  OBVIOUS
<1>1. StoreTypeOK /\ TaskOK /\ CallOK
  BY TypeInvParts
<1>2. FinalStep
  BY SystemFinal
<1>3. \A a \in ApprovalIds : Ruled(a) => Ruled(a)'
  BY <1>2 DEF FinalStep, FinalFor, Ruled
<1>4. ConsumedRuled'
  BY <1>2, <1>3 DEF FinalStep, FinalFor, ConsumedRuled
<1>5. ASSUME \A t \in Tasks : /\ \A a \in task'[t].todo : a \in ApprovalIds /\ Ruled(a)
                              /\ task'[t].pc = "consume" => task'[t].todo # {},
             \A t \in Tasks, c \in Calls :
                 call'[t][c].pc \in {"reject", "consume"} =>
                     call'[t][c].ap \in ApprovalIds /\ Ruled(call'[t][c].ap)
      PROVE  RuleInv'
  <2>1. TodoRuled'
    BY <1>3, <1>5 DEF TodoRuled
  <2>2. CallsRuled'
    BY <1>3, <1>5 DEF CallsRuled
  <2>3. QED
    BY <1>4, <2>1, <2>2 DEF RuleInv
<1>6. /\ \A t \in Tasks : \A a \in task[t].todo : a \in ApprovalIds /\ Ruled(a)
      /\ \A t \in Tasks : task[t].pc = "consume" => task[t].todo # {}
      /\ \A t \in Tasks, c \in Calls :
             call[t][c].pc \in {"reject", "consume"} =>
                 call[t][c].ap \in ApprovalIds /\ Ruled(call[t][c].ap)
  BY <1>1 DEF RuleInv, TodoRuled, CallsRuled, TaskOK, Task
<1>7. ASSUME NEW t \in Tasks, TaskStep(t) PROVE RuleInv'
  <2>1. \A u \in Tasks \ {t} : task'[u] = task[u]
    BY <1>7, TaskMoves DEF LifeInv
  <2>2. CASE RunnerStep(t) /\ UNCHANGED call
    <3>1. /\ \A a \in task'[t].todo : a \in ApprovalIds /\ Ruled(a)
          /\ task'[t].pc = "consume" => task'[t].todo # {}
      <4>1. Job(t) \in Jobs
        BY <1>1 DEF TaskOK, Task, Job
      <4>2. QED
        BY <1>1, <1>6, <2>2, <4>1, TodoMoves, SettleableRuled DEF GateInv
    <3>2. QED
      BY <1>5, <1>6, <2>1, <2>2, <3>1
  <2>3. CASE ExecutorStep(t)
    <3>1. task'[t].todo = task[t].todo /\ task'[t].pc # "consume"
      BY <2>3, ExecutorMoves
    <3>2. \A u \in Tasks, c \in Calls :
              call'[u][c].pc \in {"reject", "consume"} =>
                  call'[u][c].ap \in ApprovalIds /\ Ruled(call'[u][c].ap)
      BY <2>3, CallMoves
    <3>3. QED
      BY <1>5, <1>6, <2>1, <3>1, <3>2
  <2>4. CASE (Flush(t) /\ UNCHANGED call) \/ RunCrashed(t) \/ Report(t)
    <3>1. UNCHANGED call
      BY <2>4 DEF RunCrashed, Report
    <3>2. task'[t].todo \in {{}, task[t].todo} /\ task'[t].pc \in {"idle", task[t].pc}
      BY <1>1, <2>4 DEF Flush, RunCrashed, Report, TaskOK, Task, IdleTask
    <3>3. task'[t].pc = "consume" => task'[t].todo = task[t].todo
      BY <1>1, <2>4 DEF Flush, RunCrashed, Report, TaskOK, Task, IdleTask
    <3>4. QED
      BY <1>5, <1>6, <2>1, <3>1, <3>2, <3>3
  <2>5. QED
    BY <1>7, <2>2, <2>3, <2>4 DEF TaskStep
<1>8. ASSUME NEW j \in Jobs, NEW s, Spawn(j, s), UNCHANGED call PROVE RuleInv'
  <2>1. PICK t \in Tasks : /\ task'[t].todo = {} /\ task'[t].pc = "look"
                           /\ \A u \in Tasks \ {t} : task'[u] = task[u]
    BY <1>1, <1>8 DEF Spawn, TaskOK, IdleTask
  <2>2. QED
    BY <1>5, <1>6, <1>8, <2>1
<1>9. ASSUME UNCHANGED <<task, call>> PROVE RuleInv'
  BY <1>5, <1>6, <1>9
<1>10. CASE \E j \in Jobs : Recover(j) \/ Claim(j) \/ Resume(j)
  BY <1>8, <1>9, <1>10 DEF Recover, Claim, Resume
<1>11. CASE Crash
  <2>1. /\ \A t \in Tasks : task'[t].todo = {} /\ task'[t].pc = "idle"
        /\ \A t \in Tasks, c \in Calls : call'[t][c].pc = "idle"
    BY <1>11 DEF Crash, IdleTask, IdleCall
  <2>2. QED
    BY <1>5, <2>1
<1>12. CASE Serve \/ Poll \/ ClaimNothing \/ Boot \/ Owner \/ \E j \in Jobs : ClockExpires(j)
  BY <1>9, <1>12 DEF Serve, Poll, ClaimNothing, Boot, Owner, Create, CancelJob, RetryJob,
                     DecideApproval, ClockExpires
<1>13. CASE UNCHANGED vars
  BY <1>9, <1>13 DEF vars
<1>14. QED
  BY <1>7, <1>10, <1>11, <1>12, <1>13 DEF Next, Worker

LEMMA RuleInit == Init => RuleInv
<1> SUFFICES ASSUME Init PROVE RuleInv
  OBVIOUS
<1>1. ConsumedRuled
  BY DEF Init, StoreInit, ConsumedRuled, NoApproval
<1>2. TodoRuled /\ CallsRuled
  BY DEF Init, IdleTask, IdleCall, TodoRuled, CallsRuled
<1>3. QED
  BY <1>1, <1>2 DEF RuleInv

(* ApprovalStore: in every behaviour a decision is made once, nothing is      *)
(* consumed before it is decided, and a consumption is never undone, whatever *)
(* settling tasks and tool calls race for the same row.                       *)
THEOREM DecidedOnce == Spec => DecisionsAreFinal
<1>1. TypeInv /\ GateInv /\ RuleInv /\ [Next]_vars => FinalStep
  BY SystemFinal
<1>2. FinalStep => \A a \in ApprovalIds :
          /\ approval[a].decision \in {"approved", "rejected"} =>
                 approval'[a].decision = approval[a].decision
          /\ approval[a].consumed => approval'[a].consumed
          /\ approval'[a].consumed => approval[a].decision \in {"approved", "rejected"}
  BY DEF FinalStep, FinalFor, Ruled
<1>3. QED
  BY <1>1, <1>2, RuleInit, RuleStep, LifeInit, LifeStep, GateInit, GateStep, InitType,
     TypeStep, PTL DEF Spec, DecisionsAreFinal

-----------------------------------------------------------------------------
(* Completion.  A plan that is executed or finalized has steps, and a task   *)
(* that closes a job has recorded its end.                                   *)

HasPlan(m) == m.next \in {"execute", "finalize"} => m.len > 0
Prepared(t) ==
    /\ HasPlan(task[t].mem)
    /\ task[t].pc = "planned" => task[t].steps > 0
    /\ task[t].pc \in FinalizePCs => task[t].mem.next = "finalize"
Planful ==
    /\ \A j \in Jobs : HasPlan(checkpoint[j])
    /\ \A t \in Tasks : Prepared(t) /\ (task[t].pc = "closing" => closed[Job(t)])

LEMMA RunnerPrepared ==
    ASSUME StoreTypeOK, TaskOK, Planful, NEW t \in Tasks, RunnerStep(t)
    PROVE  /\ Prepared(t)'
           /\ task'[t].pc = "closing" => Finalize(t)
<1>1. task[t] \in Task /\ Job(t) \in Jobs /\ Prepared(t) /\ RoutedState(task[t].mem)
  BY DEF TaskOK, Routed, Task, Job, Planful
<1>2. ASSUME NEW p \in {"crashed", "report"}, Leave(t, p)
      PROVE  Prepared(t)' /\ task'[t].pc # "closing"
  BY <1>2 DEF Leave, TaskOK, IdleTask, NoCheckpoint, Prepared, HasPlan, FinalizePCs
<1>3. ASSUME NEW m, HasPlan(m), Superstep(t, m)
      PROVE  Prepared(t)' /\ task'[t].pc # "closing"
  BY <1>3 DEF Superstep, TaskOK, IdleTask, EntryPC, Prepared, HasPlan, FinalizePCs
<1>4. ASSUME NEW p \in PCs \ {"planned", "finalize", "closing"}, Go(t, p)
      PROVE  Prepared(t)' /\ task'[t].pc # "closing"
  BY <1>1, <1>4 DEF Go, TaskOK, Task, Prepared, HasPlan, FinalizePCs
<1>5. HasPlan(checkpoint[Job(t)])
  BY <1>1 DEF Planful
<1>6. CASE Look(t)
  BY <1>1, <1>5, <1>6 DEF Look, TaskOK, Task, Prepared, HasPlan, FinalizePCs
<1>7. CASE PlanRead(t)
  BY <1>1, <1>7 DEF PlanRead, TaskOK, Task, Prepared, HasPlan, FinalizePCs
<1>8. CASE Load(t)
  <2>1. CASE Superstep(t, Fresh)
    BY <1>3, <2>1 DEF Fresh, HasPlan
  <2>2. CASE Halt(t)
    BY <1>2, <2>2 DEF Halt
  <2>3. CASE task' = [task EXCEPT ![t].mem = checkpoint[Job(t)],
                                  ![t].pc = EntryPC(checkpoint[Job(t)].next)]
    BY <1>1, <1>5, <2>3 DEF EntryPC, TaskOK, Task, Prepared, HasPlan, FinalizePCs
  <2>4. QED
    BY <1>8, <2>1, <2>2, <2>3 DEF Load
<1>9. CASE Think(t)
  <2>1. CASE \E n \in Steps : task' = [task EXCEPT ![t].pc = "planned", ![t].steps = n]
    BY <1>1, <2>1, StoreAssumption
       DEF Steps, TaskOK, Task, Prepared, HasPlan, FinalizePCs
  <2>2. CASE Raise(t)
    BY <1>2, <2>2 DEF Raise
  <2>3. QED
    BY <1>9, <2>1, <2>2 DEF Think
<1>10. CASE Planned(t)
  <2> DEFINE planned == [next |-> NodeAfter(task[t].steps, 0), len |-> task[t].steps,
                         idx |-> 0]
  <2>1. HasPlan(planned)
    BY <1>1, <1>10 DEF Planned, At, Prepared, HasPlan
  <2>2. CASE Superstep(t, planned)
    BY <1>3, <2>1, <2>2
  <2>3. CASE Raise(t)
    BY <1>2, <2>3 DEF Raise
  <2>4. QED
    BY <1>10, <2>2, <2>3 DEF Planned
<1>11. CASE Wake(t) \/ Check(t) \/ Block(t) \/ Park(t) \/ Fail(t)
  BY <1>2, <1>4, <1>11, PCsAreNamed DEF Wake, Check, Block, Park, Fail, Raise, Halt
<1>12. CASE SettleExecute(t) \/ SettleDone(t) \/ Hold(t)
  BY <1>4, <1>12, PCsAreNamed DEF SettleExecute, SettleDone, Hold
<1>13. CASE SettleRead(t) \/ SettleRejected(t) \/ SettleConsume(t)
  BY <1>1, <1>13 DEF SettleRead, SettleRejected, SettleConsume, At, TaskOK, Task, Prepared,
                     HasPlan, FinalizePCs
<1>14. CASE Complete(t)
  <2> DEFINE m == task[t].mem
             n == [m EXCEPT !.idx = m.idx + 1, !.next = NodeAfter(m.len, m.idx + 1)]
  <2>1. m.next = "execute" /\ Superstep(t, n)
    BY <1>14 DEF Complete, At, TaskOK, Routed, ExecutePCs
  <2>2. m.len > 0 /\ m \in Checkpoint
    BY <1>1, <2>1 DEF Prepared, HasPlan, Task
  <2>3. HasPlan(n)
    BY <2>2 DEF HasPlan, Checkpoint
  <2>4. QED
    BY <1>3, <2>1, <2>3
<1>15. CASE Finalize(t)
  BY <1>1, <1>15 DEF Finalize, At, Go, TaskOK, Task, Prepared, HasPlan, FinalizePCs
<1>16. CASE Close(t)
  <2>1. CASE Raise(t)
    BY <1>2, <2>1 DEF Raise
  <2>2. CASE task' = [task EXCEPT ![t] = [IdleTask EXCEPT !.pc = "report", !.job = Job(t)]]
    BY <2>2 DEF TaskOK, IdleTask, NoCheckpoint, Prepared, HasPlan, FinalizePCs
  <2>3. QED
    BY <1>16, <2>1, <2>2 DEF Close
<1>17. QED
  BY <1>6, <1>7, <1>8, <1>9, <1>10, <1>11, <1>12, <1>13, <1>14, <1>15, <1>16
     DEF RunnerStep

LEMMA TaskPlanful ==
    ASSUME TypeInv, GateInv, LifeInv, Planful, NEW t \in Tasks, TaskStep(t)
    PROVE  Planful'
<1>1. StoreTypeOK /\ TaskOK
  BY TypeInvParts
<1>2. task[t] \in Task /\ Job(t) = task[t].job /\ Job(t) \in Jobs
  BY <1>1 DEF TaskOK, Task, Job
<1>3. \A u \in Tasks \ {t} : task'[u] = task[u] /\ task[u].job \in Jobs
  BY <1>1, TaskMoves DEF LifeInv, TaskOK, Task
<1>4. \A j \in Jobs : closed[j] => closed'[j]
  BY <1>1, <1>2, LedgerMoves DEF Complete, Finalize, ledgerVars, StoreTypeOK
<1>5. \A j \in Jobs : HasPlan(checkpoint'[j])
  <2> TAKE j \in Jobs
  <2>1. CASE checkpoint'[j] = checkpoint[j] \/ checkpoint'[j] = task[t].mem
    BY <2>1 DEF Planful, Prepared
  <2>2. CASE Close(t) /\ ~Raise(t) /\ j = Job(t)
    BY <1>1, <1>2, <2>2 DEF Close, StoreTypeOK, Checkpoint, Task, HasPlan
  <2>3. CASE At(t, "closing") /\ j = Job(t) /\ ~Close(t)
    <3>1. ~RunnerStep(t)
      BY <2>3 DEF RunnerStep, At, Look, Wake, Load, PlanRead, Think, Planned, Check, Block,
                  SettleRead, SettleRejected, SettleExecute, SettleConsume, SettleDone,
                  Hold, Park, Fail, Complete, Finalize
    <3>2. CASE Flush(t)
      BY <1>1, <1>2, <2>1, <2>3, <3>2 DEF Flush, StoreTypeOK
    <3>3. CASE ExecutorStep(t)
      BY <2>3, <3>3, ExecutorMoves DEF At
    <3>4. QED
      BY <2>3, <3>1, <3>2, <3>3 DEF TaskStep, RunCrashed, Report, At
  <2>4. CASE Raise(t) /\ j = Job(t)
    BY <1>1, <1>2, <2>1, <2>4 DEF Raise, Leave, StoreTypeOK
  <2>5. QED
    BY <2>1, <2>2, <2>3, <2>4, CheckpointMoves
<1>6. Prepared(t)' /\ (task'[t].pc = "closing" => closed'[Job(t)] /\ task'[t].job = Job(t))
  <2>1. CASE RunnerStep(t)
    <3>1. CASE Finalize(t)
      BY <1>1, <1>2, <2>1, <3>1, RunnerPrepared DEF Finalize, Go, StoreTypeOK, TaskOK
    <3>2. CASE ~Finalize(t)
      BY <1>1, <2>1, <3>2, RunnerPrepared
    <3>3. QED
      BY <3>1, <3>2
  <2>2. CASE Flush(t)
    <3>1. /\ task'[t].pc = task[t].pc /\ task'[t].job = task[t].job
          /\ task'[t].mem = task[t].mem /\ task'[t].steps = task[t].steps
      BY <1>1, <1>2, <2>2 DEF Flush, TaskOK, Task
    <3>2. QED
      BY <1>2, <1>4, <3>1 DEF Planful, Prepared
  <2>3. CASE ExecutorStep(t)
    BY <2>3, ExecutorMoves DEF Planful, Prepared, FinalizePCs
  <2>4. CASE RunCrashed(t) \/ Report(t)
    BY <1>1, <2>4 DEF RunCrashed, Report, TaskOK, IdleTask, NoCheckpoint, Prepared, HasPlan,
                      FinalizePCs
  <2>5. QED
    BY <2>1, <2>2, <2>3, <2>4 DEF TaskStep
<1>7. \A u \in Tasks : Prepared(u)' /\ (task'[u].pc = "closing" => closed'[task'[u].job])
  <2> TAKE u \in Tasks
  <2>1. CASE u = t
    BY <1>6, <2>1
  <2>2. CASE u # t
    BY <1>3, <1>4, <2>2 DEF Planful, Prepared, Job
  <2>3. QED
    BY <2>1, <2>2
<1>8. QED
  BY <1>5, <1>7 DEF Planful, Job

LEMMA PlanStep == TypeInv /\ GateInv /\ LifeInv /\ Planful /\ [Next]_vars => Planful'
<1> SUFFICES ASSUME TypeInv, GateInv, LifeInv, Planful, [Next]_vars PROVE Planful'
  OBVIOUS
<1>1. TaskOK
  BY TypeInvParts
<1>2. ASSUME UNCHANGED <<task, checkpoint, closed>> PROVE Planful'
  BY <1>2 DEF Planful, Prepared, Job
<1>3. ASSUME NEW j \in Jobs, NEW s, Spawn(j, s), UNCHANGED <<checkpoint, closed>>
      PROVE  Planful'
  <2>1. PICK t \in Tasks : /\ task'[t].mem = NoCheckpoint /\ task'[t].pc = "look"
                           /\ \A u \in Tasks \ {t} : task'[u] = task[u]
    BY <1>1, <1>3 DEF Spawn, TaskOK, IdleTask
  <2>2. Prepared(t)' /\ task'[t].pc # "closing"
    BY <2>1 DEF Prepared, HasPlan, NoCheckpoint, FinalizePCs
  <2>3. \A u \in Tasks : Prepared(u)' /\ (task'[u].pc = "closing" => closed'[task'[u].job])
    BY <1>3, <2>1, <2>2 DEF Planful, Prepared, Job
  <2>4. QED
    BY <1>3, <2>3 DEF Planful, Job
<1>4. CASE \E j \in Jobs : Recover(j) \/ Claim(j) \/ Resume(j)
  BY <1>2, <1>3, <1>4 DEF Recover, Claim, Resume, storeVars, ledgerVars
<1>5. CASE Crash
  <2>1. /\ \A t \in Tasks : task'[t].mem = NoCheckpoint /\ task'[t].pc = "idle"
        /\ UNCHANGED <<checkpoint, closed>>
    BY <1>5 DEF Crash, IdleTask, storeVars
  <2>2. QED
    BY <2>1 DEF Planful, Prepared, HasPlan, NoCheckpoint, FinalizePCs
<1>6. CASE Serve \/ Poll \/ ClaimNothing \/ Boot \/ Owner \/ \E j \in Jobs : ClockExpires(j)
  BY <1>2, <1>6 DEF Serve, Poll, ClaimNothing, Boot, Owner, Create, CancelJob, RetryJob,
                    DecideApproval, ClockExpires, storeVars, ledgerVars
<1>7. CASE UNCHANGED vars
  BY <1>2, <1>7 DEF vars, storeVars
<1>8. QED
  BY <1>4, <1>5, <1>6, <1>7, TaskPlanful DEF Next, Worker

LEMMA PlanInit == Init => Planful
  BY DEF Init, StoreInit, Planful, Prepared, HasPlan, NoCheckpoint, IdleTask, FinalizePCs

\* What a task that closes its job has behind it.
LEMMA ClosingEarned ==
    ASSUME TypeInv, LedgerLeadsCheckpoint, Planful, NEW t \in Tasks, Close(t)
    PROVE  /\ closed[Job(t)] /\ Drives(t, Job(t))
           /\ task[t].mem.len \in 1 .. MaxSteps
           /\ 1 .. task[t].mem.len \subseteq completed[Job(t)]
<1>1. task[t] \in Task /\ RoutedState(task[t].mem) /\ task[t].pc = "closing"
  BY TypeInvParts DEF TaskOK, Routed, Close, At
<1>2. task[t].mem.next = "finalize" /\ task[t].mem.len > 0 /\ closed[Job(t)]
  BY <1>1 DEF Planful, Prepared, HasPlan, FinalizePCs
<1>3. task[t].mem.idx = task[t].mem.len
  BY <1>1, <1>2 DEF RoutedState
<1>4. task[t].mem.len \in 1 .. MaxSteps
  BY <1>1, <1>2, StoreAssumption DEF Task, Checkpoint
<1>5. QED
  BY <1>1, <1>2, <1>3, <1>4 DEF LedgerLeadsCheckpoint, Drives, Job

\* What CompletionIsEarned says of one step.
EarnedFor(j) == /\ closed[j]
                /\ \E t \in Tasks : /\ Drives(t, j) /\ task[t].mem.len > 0
                                    /\ 1 .. task[t].mem.len \subseteq completed[j]
EarnedStep == \A j \in Jobs : state[j] # COMPLETED /\ state'[j] = COMPLETED => EarnedFor(j)

LEMMA SystemEarned ==
    ASSUME TypeInv, LedgerLeadsCheckpoint, Planful, [Next]_vars
    PROVE  EarnedStep
<1>1. StoreTypeOK /\ TaskOK
  BY TypeInvParts
<1>2. ASSUME NEW i \in Jobs, NEW target, target # COMPLETED,
             state' = [state EXCEPT ![i] = target]
      PROVE  EarnedStep
  BY <1>1, <1>2 DEF EarnedStep, StoreTypeOK
<1>3. ASSUME UNCHANGED state PROVE EarnedStep
  BY <1>3 DEF EarnedStep
<1>4. ASSUME NEW t \in Tasks, TaskStep(t) PROVE EarnedStep
  <2>1. Job(t) \in Jobs
    BY <1>1 DEF TaskOK, Task, Job
  <2>2. CASE Moved(t, RunnerTargets)
    BY <1>2, <2>1, <2>2 DEF Moved, RunnerTargets, RUNNING, BLOCKED, WAITING_APPROVAL,
                            FAILED, COMPLETED
  <2>3. CASE Close(t) /\ Moved(t, {COMPLETED})
    <3>1. \A j \in Jobs \ {Job(t)} : state'[j] = state[j]
      BY <1>1, <2>1, <2>3 DEF Moved, StoreTypeOK
    <3>2. EarnedFor(Job(t))
      BY <2>3, ClosingEarned DEF EarnedFor
    <3>3. QED
      BY <3>1, <3>2 DEF EarnedStep
  <2>4. QED
    BY <1>3, <1>4, <2>2, <2>3, RowMoves
<1>5. CASE \E j \in Jobs : Create(j) \/ CancelJob(j) \/ RetryJob(j) \/ Claim(j)
  BY <1>2, <1>5 DEF Create, CreateRow, CancelJob, RetryJob, Claim, Transition, QUEUED,
                    CANCELLED, RETRYING, PLANNING, COMPLETED
<1>6. CASE \E j \in Jobs : Recover(j) \/ Resume(j) \/ ClockExpires(j)
  BY <1>3, <1>6 DEF Recover, Resume, ClockExpires, storeVars
<1>7. CASE Serve \/ Poll \/ ClaimNothing \/ Crash \/ Boot \/ UNCHANGED vars
  BY <1>3, <1>7 DEF Serve, Poll, ClaimNothing, Crash, Boot, vars, storeVars
<1>8. CASE \E a \in ApprovalIds, d \in {"approved", "rejected"} : DecideApproval(a, d)
  BY <1>3, <1>8 DEF DecideApproval, rowVars
<1>9. QED
  BY <1>4, <1>5, <1>6, <1>7, <1>8 DEF Next, Owner, Worker

(* runner.py finalize_node: in every behaviour the step that completes a job  *)
(* finds its end recorded and a task on it with a plan, all of whose steps    *)
(* the ledger shows complete.                                                 *)
THEOREM EarnsCompletion == Spec => CompletionIsEarned
<1>1. TypeInv /\ LedgerLeadsCheckpoint /\ Planful /\ [Next]_vars => EarnedStep
  BY SystemEarned
<1>2. EarnedStep => \A j \in Jobs : state[j] # COMPLETED /\ state'[j] = COMPLETED =>
          /\ closed[j]
          /\ \E t \in Tasks : /\ Drives(t, j) /\ task[t].mem.len > 0
                              /\ 1 .. task[t].mem.len \subseteq completed[j]
  BY DEF EarnedStep, EarnedFor
<1>3. QED
  BY <1>1, <1>2, PlanInit, PlanStep, LedInit, LedStep, LifeInit, LifeStep, GateInit,
     GateStep, InitType, TypeStep, PTL DEF Spec, CompletionIsEarned

-----------------------------------------------------------------------------
(* The contract.  Each step of the system moves one row, records one step,   *)
(* rules on, asks for or performs one approval, or shows nothing.            *)

\* The ledger of a job is a beginning of its plan.
InOrder == \A j \in Jobs : \E n \in 0 .. MaxSteps : completed[j] = 1 .. n

\* The contract speaks of the same lifecycle.
LEMMA SameLifecycle == \A a, b : Contract!Legal(a, b) <=> Legal(a, b)
  BY DEF Legal, LEGAL_TRANSITIONS, States, DRAFT, QUEUED, PLANNING, WAITING_APPROVAL,
         RUNNING, PAUSED, BLOCKED, RETRYING, FAILED, CANCELLED, COMPLETED,
         Contract!Legal, Contract!LEGAL_TRANSITIONS, Contract!States, Contract!DRAFT,
         Contract!QUEUED, Contract!PLANNING, Contract!WAITING_APPROVAL,
         Contract!RUNNING, Contract!PAUSED, Contract!BLOCKED, Contract!RETRYING,
         Contract!FAILED, Contract!CANCELLED, Contract!COMPLETED

\* What the contract sees of the approvals.
Decided == [a \in ApprovalIds |-> approval[a].decision]
Ran     == {a \in ApprovalIds : runs[a] > 0}

Agrees == [Contract!ContractNext]_(Contract!contractVars)

LEMMA Unseen ==
    ASSUME UNCHANGED <<state, completed, runs>>,
           \A a \in ApprovalIds : approval'[a].decision = approval[a].decision
    PROVE  Agrees
<1>1. Decided' = Decided
  BY DEF Decided
<1>2. Ran' = Ran
  BY DEF Ran
<1>3. QED
  BY <1>1, <1>2 DEF Agrees, Contract!contractVars, Decided, Ran

LEMMA SeenMove ==
    ASSUME NEW j \in Jobs, NEW target, Legal(state[j], target),
           state' = [state EXCEPT ![j] = target],
           UNCHANGED <<completed, approval, runs>>,
           target = COMPLETED => \E n \in 1 .. MaxSteps : completed[j] = 1 .. n
    PROVE  Agrees
<1>1. target \in Contract!States
  BY LegalMoves DEF States, Contract!States, DRAFT, QUEUED, PLANNING, WAITING_APPROVAL,
                    RUNNING, PAUSED, BLOCKED, RETRYING, FAILED, CANCELLED, COMPLETED,
                    Contract!DRAFT, Contract!QUEUED, Contract!PLANNING,
                    Contract!WAITING_APPROVAL, Contract!RUNNING, Contract!PAUSED,
                    Contract!BLOCKED, Contract!RETRYING, Contract!FAILED,
                    Contract!CANCELLED, Contract!COMPLETED
<1>2. Decided' = Decided /\ Ran' = Ran
  BY DEF Decided, Ran
<1>3. Contract!COMPLETED = COMPLETED
  BY DEF COMPLETED, Contract!COMPLETED
<1>4. Contract!Move(j, target)
  BY <1>2, <1>3, SameLifecycle DEF Contract!Move, Decided, Ran
<1>5. QED
  BY <1>1, <1>4 DEF Agrees, Contract!ContractNext

LEMMA SeenAsk ==
    ASSUME StoreTypeOK, Inserted, NEW j, NEW cmd, CreateApproval(j, cmd),
           UNCHANGED <<state, completed, runs>>
    PROVE  Agrees
<1>1. PICK r \in ApprovalIds : r = requested + 1
  BY StoreAssumption DEF CreateApproval, StoreTypeOK, ApprovalIds
<1>2. approval[r].decision = "absent"
  BY <1>1 DEF Inserted, StoreTypeOK
<1>3. Decided' = [Decided EXCEPT ![r] = "undecided"]
  BY <1>1 DEF CreateApproval, StoreTypeOK, Decided
<1>4. Ran' = Ran
  BY DEF Ran
<1>5. Contract!Ask(r)
  BY <1>1, <1>2, <1>3, <1>4 DEF Contract!Ask, Decided, Ran
<1>6. QED
  BY <1>5 DEF Agrees, Contract!ContractNext

LEMMA SeenRule ==
    ASSUME StoreTypeOK, NEW a \in ApprovalIds, NEW d \in {"approved", "rejected"},
           RecordDecision(a, d), UNCHANGED <<state, completed, runs>>
    PROVE  Agrees
<1>1. Decided' = [Decided EXCEPT ![a] = d]
  BY DEF RecordDecision, StoreTypeOK, Approval, Decided
<1>2. Ran' = Ran
  BY DEF Ran
<1>3. Contract!Rule(a, d)
  BY <1>1, <1>2 DEF RecordDecision, Contract!Rule, Decided, Ran
<1>4. QED
  BY <1>3 DEF Agrees, Contract!ContractNext

LEMMA SeenPerform ==
    ASSUME StoreTypeOK, NEW a \in ApprovalIds, approval[a].decision = "approved",
           Execute(a), UNCHANGED <<state, completed, approval>>
    PROVE  Agrees
<1>1. Decided' = Decided
  BY DEF Decided
<1>2. Ran' = Ran \cup {a}
  <2>1. \A b \in ApprovalIds \ {a} : runs'[b] = runs[b]
    BY DEF Execute, StoreTypeOK
  <2>2. runs'[a] > 0
    BY StoreAssumption DEF Execute, StoreTypeOK
  <2>3. QED
    BY <2>1, <2>2 DEF Ran
<1>3. Contract!Perform(a)
  BY <1>1, <1>2 DEF Contract!Perform, Decided, Ran
<1>4. QED
  BY <1>3 DEF Agrees, Contract!ContractNext

LEMMA SeenStep ==
    ASSUME StoreTypeOK, TaskOK, LedgerLeadsCheckpoint, InOrder, NEW t \in Tasks,
           Complete(t)
    PROVE  Agrees /\ InOrder'
<1>1. task[t] \in Task /\ Job(t) = task[t].job /\ Job(t) \in Jobs
  BY DEF TaskOK, Task, Job
<1> DEFINE i == task[t].mem.idx
<1>2. i + 1 \in 1 .. MaxSteps /\ i \in Nat
  BY <1>1, StoreAssumption
     DEF Complete, At, TaskOK, Routed, RoutedState, ExecutePCs, Task, Checkpoint
<1>3. /\ completed' = [completed EXCEPT ![Job(t)] = @ \cup {i + 1}]
      /\ UNCHANGED <<state, approval, runs>>
  BY DEF Complete, rowVars, gateVars
<1>4. 1 .. i \subseteq completed[Job(t)]
  BY DEF LedgerLeadsCheckpoint
<1>5. Agrees
  <2>1. Decided' = Decided /\ Ran' = Ran
    BY <1>3 DEF Decided, Ran
  <2>2. 1 .. (i + 1) - 1 = 1 .. i
    BY <1>2
  <2>3. Contract!FinishStep(Job(t), i + 1)
    BY <1>3, <1>4, <2>1, <2>2 DEF Contract!FinishStep, Decided, Ran
  <2>4. QED
    BY <1>1, <1>2, <2>3 DEF Agrees, Contract!ContractNext
<1>6. \E n \in 0 .. MaxSteps : completed'[Job(t)] = 1 .. n
  <2>1. PICK n \in 0 .. MaxSteps : completed[Job(t)] = 1 .. n
    BY <1>1 DEF InOrder
  <2>2. n \in Nat /\ MaxSteps \in Nat
    BY <2>1, StoreAssumption
  <2>3. i <= n
    <3>1. CASE i = 0
      BY <2>2, <3>1
    <3>2. CASE i > 0
      <4>1. i \in 1 .. n
        BY <1>2, <1>4, <2>1, <3>2
      <4>2. QED
        BY <4>1, <2>2
    <3>3. QED
      BY <1>2, <3>1, <3>2
  <2>4. completed'[Job(t)] = (1 .. n) \cup {i + 1}
    BY <1>1, <1>3, <2>1 DEF StoreTypeOK
  <2>5. CASE i + 1 <= n
    <3>1. (1 .. n) \cup {i + 1} = 1 .. n
      BY <1>2, <2>2, <2>5
    <3>2. QED
      BY <2>1, <2>4, <3>1
  <2>6. CASE i = n
    <3>1. (1 .. n) \cup {i + 1} = 1 .. (n + 1)
      BY <2>2, <2>6
    <3>2. n + 1 \in 0 .. MaxSteps
      BY <1>2, <2>2, <2>6
    <3>3. QED
      BY <2>4, <3>1, <3>2
  <2>7. QED
    BY <1>2, <2>2, <2>3, <2>5, <2>6
<1>7. \A j \in Jobs \ {Job(t)} : completed'[j] = completed[j]
  BY <1>1, <1>3 DEF StoreTypeOK
<1>8. QED
  BY <1>5, <1>6, <1>7 DEF InOrder

LEMMA OrderStep ==
    TypeInv /\ GateInv /\ LedgerLeadsCheckpoint /\ InOrder /\ [Next]_vars => InOrder'
<1> SUFFICES ASSUME TypeInv, GateInv, LedgerLeadsCheckpoint, InOrder, [Next]_vars
             PROVE  InOrder'
  OBVIOUS
<1>1. StoreTypeOK /\ TaskOK
  BY TypeInvParts
<1>2. ASSUME UNCHANGED completed PROVE InOrder'
  BY <1>2 DEF InOrder
<1>3. ASSUME NEW t \in Tasks, TaskStep(t) PROVE InOrder'
  BY <1>1, <1>2, <1>3, LedgerMoves, SeenStep DEF ledgerVars, Finalize
<1>4. CASE \E j \in Jobs : \/ Create(j) \/ CancelJob(j) \/ RetryJob(j) \/ ClockExpires(j)
                           \/ Recover(j) \/ Claim(j) \/ Resume(j)
  BY <1>2, <1>4 DEF Create, CancelJob, RetryJob, ClockExpires, Recover, Claim, Resume,
                    storeVars, ledgerVars
<1>5. CASE Serve \/ Poll \/ ClaimNothing \/ Crash \/ Boot \/ UNCHANGED vars
  BY <1>2, <1>5 DEF Serve, Poll, ClaimNothing, Crash, Boot, vars, storeVars
<1>6. CASE \E a \in ApprovalIds, d \in {"approved", "rejected"} : DecideApproval(a, d)
  BY <1>2, <1>6 DEF DecideApproval, ledgerVars
<1>7. QED
  BY <1>3, <1>4, <1>5, <1>6 DEF Next, Owner, Worker

\* A step of the graph.
LEMMA RunnerAgrees ==
    ASSUME TypeInv, GateInv, LedgerLeadsCheckpoint, Planful, RuleInv, InOrder,
           NEW t \in Tasks, RunnerStep(t), UNCHANGED <<call, procVars>>
    PROVE  Agrees
<1>1. StoreTypeOK /\ TaskOK /\ Job(t) \in Jobs
  BY TypeInvParts DEF TaskOK, Task, Job
<1>2. TaskStep(t)
  BY DEF TaskStep
<1>3. ASSUME UNCHANGED <<completed, approval, runs>> PROVE Agrees
  <2>1. CASE UNCHANGED state
    BY <1>3, <2>1, Unseen
  <2>2. CASE Moved(t, RunnerTargets)
    BY <1>1, <1>3, <2>2, SeenMove DEF Moved, RunnerTargets, RUNNING, BLOCKED,
                                      WAITING_APPROVAL, FAILED, COMPLETED
  <2>3. CASE Close(t) /\ Moved(t, {COMPLETED})
    <3>1. PICK n \in 0 .. MaxSteps : completed[Job(t)] = 1 .. n
      BY <1>1 DEF InOrder
    <3>2. 1 \in completed[Job(t)]
      BY <2>3, ClosingEarned, StoreAssumption
    <3>3. n \in 1 .. MaxSteps
      BY <3>1, <3>2, StoreAssumption
    <3>4. QED
      BY <1>1, <1>3, <2>3, <3>1, <3>3, SeenMove DEF Moved
  <2>4. QED
    BY <1>2, <2>1, <2>2, <2>3, RowMoves
<1>4. CASE Complete(t)
  BY <1>1, <1>4, SeenStep
<1>5. CASE SettleRejected(t) \/ SettleConsume(t)
  <2>1. UNCHANGED <<state, completed, runs>> /\ \E a : Consume(a)
    BY <1>5 DEF SettleRejected, SettleConsume, rowVars, ledgerVars
  <2>2. QED
    BY <1>1, <2>1, ConsumeFrame, Unseen
<1>6. CASE SettleExecute(t)
  <2>1. /\ task[t].todo # {} /\ approval[Min(task[t].todo)].decision = "approved"
        /\ UNCHANGED <<state, completed, approval>>
        /\ Execute(Min(task[t].todo)) \/ UNCHANGED runs
    BY <1>6 DEF SettleExecute, rowVars, ledgerVars, gateVars
  <2>2. Min(task[t].todo) \in ApprovalIds
    BY <1>1, <2>1, FirstToDo
  <2>3. QED
    BY <1>1, <1>3, <2>1, <2>2, SeenPerform
<1>7. CASE \/ Look(t) \/ Wake(t) \/ Load(t) \/ PlanRead(t) \/ Think(t) \/ Planned(t)
           \/ Check(t) \/ Block(t) \/ SettleRead(t) \/ SettleDone(t) \/ Hold(t)
           \/ Park(t) \/ Fail(t) \/ Finalize(t) \/ Close(t)
  BY <1>3, <1>7 DEF Look, Wake, Load, PlanRead, Think, Planned, Check, Block, SettleRead,
                    SettleDone, Hold, Park, Fail, Finalize, Close, storeVars, ledgerVars,
                    gateVars
<1>8. QED
  BY <1>4, <1>5, <1>6, <1>7 DEF RunnerStep

\* Every step of a task.
LEMMA TaskAgrees ==
    ASSUME TypeInv, GateInv, LedgerLeadsCheckpoint, Planful, RuleInv, InOrder,
           NEW t \in Tasks, TaskStep(t)
    PROVE  Agrees
<1>1. StoreTypeOK /\ TaskOK /\ Job(t) \in Jobs
  BY TypeInvParts DEF TaskOK, Task, Job
<1>2. CASE RunnerStep(t) /\ UNCHANGED call
  BY <1>2, RunnerAgrees DEF TaskStep
<1>3. CASE Flush(t) \/ Report(t)
  BY <1>3, Unseen DEF Flush, Report, storeVars, rowVars, ledgerVars, gateVars
<1>4. CASE RunCrashed(t)
  <2>1. UNCHANGED <<completed, approval, runs>>
    BY <1>4 DEF RunCrashed, ledgerVars, gateVars
  <2>2. CASE Transition(Job(t), FAILED)
    BY <1>1, <2>1, <2>2, SeenMove DEF Transition, FAILED, COMPLETED
  <2>3. CASE Refused(Job(t), FAILED)
    BY <2>1, <2>3, Unseen DEF Refused, rowVars
  <2>4. QED
    BY <1>4, <2>2, <2>3 DEF RunCrashed
<1>5. CASE ExecutorStep(t)
  <2>1. UNCHANGED <<state, completed>>
    BY <1>5, ExecutorMoves DEF rowVars, ledgerVars
  <2>2. ASSUME NEW c \in Calls, CallCreate(t, c) PROVE Agrees
    BY <1>1, <2>1, <2>2, SeenAsk DEF CallCreate, GateInv
  <2>3. ASSUME NEW c \in Calls, CallReject(t, c) \/ CallConsume(t, c) PROVE Agrees
    <3>1. UNCHANGED runs /\ \E a : Consume(a)
      BY <2>3 DEF CallReject, CallConsume
    <3>2. QED
      BY <1>1, <2>1, <3>1, ConsumeFrame, Unseen
  <2>4. ASSUME NEW c \in Calls, CallExecute(t, c) PROVE Agrees
    <3>1. Backed(t, c) /\ Execute(call[t][c].ap) /\ UNCHANGED approval
      BY <2>4 DEF CallExecute, CallAt, GateInv, CallsBacked, gateVars
    <3>2. QED
      BY <1>1, <2>1, <3>1, SeenPerform DEF Backed
  <2>5. CASE \/ \E c \in Calls, cmd \in Commands : StartCall(t, c, cmd)
             \/ ExecutorReturns(t) \/ ExecutorRaises(t)
             \/ \E c \in Calls : LookUp(t, c) \/ AskPending(t, c)
    BY <2>5, Unseen DEF StartCall, ExecutorReturns, ExecutorRaises, LookUp, AskPending,
                        storeVars
  <2>6. QED
    BY <1>5, <2>2, <2>3, <2>4, <2>5 DEF ExecutorStep, ToolStep
<1>6. QED
  BY <1>2, <1>3, <1>4, <1>5 DEF TaskStep

LEMMA SystemAgrees ==
    ASSUME TypeInv, GateInv, LedgerLeadsCheckpoint, Planful, RuleInv, InOrder,
           [Next]_vars
    PROVE  Agrees
<1>1. StoreTypeOK
  BY TypeInvParts
<1>2. ASSUME NEW j \in Jobs, NEW target \in {CANCELLED, RETRYING}, Transition(j, target),
             UNCHANGED <<completed, approval, runs>>
      PROVE  Agrees
  BY <1>2, SeenMove DEF Transition, CANCELLED, RETRYING, COMPLETED
<1>3. CASE \E j \in Jobs : CancelJob(j) \/ RetryJob(j)
  BY <1>2, <1>3 DEF CancelJob, RetryJob, ledgerVars, gateVars
<1>4. ASSUME NEW j \in Jobs, Create(j) PROVE Agrees
  <2>1. state[j] = NoRow /\ state' = [state EXCEPT ![j] = QUEUED]
        /\ UNCHANGED <<completed, approval, runs>>
    BY <1>4 DEF Create, CreateRow, ledgerVars, gateVars
  <2>2. Decided' = Decided /\ Ran' = Ran
    BY <2>1 DEF Decided, Ran
  <2>3. Contract!Submit(j)
    BY <2>1, <2>2 DEF Contract!Submit, Contract!NoRow, Contract!QUEUED, NoRow, QUEUED,
                      Decided, Ran
  <2>4. QED
    BY <2>3 DEF Agrees, Contract!ContractNext
<1>5. ASSUME NEW j \in Jobs, Claim(j) PROVE Agrees
  <2>1. Legal(state[j], PLANNING)
    BY <1>5 DEF Claim, OldestQueued, Legal, LEGAL_TRANSITIONS, States, DRAFT, QUEUED,
                PLANNING, WAITING_APPROVAL, RUNNING, PAUSED, BLOCKED, RETRYING, FAILED,
                CANCELLED, COMPLETED
  <2>2. QED
    BY <1>5, <2>1, SeenMove DEF Claim, ledgerVars, gateVars, PLANNING, COMPLETED
<1>6. ASSUME NEW a \in ApprovalIds, NEW d \in {"approved", "rejected"},
             DecideApproval(a, d)
      PROVE  Agrees
  BY <1>1, <1>6, SeenRule DEF DecideApproval, rowVars, ledgerVars
<1>7. CASE \E j \in Jobs : Recover(j) \/ Resume(j) \/ ClockExpires(j)
  BY <1>7, Unseen DEF Recover, Resume, ClockExpires, storeVars, ledgerVars, gateVars
<1>8. CASE Serve \/ Poll \/ ClaimNothing \/ Crash \/ Boot \/ UNCHANGED vars
  BY <1>8, Unseen DEF Serve, Poll, ClaimNothing, Crash, Boot, vars, storeVars
<1>9. QED
  BY <1>3, <1>4, <1>5, <1>6, <1>7, <1>8, TaskAgrees DEF Next, Owner, Worker

(* The system implements its contract: whatever interleaves, crashes and is   *)
(* retried, its rows move along the lifecycle, its steps complete in order,    *)
(* its jobs complete with recorded work, and its commands run after their     *)
(* approval.                                                                  *)
THEOREM ImplementsContract == Spec => KeepsContract
<1>1. Init => Contract!ContractInit /\ InOrder
  <2> SUFFICES ASSUME Init PROVE Contract!ContractInit /\ InOrder
    OBVIOUS
  <2>1. Decided = [a \in ApprovalIds |-> "absent"] /\ Ran = {}
    BY DEF Init, StoreInit, NoApproval, Decided, Ran
  <2>2. Contract!ContractInit
    BY <2>1 DEF Init, StoreInit, Contract!ContractInit, Contract!NoRow, NoRow, Decided, Ran
  <2>3. 0 \in 0 .. MaxSteps /\ 1 .. 0 = {}
    BY StoreAssumption
  <2>4. InOrder
    BY <2>3 DEF Init, StoreInit, InOrder
  <2>5. QED
    BY <2>2, <2>4
<1>2. TypeInv /\ GateInv /\ LedgerLeadsCheckpoint /\ Planful /\ RuleInv /\ InOrder
        /\ [Next]_vars => [Contract!ContractNext]_(Contract!contractVars)
  BY SystemAgrees DEF Agrees
<1>3. QED
  BY <1>1, <1>2, OrderStep, RuleInit, RuleStep, PlanInit, PlanStep, LedInit, LedStep,
     LifeInit, LifeStep, GateInit, GateStep, InitType, TypeStep, PTL
     DEF Spec, KeepsContract, Contract!ContractSpec
-----------------------------------------------------------------------------
(* One job at a time.  While nobody calls resume(), the only task is the one *)
(* a claim or the boot scan spawned; it moves a row to running from planning *)
(* only, so no second job gets under way beside it.                          *)

Going  == {PLANNING, RUNNING, CANCELLED}
Parked == {RETRYING, WAITING_APPROVAL}      \* what a run has to wake first

\* A task that has its run before it or under way.
AtWork(t)   == task[t].pc \notin {"idle", "report"}
OneTask     == \A t, u \in Tasks : ~At(t, "idle") /\ ~At(u, "idle") => t = u
OneLive     == \A i, j \in Jobs : state[i] \in LIVE /\ state[j] \in LIVE => i = j
NoneResumed == \A j \in Jobs : kicks[j] = 0 /\ state[j] # RETRYING
Straight    == \A t \in Tasks :
                   /\ AtWork(t) => state[Job(t)] \in Going /\ ~At(t, "wake")
                   /\ At(t, "look") => task[t].view \notin Parked
Entrances   ==
    /\ claiming => proc = "up" /\ ~Busy
    /\ strands # {} => proc = "boot" /\ ~Busy
    /\ proc = "down" => ~Busy
    /\ \A j \in strands : state[j] \in LIVE

Alone  == OneTask /\ OneLive /\ NoneResumed /\ Straight /\ Entrances
OneInv == NotResumed => Alone

\* A step that leaves NotResumed true found it true.
LEMMA ResumedStays ==
    ASSUME TypeInv, GateInv, Next, NotResumed'
    PROVE  NotResumed
<1>1. StoreTypeOK /\ ProcOK
  BY TypeInvParts
<1>2. retries = 0
  <2>1. retries' = retries \/ retries' = retries + 1
    BY DEF Next, Owner, Worker, Create, CancelJob, RetryJob, DecideApproval, Kick, Recover,
           Claim, Resume, TaskStep, Serve, Poll, ClaimNothing, Crash, Boot, ClockExpires,
           procVars, spentVars
  <2>2. QED
    BY <1>1, <2>1 DEF ProcOK, NotResumed
<1>3. ASSUME NEW a \in ApprovalIds
      PROVE  approval[a].decision \in {"absent", "undecided"}
  <2>1. approval'[a].decision \in {"absent", "undecided"}
    BY DEF NotResumed
  <2>2. CASE UNCHANGED gateVars
    BY <2>1, <2>2 DEF gateVars
  <2>3. CASE \E b : Consume(b)
    BY <1>1, <2>1, <2>3, ConsumeFrame
  <2>4. CASE \E j, cmd : CreateApproval(j, cmd)
    <3>1. a = requested + 1 \/ approval'[a] = approval[a]
      BY <1>1, <2>4 DEF CreateApproval, StoreTypeOK
    <3>2. a = requested + 1 => approval[a].decision = "absent"
      BY <1>1 DEF GateInv, Inserted, StoreTypeOK
    <3>3. QED
      BY <2>1, <3>1, <3>2
  <2>5. CASE \E b \in ApprovalIds, d \in {"approved", "rejected"} : DecideApproval(b, d)
    BY <1>1, <2>1, <2>5 DEF DecideApproval, RecordDecision, StoreTypeOK, Approval
  <2>6. QED
    <3>1. CASE \E t \in Tasks : TaskStep(t)
      BY <2>2, <2>3, <2>4, <3>1, GateMoves
    <3>2. CASE /\ ~\E t \in Tasks : TaskStep(t)
               /\ ~\E b \in ApprovalIds, d \in {"approved", "rejected"} : DecideApproval(b, d)
      BY <2>2, <3>2 DEF Next, Owner, Worker, Create, CancelJob, RetryJob, Recover, Claim,
                        Resume, Serve, Poll, ClaimNothing, Crash, Boot, ClockExpires,
                        storeVars, gateVars
    <3>3. QED
      BY <2>5, <3>1, <3>2
<1>4. QED
  BY <1>2, <1>3 DEF NotResumed

\* A run that is not asked to wake its job goes straight to the graph, and ends
\* where its job leaves the states of a run.
LEMMA RunnerStraight ==
    ASSUME StoreTypeOK, TaskOK, NEW t \in Tasks, RunnerStep(t), ~At(t, "wake"),
           state[Job(t)] \in Going, At(t, "look") => task[t].view \notin Parked
    PROVE  /\ task'[t].pc \notin {"look", "wake"}
           /\ task'[t].pc = "report" \/ state'[Job(t)] \in Going
<1>1. Job(t) \in Jobs /\ task[t] \in Task
  BY DEF TaskOK, Task, Job
<1>2. ASSUME NEW p, Go(t, p) PROVE task'[t].pc = p
  BY <1>1, <1>2 DEF Go, TaskOK, Task
<1>3. ASSUME NEW p, Leave(t, p) PROVE task'[t].pc = p
  BY <1>1, <1>3 DEF Leave, TaskOK, IdleTask
<1>4. ASSUME NEW m, Superstep(t, m) PROVE task'[t].pc \in {"check", "finalize", "plan"}
  BY <1>1, <1>4 DEF Superstep, TaskOK, IdleTask, EntryPC
<1>5. ASSUME Transition(Job(t), RUNNING) PROVE state'[Job(t)] \in Going
  BY <1>1, <1>5 DEF Transition, StoreTypeOK, Going
<1>6. CASE Look(t)
  BY <1>1, <1>6 DEF Look, TaskOK, Task, Parked, storeVars
<1>7. CASE Load(t)
  <2>1. CASE Superstep(t, Fresh)
    BY <1>4, <1>7, <2>1 DEF Load, rowVars
  <2>2. CASE Halt(t)
    BY <1>3, <2>2 DEF Halt
  <2>3. CASE task' = [task EXCEPT ![t].mem = checkpoint[Job(t)],
                                  ![t].pc = EntryPC(checkpoint[Job(t)].next)]
    BY <1>1, <1>7, <2>3 DEF Load, rowVars, TaskOK, Task, EntryPC
  <2>4. QED
    BY <1>7, <2>1, <2>2, <2>3 DEF Load
<1>8. CASE PlanRead(t) \/ SettleRead(t) \/ SettleRejected(t) \/ SettleConsume(t)
  BY <1>1, <1>8 DEF PlanRead, SettleRead, SettleRejected, SettleConsume, At, TaskOK, Task,
                    storeVars, rowVars
<1>9. CASE Think(t)
  <2>1. UNCHANGED state
    BY <1>9 DEF Think, rowVars
  <2>2. CASE Raise(t)
    BY <1>3, <2>1, <2>2 DEF Raise
  <2>3. CASE \E n \in Steps : task' = [task EXCEPT ![t].pc = "planned", ![t].steps = n]
    BY <1>1, <2>1, <2>3 DEF TaskOK, Task
  <2>4. QED
    BY <1>9, <2>2, <2>3 DEF Think
<1>10. CASE Planned(t)
  <2> DEFINE planned == [next |-> NodeAfter(task[t].steps, 0), len |-> task[t].steps,
                         idx |-> 0]
  <2>1. CASE Superstep(t, planned)
    BY <1>4, <1>5, <1>10, <2>1 DEF Planned, rowVars, Refused
  <2>2. CASE Raise(t) /\ Refused(Job(t), RUNNING)
    BY <1>3, <2>2 DEF Raise, Refused, rowVars
  <2>3. QED
    BY <1>10, <2>1, <2>2 DEF Planned
<1>11. CASE Check(t)
  BY <1>2, <1>3, <1>11 DEF Check, Halt, rowVars
<1>12. ASSUME NEW target, Refused(Job(t), target), Raise(t) \/ Go(t, "failing")
       PROVE  task'[t].pc \in {"crashed", "failing"} /\ UNCHANGED state
  BY <1>2, <1>3, <1>12 DEF Raise, Refused, rowVars
<1>13. CASE Block(t) \/ Park(t) \/ Fail(t)
  <2>1. CASE Halt(t)
    BY <1>3, <2>1 DEF Halt
  <2>2. CASE \E target : Refused(Job(t), target) /\ (Raise(t) \/ Go(t, "failing"))
    BY <1>12, <2>2
  <2>3. QED
    BY <1>13, <2>1, <2>2 DEF Block, Park, Fail
<1>14. CASE SettleExecute(t) \/ SettleDone(t) \/ Hold(t) \/ Finalize(t)
  <2>1. /\ UNCHANGED state
        /\ \E p \in {"consume", "failing", "act", "park", "complete", "closing"} : Go(t, p)
    BY <1>14 DEF SettleExecute, SettleDone, Hold, Finalize, storeVars, rowVars
  <2>2. QED
    BY <1>2, <2>1
<1>15. CASE Complete(t)
  <2> DEFINE n == [task[t].mem EXCEPT !.idx = task[t].mem.idx + 1,
                                      !.next = NodeAfter(task[t].mem.len, task[t].mem.idx + 1)]
  <2>1. Superstep(t, n) /\ UNCHANGED state
    BY <1>15 DEF Complete, rowVars
  <2>2. QED
    BY <1>4, <2>1
<1>16. CASE Close(t)
  <2>1. CASE task' = [task EXCEPT ![t] = [IdleTask EXCEPT !.pc = "report", !.job = Job(t)]]
    BY <1>1, <2>1 DEF TaskOK, IdleTask
  <2>2. CASE Refused(Job(t), COMPLETED) /\ Raise(t)
    BY <1>12, <2>2
  <2>3. QED
    BY <1>16, <2>1, <2>2 DEF Close
<1>17. QED
  BY <1>6, <1>7, <1>8, <1>9, <1>10, <1>11, <1>13, <1>14, <1>15, <1>16 DEF RunnerStep, Wake

\* A task that has reported only has its end before it.
LEMMA ReportIsLast ==
    ASSUME TypeInv, GateInv, CleanOutside, NEW t \in Tasks, TaskStep(t), At(t, "report")
    PROVE  Report(t) /\ task'[t].pc = "idle" /\ UNCHANGED state
<1>1. ~RunnerStep(t)
  BY DEF RunnerStep, Look, Wake, Load, PlanRead, Think, Planned, Check, Block, SettleRead,
         SettleRejected, SettleExecute, SettleConsume, SettleDone, Hold, Park, Fail,
         Complete, Finalize, Close, At
<1>2. ~Flush(t) /\ ~RunCrashed(t)
  BY DEF Flush, RunCrashed, CleanOutside, Tidy, OutsidePCs, At
<1>3. ~ExecutorStep(t)
  BY ExecutorMoves DEF At
<1>4. Report(t)
  BY <1>1, <1>2, <1>3 DEF TaskStep
<1>5. QED
  BY <1>4, TypeInvParts DEF Report, TaskOK, IdleTask, storeVars

\* A task's step, while it is the only task.
LEMMA TaskAlone ==
    ASSUME TypeInv, GateInv, LifeInv, Alone, NEW t \in Tasks, TaskStep(t)
    PROVE  Alone'
<1>1. StoreTypeOK /\ TaskOK /\ ProcOK
  BY TypeInvParts
<1>2. /\ Job(t) = task[t].job /\ Job(t) \in Jobs
      /\ task[t].pc # "idle" /\ Busy
      /\ \A u \in Tasks \ {t} : task'[u] = task[u]
  BY <1>1, TaskMoves DEF TaskOK, Task, Job, LifeInv, Busy, At
<1>3. \A u \in Tasks \ {t} : task[u].pc = "idle" /\ task'[u].pc = "idle"
  BY <1>2 DEF Alone, OneTask, At
<1>4. UNCHANGED procVars /\ strands = {} /\ ~claiming /\ proc # "down"
  BY <1>2 DEF TaskStep, Alone, Entrances
<1>5. /\ task'[t].pc \notin {"look", "wake"}
      /\ \/ task'[t].pc \in {"idle", "report"}
         \/ task'[t].job = Job(t) /\ state'[Job(t)] \in Going
  <2>1. CASE At(t, "report")
    BY <2>1, ReportIsLast DEF LifeInv
  <2>2. CASE ~At(t, "report")
    <3>1. state[Job(t)] \in Going /\ ~At(t, "wake")
      BY <1>2, <2>2 DEF Alone, Straight, AtWork, At
    <3>2. CASE RunnerStep(t)
      <4>1. At(t, "look") => task[t].view \notin Parked
        BY DEF Alone, Straight
      <4>2. /\ task'[t].pc \notin {"look", "wake"}
            /\ task'[t].pc = "report" \/ state'[Job(t)] \in Going
        BY <1>1, <3>1, <3>2, <4>1, RunnerStraight
      <4>3. task'[t].pc = "idle" \/ task'[t].job = Job(t)
        BY TaskMoves DEF LifeInv, Works, Reported, Rests
      <4>4. QED
        BY <4>2, <4>3
    <3>3. CASE Flush(t)
      <4>1. task'[t].pc = task[t].pc /\ task'[t].job = task[t].job /\ UNCHANGED state
        BY <1>1, <3>3 DEF Flush, TaskOK, Task, rowVars
      <4>2. task[t].pc # "look"
        BY <3>3 DEF Flush, LifeInv, CleanOutside, Tidy, OutsidePCs
      <4>3. QED
        BY <1>2, <3>1, <4>1, <4>2 DEF At
    <3>4. CASE ExecutorStep(t)
      BY <1>2, <3>1, <3>4, ExecutorMoves DEF rowVars
    <3>5. CASE RunCrashed(t) \/ Report(t)
      BY <1>1, <3>5 DEF RunCrashed, Report, TaskOK, IdleTask
    <3>6. QED
      BY <3>2, <3>3, <3>4, <3>5 DEF TaskStep
  <2>3. QED
    BY <2>1, <2>2
<1>6. /\ \A j \in Jobs \ {Job(t)} : state'[j] = state[j]
      /\ state'[Job(t)] # RETRYING
      /\ state'[Job(t)] \in LIVE => state[Job(t)] \in LIVE
  <2>1. CASE UNCHANGED state
    BY <1>2, <2>1 DEF Alone, NoneResumed
  <2>2. CASE \E targets \in {RunnerTargets, {COMPLETED}} : Moved(t, targets)
    <3>1. PICK target \in RunnerTargets \cup {COMPLETED} :
            /\ Legal(state[Job(t)], target)
            /\ state' = [state EXCEPT ![Job(t)] = target]
      BY <2>2 DEF Moved
    <3>2. ~At(t, "report")
      <4>1. state'[Job(t)] # state[Job(t)]
        <5>1. state'[Job(t)] = target
          BY <1>1, <1>2, <3>1 DEF StoreTypeOK
        <5>2. \A s \in States : ~Legal(s, s)
          BY DEF Legal, LEGAL_TRANSITIONS, CANCELLED, DRAFT, QUEUED, PLANNING, RUNNING,
                 WAITING_APPROVAL, PAUSED, BLOCKED, RETRYING, FAILED, COMPLETED, States
        <5>3. QED
          BY <3>1, <5>1, <5>2, LegalMoves
      <4>2. QED
        BY <4>1, ReportIsLast DEF LifeInv
    <3>3. state[Job(t)] \in Going
      BY <1>2, <3>2 DEF Alone, Straight, AtWork, At
    <3>4. ~Legal(CANCELLED, target)
      BY DEF Legal, LEGAL_TRANSITIONS, CANCELLED, DRAFT, QUEUED, PLANNING, RUNNING,
             WAITING_APPROVAL, PAUSED, BLOCKED, RETRYING, FAILED, States
    <3>5. state[Job(t)] \in LIVE
      BY <3>1, <3>3, <3>4 DEF Going, LIVE
    <3>6. target # RETRYING
      BY DEF RunnerTargets, RUNNING, BLOCKED, WAITING_APPROVAL, FAILED, COMPLETED, RETRYING
    <3>7. QED
      BY <1>1, <1>2, <3>1, <3>5, <3>6 DEF StoreTypeOK
  <2>3. QED
    BY <2>1, <2>2, RowMoves
<1>7. OneTask'
  BY <1>3 DEF OneTask, At
<1>8. OneLive'
  BY <1>2, <1>6 DEF Alone, OneLive
<1>9. NoneResumed'
  BY <1>4, <1>6 DEF Alone, NoneResumed, procVars
<1>10. Straight'
  BY <1>3, <1>5 DEF Straight, AtWork, At, Job
<1>11. Entrances'
  BY <1>4 DEF Entrances, procVars
<1>12. QED
  BY <1>7, <1>8, <1>9, <1>10, <1>11 DEF Alone

\* A spawn where no task was there before.
LEMMA SpawnAlone ==
    ASSUME TaskOK, Alone, NEW j \in Jobs, NEW s, Spawn(j, s), ~Busy, s \notin Parked,
           state'[j] \in Going, strands' = {}, ~claiming', proc' # "down"
    PROVE  OneTask' /\ Straight' /\ Entrances'
<1>1. PICK t \in Tasks :
         task' = [task EXCEPT ![t] = [IdleTask EXCEPT !.pc = "look", !.job = j, !.view = s]]
  BY DEF Spawn
<1>2. /\ task'[t].pc = "look" /\ task'[t].job = j /\ task'[t].view = s
      /\ \A u \in Tasks \ {t} : task'[u].pc = "idle"
  BY <1>1 DEF TaskOK, IdleTask, Busy, At
<1>3. OneTask'
  BY <1>2 DEF OneTask, At
<1>4. Straight'
  BY <1>2 DEF Straight, AtWork, At, Job
<1>5. QED
  BY <1>3, <1>4 DEF Entrances

\* While nobody resumes a job, every step leaves one task and one job under way.
LEMMA SystemAlone ==
    ASSUME TypeInv, GateInv, LifeInv, Alone, Next, NotResumed'
    PROVE  Alone'
<1>1. StoreTypeOK /\ TaskOK /\ ProcOK
  BY TypeInvParts
<1>2. LIVE \ {RETRYING} \subseteq Going /\ Going \cap Parked = {} /\ CANCELLED \notin LIVE
  BY DEF LIVE, Going, Parked, PLANNING, RUNNING, RETRYING, CANCELLED, WAITING_APPROVAL
<1>3. ASSUME NEW j \in Jobs, Recover(j) PROVE Alone'
  <2>1. /\ proc = "boot" /\ j \in strands /\ strands' = strands \ {j} /\ Spawn(j, state[j])
        /\ UNCHANGED <<state, proc, claiming, kicks>>
    BY <1>3 DEF Recover, storeVars
  <2>2. /\ ~Busy /\ ~claiming /\ state[j] \in LIVE \ {RETRYING}
        /\ \A i \in strands : i = j
    BY <1>1, <2>1 DEF Alone, Entrances, NoneResumed, OneLive, ProcOK
  <2>3. OneTask' /\ Straight' /\ Entrances'
    BY <1>1, <1>2, <2>1, <2>2, SpawnAlone
  <2>4. QED
    BY <2>1, <2>3 DEF Alone, OneLive, NoneResumed
<1>4. ASSUME NEW j \in Jobs, Claim(j) PROVE Alone'
  <2>1. /\ proc = "up" /\ ~Busy /\ strands = {}
    BY <1>4 DEF Claim, Alone, Entrances
  <2>2. /\ Spawn(j, PLANNING) /\ state'[j] = PLANNING /\ claiming' = FALSE
        /\ \A i \in Jobs \ {j} : state'[i] = state[i]
        /\ UNCHANGED <<proc, strands, kicks>>
    BY <1>1, <1>4 DEF Claim, StoreTypeOK
  <2>3. \A i \in Jobs : state[i] \notin LIVE
    BY <2>1 DEF LifeInv, LiveIsDriven, Driven, Drives, Busy, At, Alone, NoneResumed, LIVE
  <2>4. PLANNING \in Going /\ PLANNING \notin Parked /\ PLANNING # RETRYING
    BY DEF Going, Parked, PLANNING, RETRYING, WAITING_APPROVAL
  <2>5. OneTask' /\ Straight' /\ Entrances'
    BY <1>1, <2>1, <2>2, <2>4, SpawnAlone
  <2>6. OneLive'
    BY <2>2, <2>3 DEF OneLive
  <2>7. NoneResumed'
    BY <2>2, <2>4 DEF Alone, NoneResumed
  <2>8. QED
    BY <2>5, <2>6, <2>7 DEF Alone
<1>5. ASSUME NEW j \in Jobs PROVE ~Resume(j) /\ ~RetryJob(j)
  <2>1. ~Resume(j)
    BY DEF Resume, Alone, NoneResumed
  <2>2. ~RetryJob(j)
    BY <1>1 DEF RetryJob, NotResumed, ProcOK
  <2>3. QED
    BY <2>1, <2>2
<1>6. ASSUME NEW a \in ApprovalIds, NEW d \in {"approved", "rejected"}
      PROVE  ~DecideApproval(a, d)
  BY <1>1 DEF DecideApproval, RecordDecision, NotResumed, StoreTypeOK, Approval
<1>7. CASE Crash
  <2>1. \A t \in Tasks : task'[t].pc = "idle"
    BY <1>7 DEF Crash, IdleTask
  <2>2. UNCHANGED state /\ strands' = {} /\ claiming' = FALSE /\ \A j \in Jobs : kicks'[j] = 0
    BY <1>7 DEF Crash, storeVars
  <2>3. QED
    BY <2>1, <2>2 DEF Alone, OneTask, OneLive, NoneResumed, Straight, Entrances, AtWork, At,
                      Busy
<1>8. CASE Boot
  <2>1. /\ proc = "down" /\ proc' = "boot" /\ strands' = {j \in Jobs : state[j] \in LIVE}
        /\ UNCHANGED <<state, task, claiming, kicks>>
    BY <1>8 DEF Boot, StrandedLive, storeVars
  <2>2. ~Busy /\ ~claiming
    BY <2>1 DEF Alone, Entrances
  <2>3. QED
    BY <2>1, <2>2 DEF Alone, OneTask, OneLive, NoneResumed, Straight, Entrances, AtWork, At,
                      Busy, Job
<1>9. CASE Serve \/ Poll \/ ClaimNothing \/ \E j \in Jobs : ClockExpires(j)
  <2>1. /\ UNCHANGED <<state, task, strands, kicks>>
        /\ \/ UNCHANGED <<proc, claiming>>
           \/ strands = {} /\ proc' = "up" /\ UNCHANGED claiming
           \/ proc' = "up" /\ ~Busy /\ UNCHANGED proc
           \/ claiming' = FALSE /\ UNCHANGED proc
    BY <1>9 DEF Serve, Poll, ClaimNothing, ClockExpires, storeVars, procVars
  <2>2. QED
    BY <2>1 DEF Alone, OneTask, OneLive, NoneResumed, Straight, Entrances, AtWork, At, Busy,
                Job
<1>10. ASSUME NEW j \in Jobs, Create(j) \/ CancelJob(j) PROVE Alone'
  <2>1. /\ \A i \in Jobs \ {j} : state'[i] = state[i]
        /\ UNCHANGED <<task, procVars>> /\ proc = "up"
    BY <1>1, <1>10 DEF Create, CreateRow, CancelJob, Transition, StoreTypeOK
  <2>2. \/ state'[j] = CANCELLED
        \/ state'[j] = QUEUED /\ state[j] = NoRow
    BY <1>1, <1>10 DEF Create, CreateRow, CancelJob, Transition, StoreTypeOK
  <2>3. state'[j] \notin LIVE /\ state'[j] # RETRYING
    BY <2>2 DEF LIVE, PLANNING, RUNNING, RETRYING, CANCELLED, QUEUED
  <2>4. state[j] \in Going => state'[j] \in Going
    BY <2>2 DEF Going, NoRow, PLANNING, RUNNING, CANCELLED
  <2>5. OneTask' /\ OneLive' /\ NoneResumed'
    BY <2>1, <2>3 DEF Alone, OneTask, OneLive, NoneResumed, At, procVars
  <2>6. Straight'
    BY <1>1, <2>1, <2>4 DEF Alone, Straight, AtWork, At, Job, TaskOK, Task
  <2>7. Entrances'
    BY <2>1 DEF Alone, Entrances, Busy, At, procVars
  <2>8. QED
    BY <2>5, <2>6, <2>7 DEF Alone
<1>11. QED
  BY <1>3, <1>4, <1>5, <1>6, <1>7, <1>8, <1>9, <1>10, TaskAlone DEF Next, Owner, Worker

LEMMA OneStep == TypeInv /\ GateInv /\ LifeInv /\ OneInv /\ [Next]_vars => OneInv'
<1> SUFFICES ASSUME TypeInv, GateInv, LifeInv, OneInv, [Next]_vars, NotResumed'
             PROVE  Alone'
  BY DEF OneInv
<1>1. CASE Next
  BY <1>1, ResumedStays, SystemAlone DEF OneInv
<1>2. CASE UNCHANGED vars
  BY <1>2 DEF vars, storeVars, procVars, spentVars, OneInv, NotResumed, Alone, OneTask,
              OneLive, NoneResumed, Straight, Entrances, AtWork, At, Busy, Job
<1>3. QED
  BY <1>1, <1>2

LEMMA OneInit == Init => OneInv
<1> SUFFICES ASSUME Init PROVE Alone
  BY DEF OneInv
<1>1. \A t \in Tasks : task[t].pc = "idle"
  BY DEF Init, IdleTask
<1>2. NoRow \notin LIVE /\ NoRow # RETRYING
  BY DEF NoRow, LIVE, PLANNING, RUNNING, RETRYING
<1>3. QED
  BY <1>1, <1>2 DEF Init, StoreInit, Alone, OneTask, OneLive, NoneResumed, Straight,
                    Entrances, AtWork, At, Busy

(* jobs/worker.py: through claims, cancels, crashes, boots and recoveries,  *)
(* until the first retry or decision calls resume(), there is at most one    *)
(* task and at most one job that is planning, running or retrying.           *)
THEOREM OneAtATime == Spec => []OneJobUnlessResumed
<1>1. OneInv => OneJobUnlessResumed
  BY DEF OneInv, Alone, OneTask, OneLive, OneJobUnlessResumed
<1>2. QED
  BY <1>1, OneInit, OneStep, LifeInit, LifeStep, GateInit, GateStep, InitType, TypeStep, PTL
     DEF Spec
-----------------------------------------------------------------------------
(* Durable progress.  A run that is about to load the graph has what is      *)
(* durable at hand, and as long as no other task drives its job nothing else *)
(* becomes durable before it goes on.                                        *)

Unplanned(m) == m.next \in {"none", "plan"} => m.len = 0
Resumes(t)  == task[t].pc \in {"wake", "load"} => task[t].mem = checkpoint[Job(t)]
Plans(t)    == task[t].pc \in PlanPCs => task[t].mem.len = 0 /\ checkpoint[Job(t)].len = 0
Executes(t) ==
    task[t].pc \in ExecutePCs \cup FinalizePCs =>
        /\ checkpoint[Job(t)].len \in {0, task[t].mem.len}
        /\ checkpoint[Job(t)].idx <= task[t].mem.idx
OnCourse(t) == Resumes(t) /\ Plans(t) /\ Executes(t)
DurableInv ==
    /\ \A j \in Jobs : Unplanned(checkpoint[j])
    /\ \A t \in Tasks : Unplanned(task[t].mem) /\ OnCourse(t)

\* The groups of program counters have nothing in common.
LEMMA PCsDiffer ==
    /\ PlanPCs \cap (ExecutePCs \cup FinalizePCs) = {}
    /\ \A p \in {"idle", "crashed", "report", "look", "wake", "load"} :
          p \notin PlanPCs \cup ExecutePCs \cup FinalizePCs
  BY DEF PlanPCs, ExecutePCs, FinalizePCs

\* What a step does to the task itself and to its own checkpoint.
LEMMA RunnerOnCourse ==
    ASSUME StoreTypeOK, TaskOK, DurableInv, NEW t \in Tasks, RunnerStep(t)
    PROVE  /\ Unplanned(checkpoint'[Job(t)]) /\ Unplanned(task'[t].mem)
           /\ OnCourse(t)'
<1>1. /\ task[t] \in Task /\ Job(t) = task[t].job /\ Job(t) \in Jobs
      /\ checkpoint[Job(t)] \in Checkpoint /\ task[t].mem \in Checkpoint
      /\ RoutedState(checkpoint[Job(t)]) /\ RoutedState(task[t].mem)
  BY DEF TaskOK, Task, Job, StoreTypeOK, Routed
<1>2. /\ Unplanned(checkpoint[Job(t)]) /\ Unplanned(task[t].mem)
      /\ Resumes(t) /\ Plans(t) /\ Executes(t)
  BY <1>1 DEF DurableInv, OnCourse
<1>3. ASSUME NEW p, Leave(t, p), p \in {"crashed", "report"}
      PROVE  Unplanned(checkpoint'[Job(t)]) /\ Unplanned(task'[t].mem) /\ OnCourse(t)'
  <2>1. task'[t].pc = p /\ task'[t].mem = NoCheckpoint
    BY <1>3 DEF Leave, TaskOK, IdleTask
  <2>2. Unplanned(checkpoint'[Job(t)])
    BY <1>1, <1>2, <1>3 DEF Leave, StoreTypeOK
  <2>3. QED
    BY <1>3, <2>1, <2>2, PCsDiffer
       DEF Unplanned, NoCheckpoint, OnCourse, Resumes, Plans, Executes
<1>4. ASSUME NEW p, Go(t, p), UNCHANGED checkpoint,
             \/ task[t].pc \in ExecutePCs \cup FinalizePCs
                /\ p \in ExecutePCs \cup FinalizePCs
             \/ task[t].pc = "wake" /\ p = "load"
      PROVE  Unplanned(checkpoint'[Job(t)]) /\ Unplanned(task'[t].mem) /\ OnCourse(t)'
  <2>1. task'[t].pc = p /\ task'[t].mem = task[t].mem /\ task'[t].job = task[t].job
    BY <1>1, <1>4 DEF Go, TaskOK, Task
  <2>2. p \notin PlanPCs /\ (p \in {"wake", "load"} => task[t].pc = "wake")
    BY <1>4, PCsDiffer
  <2>3. QED
    BY <1>1, <1>2, <1>4, <2>1, <2>2, PCsDiffer
       DEF OnCourse, Resumes, Plans, Executes, Job
<1>5. ASSUME NEW m, Superstep(t, m), UNCHANGED checkpoint,
             \/ m.next = "plan" /\ m.len = 0 /\ checkpoint[Job(t)].len = 0
             \/ /\ m.next \in {"execute", "finalize"}
                /\ checkpoint[Job(t)].len \in {0, m.len} /\ checkpoint[Job(t)].idx <= m.idx
      PROVE  Unplanned(checkpoint'[Job(t)]) /\ Unplanned(task'[t].mem) /\ OnCourse(t)'
  <2>1. /\ task'[t].pc = EntryPC(m.next) /\ task'[t].mem = m /\ task'[t].job = Job(t)
    BY <1>1, <1>5 DEF Superstep, TaskOK, IdleTask
  <2>2. CASE m.next = "plan"
    BY <1>1, <1>2, <1>5, <2>1, <2>2, PCsDiffer
       DEF EntryPC, Unplanned, OnCourse, Resumes, Plans, Executes, Job, PlanPCs
  <2>3. CASE m.next \in {"execute", "finalize"}
    <3>1. task'[t].pc \in {"check", "finalize"}
      BY <2>1, <2>3 DEF EntryPC
    <3>2. task'[t].pc \notin PlanPCs \cup {"wake", "load"}
      BY <3>1 DEF PlanPCs
    <3>3. m.next # "plan"
      BY <2>3
    <3>4. QED
      BY <1>1, <1>2, <1>5, <2>1, <2>3, <3>2, <3>3
         DEF Unplanned, OnCourse, Resumes, Plans, Executes, Job
  <2>4. QED
    BY <1>5, <2>2, <2>3
<1>6. CASE Look(t)
  <2>1. /\ task'[t].pc \in {"wake", "load"} /\ task'[t].mem = checkpoint[Job(t)]
        /\ task'[t].job = task[t].job /\ UNCHANGED checkpoint
    BY <1>1, <1>6 DEF Look, TaskOK, Task, storeVars
  <2>2. QED
    BY <1>1, <1>2, <2>1, PCsDiffer DEF OnCourse, Resumes, Plans, Executes, Job
<1>7. CASE Wake(t)
  BY <1>3, <1>4, <1>7 DEF Wake, Raise, At
<1>8. CASE Load(t)
  <2>1. task[t].mem = checkpoint[Job(t)] /\ task[t].pc = "load"
    BY <1>2, <1>8 DEF Load, At, Resumes
  <2>2. CASE task[t].mem = NoCheckpoint /\ Superstep(t, Fresh) /\ UNCHANGED checkpoint
    BY <1>5, <2>1, <2>2 DEF NoCheckpoint, Fresh
  <2>3. CASE Halt(t)
    BY <1>3, <2>3 DEF Halt
  <2>4. CASE /\ checkpoint[Job(t)].next # "end"
             /\ task' = [task EXCEPT ![t].mem = checkpoint[Job(t)],
                                     ![t].pc = EntryPC(checkpoint[Job(t)].next)]
             /\ UNCHANGED checkpoint
    <3>1. /\ task'[t].mem = checkpoint[Job(t)] /\ task'[t].job = task[t].job
          /\ task'[t].pc = EntryPC(checkpoint[Job(t)].next)
      BY <1>1, <2>4 DEF TaskOK, Task
    <3>2. CASE checkpoint[Job(t)].next \in {"none", "plan"}
      <4>1. task'[t].pc = "plan" /\ checkpoint[Job(t)].len = 0
        BY <1>2, <3>1, <3>2 DEF EntryPC, Unplanned
      <4>2. QED
        BY <1>1, <1>2, <2>4, <3>1, <4>1, PCsDiffer
           DEF OnCourse, Resumes, Plans, Executes, Job, PlanPCs
    <3>3. CASE checkpoint[Job(t)].next \in {"execute", "finalize"}
      <4>1. task'[t].pc \in {"check", "finalize"}
        BY <3>1, <3>3 DEF EntryPC
      <4>2. task'[t].pc \notin PlanPCs \cup {"wake", "load"}
        BY <4>1 DEF PlanPCs
      <4>3. checkpoint[Job(t)].idx <= checkpoint[Job(t)].idx
        BY <1>1 DEF Checkpoint
      <4>4. QED
        BY <1>1, <1>2, <2>4, <3>1, <4>2, <4>3 DEF OnCourse, Resumes, Plans, Executes, Job
    <3>4. QED
      BY <1>1, <2>4, <3>2, <3>3 DEF Checkpoint, Nodes
  <2>5. QED
    BY <1>8, <2>2, <2>3, <2>4 DEF Load
<1>9. CASE PlanRead(t) \/ Think(t)
  <2>1. task[t].pc \in PlanPCs
    BY <1>9 DEF PlanRead, Think, At, PlanPCs
  <2>2. CASE /\ UNCHANGED checkpoint
             /\ \/ task' = [task EXCEPT ![t].pc = "think", ![t].view = state[Job(t)]]
                \/ \E n \in Steps : task' = [task EXCEPT ![t].pc = "planned",
                                                         ![t].steps = n]
    <3>1. /\ task'[t].pc \in {"think", "planned"} /\ task'[t].mem = task[t].mem
          /\ task'[t].job = task[t].job
      BY <1>1, <2>2 DEF TaskOK, Task
    <3>2. task'[t].pc \in PlanPCs /\ task'[t].pc \notin {"wake", "load"}
      BY <3>1 DEF PlanPCs
    <3>3. QED
      BY <1>1, <1>2, <2>1, <2>2, <3>1, <3>2, PCsDiffer
         DEF OnCourse, Resumes, Plans, Executes, Job
  <2>3. CASE Raise(t)
    BY <1>3, <2>3 DEF Raise
  <2>4. QED
    BY <1>9, <2>2, <2>3 DEF PlanRead, Think, storeVars
<1>10. CASE Planned(t)
  <2> DEFINE planned == [next |-> NodeAfter(task[t].steps, 0), len |-> task[t].steps,
                         idx |-> 0]
  <2>1. task[t].pc \in PlanPCs
    BY <1>10 DEF Planned, At, PlanPCs
  <2>2. checkpoint[Job(t)].len = 0 /\ checkpoint[Job(t)].idx = 0
    BY <1>1, <1>2, <2>1 DEF Plans, RoutedState, Checkpoint
  <2>3. planned.next \in {"execute", "finalize"}
    BY DEF NodeAfter
  <2>4. CASE Superstep(t, planned) /\ UNCHANGED checkpoint
    <3> HIDE DEF planned
    <3>1. planned.len = task[t].steps /\ planned.idx = 0
      BY DEF planned
    <3>2. QED
      BY <1>5, <2>2, <2>3, <2>4, <3>1
  <2>5. CASE Raise(t)
    BY <1>3, <2>5 DEF Raise
  <2>6. QED
    BY <1>10, <2>4, <2>5 DEF Planned
<1>11. CASE Check(t)
  <2>1. task[t].pc \in ExecutePCs /\ {"block", "settle"} \subseteq ExecutePCs
    BY <1>11 DEF Check, At, ExecutePCs
  <2>2. QED
    BY <1>3, <1>4, <1>11, <2>1 DEF Check, Halt
<1>12. CASE Block(t) \/ Park(t) \/ Fail(t)
  <2>1. task[t].pc \in ExecutePCs /\ "failing" \in ExecutePCs
    BY <1>12 DEF Block, Park, Fail, At, ExecutePCs
  <2>2. QED
    BY <1>3, <1>4, <1>12, <2>1 DEF Block, Park, Fail, Halt, Raise
<1>13. CASE SettleRead(t) \/ SettleRejected(t) \/ SettleConsume(t)
  <2>1. /\ task[t].pc \in ExecutePCs /\ task'[t].pc \in ExecutePCs /\ UNCHANGED checkpoint
        /\ task'[t].mem = task[t].mem /\ task'[t].job = task[t].job
    BY <1>1, <1>13 DEF SettleRead, SettleRejected, SettleConsume, At, ExecutePCs, TaskOK,
                       Task, storeVars
  <2>2. QED
    BY <1>1, <1>2, <2>1, PCsDiffer DEF OnCourse, Resumes, Plans, Executes, Job
<1>14. CASE SettleExecute(t) \/ SettleDone(t) \/ Hold(t) \/ Finalize(t)
  <2>1. /\ task[t].pc \in {"settling", "hold", "finalize"} /\ UNCHANGED checkpoint
        /\ \E p \in {"consume", "failing", "act", "park", "complete", "closing"} : Go(t, p)
    BY <1>14 DEF SettleExecute, SettleDone, Hold, Finalize, At, storeVars
  <2>2. {"settling", "hold", "finalize", "consume", "failing", "act", "park", "complete",
         "closing"} \subseteq ExecutePCs \cup FinalizePCs
    BY DEF ExecutePCs, FinalizePCs
  <2>3. QED
    BY <1>4, <2>1, <2>2
<1>15. CASE Complete(t)
  <2> DEFINE m == task[t].mem
             n == [m EXCEPT !.idx = m.idx + 1, !.next = NodeAfter(m.len, m.idx + 1)]
  <2>1. task[t].pc \in ExecutePCs /\ Superstep(t, n) /\ UNCHANGED checkpoint
    BY <1>15 DEF Complete, At, ExecutePCs
  <2>2. n.next \in {"execute", "finalize"} /\ n.len = m.len /\ n.idx = m.idx + 1
    BY <1>1 DEF NodeAfter, Checkpoint
  <2>3. checkpoint[Job(t)].len \in {0, n.len} /\ checkpoint[Job(t)].idx <= n.idx
    BY <1>1, <1>2, <2>1, <2>2 DEF Executes, Checkpoint
  <2> HIDE DEF n
  <2>4. QED
    BY <1>5, <2>1, <2>2, <2>3
<1>16. CASE Close(t)
  <2>1. CASE /\ task' = [task EXCEPT ![t] =
                           [IdleTask EXCEPT !.pc = "report", !.job = Job(t)]]
             /\ checkpoint' = [checkpoint EXCEPT ![Job(t)] =
                                 [task[t].mem EXCEPT !.next = "end"]]
    <3>1. task'[t].pc = "report" /\ task'[t].mem = NoCheckpoint
      BY <1>1, <2>1 DEF TaskOK, IdleTask
    <3>2. checkpoint'[Job(t)].next = "end"
      BY <1>1, <2>1 DEF StoreTypeOK, Checkpoint
    <3>3. QED
      BY <3>1, <3>2, PCsDiffer
         DEF Unplanned, NoCheckpoint, OnCourse, Resumes, Plans, Executes
  <2>2. CASE Raise(t)
    BY <1>3, <2>2 DEF Raise
  <2>3. QED
    BY <1>16, <2>1, <2>2 DEF Close
<1>17. QED
  BY <1>6, <1>7, <1>8, <1>9, <1>10, <1>11, <1>12, <1>13, <1>14, <1>15, <1>16 DEF RunnerStep

\* Every step of a task, on its own job and on the tasks beside it.
LEMMA TaskDurable ==
    ASSUME TypeInv, GateInv, LifeInv, SoleDriver, DurableInv, NEW t \in Tasks, TaskStep(t)
    PROVE  DurableInv'
<1>1. StoreTypeOK /\ TaskOK
  BY TypeInvParts
<1>2. /\ task[t] \in Task /\ Job(t) = task[t].job /\ Job(t) \in Jobs
      /\ task[t].pc # "idle"
      /\ \A u \in Tasks \ {t} : task'[u] = task[u]
  BY <1>1, TaskMoves DEF TaskOK, Task, Job, LifeInv
<1>3. /\ Unplanned(checkpoint[Job(t)]) /\ Unplanned(task[t].mem)
      /\ Resumes(t) /\ Plans(t) /\ Executes(t)
  BY <1>2 DEF DurableInv, OnCourse
<1>4. /\ Unplanned(checkpoint'[Job(t)]) /\ Unplanned(task'[t].mem)
      /\ OnCourse(t)'
  <2>1. CASE RunnerStep(t)
    BY <1>1, <2>1, RunnerOnCourse
  <2>2. CASE Flush(t)
    <3>1. /\ checkpoint'[Job(t)] = task[t].mem /\ task'[t].mem = task[t].mem
          /\ task'[t].pc = task[t].pc /\ task'[t].job = task[t].job
      BY <1>1, <1>2, <2>2 DEF Flush, StoreTypeOK, TaskOK, Task
    <3>2. task[t].pc \notin {"wake", "load"}
      BY <2>2 DEF Flush, LifeInv, CleanOutside, Tidy, OutsidePCs
    <3>3. task[t].mem.idx <= task[t].mem.idx
      BY <1>2 DEF Task, Checkpoint
    <3>4. QED
      BY <1>2, <1>3, <3>1, <3>2, <3>3 DEF OnCourse, Resumes, Plans, Executes, Job
  <2>3. CASE ExecutorStep(t)
    <3>1. /\ {task[t].pc, task'[t].pc} \subseteq ExecutePCs
          /\ task'[t].mem = task[t].mem /\ task'[t].job = task[t].job
          /\ UNCHANGED checkpoint
      BY <2>3, ExecutorMoves DEF ExecutePCs
    <3>2. QED
      BY <1>2, <1>3, <3>1, PCsDiffer DEF OnCourse, Resumes, Plans, Executes, Job
  <2>4. CASE RunCrashed(t) \/ Report(t)
    <3>1. task'[t].pc = "idle" /\ task'[t].mem = NoCheckpoint /\ UNCHANGED checkpoint
      BY <1>1, <2>4 DEF RunCrashed, Report, TaskOK, IdleTask, storeVars
    <3>2. QED
      BY <1>3, <3>1, PCsDiffer
         DEF Unplanned, NoCheckpoint, OnCourse, Resumes, Plans, Executes
  <2>5. QED
    BY <2>1, <2>2, <2>3, <2>4 DEF TaskStep
<1>5. \A j \in Jobs \ {Job(t)} : checkpoint'[j] = checkpoint[j]
  BY <1>2, CheckpointMoves
<1>6. ASSUME NEW u \in Tasks \ {t} PROVE Unplanned(task'[u].mem) /\ OnCourse(u)'
  <2>1. /\ task'[u] = task[u] /\ Unplanned(task[u].mem) /\ OnCourse(u)
        /\ Job(u) \in Jobs /\ Job(u) = task[u].job
    BY <1>1, <1>2 DEF DurableInv, TaskOK, Task, Job
  <2>2. CASE task[u].pc = "idle"
    BY <2>1, <2>2, PCsDiffer DEF OnCourse, Resumes, Plans, Executes
  <2>3. CASE task[u].pc # "idle"
    <3>1. Job(u) # Job(t)
      BY <1>2, <2>1, <2>3 DEF SoleDriver, Drives
    <3>2. checkpoint'[Job(u)] = checkpoint[Job(u)] /\ Job(u)' = Job(u)
      BY <1>5, <2>1, <3>1 DEF Job
    <3>3. QED
      BY <2>1, <3>2 DEF OnCourse, Resumes, Plans, Executes
  <2>4. QED
    BY <2>2, <2>3
<1>7. QED
  BY <1>2, <1>4, <1>5, <1>6 DEF DurableInv

LEMMA DurableStep ==
    TypeInv /\ GateInv /\ LifeInv /\ SoleDriver /\ DurableInv /\ [Next]_vars => DurableInv'
<1> SUFFICES ASSUME TypeInv, GateInv, LifeInv, SoleDriver, DurableInv, [Next]_vars
             PROVE  DurableInv'
  OBVIOUS
<1>1. StoreTypeOK /\ TaskOK
  BY TypeInvParts
<1>2. ASSUME NEW j \in Jobs, NEW s, Spawn(j, s), UNCHANGED checkpoint PROVE DurableInv'
  <2>1. PICK t \in Tasks :
           task' = [task EXCEPT ![t] =
                      [IdleTask EXCEPT !.pc = "look", !.job = j, !.view = s]]
    BY <1>2 DEF Spawn
  <2>2. /\ task'[t].pc = "look" /\ task'[t].mem = NoCheckpoint
        /\ \A u \in Tasks \ {t} : task'[u] = task[u]
    BY <1>1, <2>1 DEF TaskOK, IdleTask
  <2>3. Unplanned(task'[t].mem) /\ OnCourse(t)'
    BY <2>2, PCsDiffer DEF Unplanned, NoCheckpoint, OnCourse, Resumes, Plans, Executes
  <2>4. \A u \in Tasks \ {t} : Unplanned(task'[u].mem) /\ OnCourse(u)'
    BY <1>2, <2>2 DEF DurableInv, OnCourse, Resumes, Plans, Executes, Job
  <2>5. QED
    BY <1>2, <2>3, <2>4 DEF DurableInv
<1>3. CASE \E j \in Jobs : Recover(j) \/ Claim(j)
  BY <1>2, <1>3 DEF Recover, Claim, storeVars
<1>4. CASE Crash
  <2>1. \A t \in Tasks : task'[t].pc = "idle" /\ task'[t].mem = NoCheckpoint
    BY <1>4 DEF Crash, IdleTask
  <2>2. UNCHANGED checkpoint
    BY <1>4 DEF Crash, storeVars
  <2>3. QED
    BY <2>1, <2>2, PCsDiffer
       DEF DurableInv, Unplanned, NoCheckpoint, OnCourse, Resumes, Plans, Executes
<1>5. CASE UNCHANGED <<task, checkpoint>>
  BY <1>5 DEF DurableInv, OnCourse, Resumes, Plans, Executes, Job
<1>6. ASSUME NEW j \in Jobs, Resume(j) PROVE DurableInv'
  BY <1>2, <1>5, <1>6 DEF Resume, storeVars
<1>7. CASE \/ Serve \/ Poll \/ ClaimNothing \/ Boot \/ UNCHANGED vars
           \/ \E j \in Jobs : ClockExpires(j) \/ Create(j) \/ CancelJob(j) \/ RetryJob(j)
           \/ \E a \in ApprovalIds, d \in {"approved", "rejected"} : DecideApproval(a, d)
  BY <1>5, <1>7 DEF Serve, Poll, ClaimNothing, Boot, vars, storeVars, ClockExpires, Create,
                    CancelJob, RetryJob, DecideApproval
<1>8. QED
  BY <1>3, <1>4, <1>6, <1>7, TaskDurable DEF Next, Owner, Worker

LEMMA DurableInit == Init => DurableInv
  BY PCsDiffer DEF Init, StoreInit, IdleTask, NoCheckpoint, DurableInv, Unplanned, OnCourse,
                   Resumes, Plans, Executes, Job

(* jobs/runner.py, README: once a plan or a step is durable, no run plans   *)
(* again or starts a step before it, whatever crashes, boots, retries and    *)
(* decisions come between, as long as no job is driven by two tasks at once. *)
THEOREM DurableNeverRepeats == Spec /\ []SoleDriver => []DurableStepsStand
<1>1. DurableInv => DurableStepsStand
  BY DEF DurableInv, OnCourse, Plans, Executes, DurableStepsStand
<1>2. QED
  BY <1>1, DurableInit, DurableStep, LifeInit, LifeStep, GateInit, GateStep, InitType,
     TypeStep, PTL DEF Spec

\* Until somebody resumes a job the only task is the sole driver of its job.
LEMMA DurableUnlessResumed ==
    /\ Init => (NotResumed => DurableInv)
    /\ /\ TypeInv /\ GateInv /\ LifeInv /\ OneInv /\ (NotResumed => DurableInv)
       /\ [Next]_vars
       => (NotResumed => DurableInv)'
<1>1. Init => DurableInv
  BY DurableInit
<1>2. ASSUME TypeInv, GateInv, LifeInv, OneInv, NotResumed => DurableInv, [Next]_vars,
             NotResumed'
      PROVE  DurableInv'
  <2>1. NotResumed
    BY <1>2, ResumedStays DEF NotResumed, vars, storeVars, procVars, spentVars
  <2>2. SoleDriver
    BY <1>2, <2>1 DEF OneInv, Alone, OneTask, SoleDriver, Drives, At
  <2>3. QED
    BY <1>2, <2>1, <2>2, DurableStep
<1>3. QED
  BY <1>1, <1>2

(* jobs/worker.py, ADR-009: until the first retry or decision, a restart    *)
(* repeats nothing that is durable, with as many tasks as there may be.      *)
THEOREM RestartNeverRepeats == Spec => [](NotResumed => DurableStepsStand)
<1>1. (NotResumed => DurableInv) => (NotResumed => DurableStepsStand)
  BY DEF DurableInv, OnCourse, Plans, Executes, DurableStepsStand
<1>2. QED
  BY <1>1, DurableUnlessResumed, OneInit, OneStep, LifeInit, LifeStep, GateInit, GateStep,
     InitType, TypeStep, PTL DEF Spec
-----------------------------------------------------------------------------
(* A run ends by itself.  Where a task stands bounds what is ahead of it:    *)
(* the execute node is only entered before the end of the plan (Routed).     *)

LEMMA AheadRange ==
    ASSUME NEW r \in Task, r.pc \in ExecutePCs => r.mem.idx < r.mem.len
    PROVE  /\ r.pc \in RunPCs => Ahead(r) = MaxSteps + 2
           /\ r.pc \in PlanPCs => Ahead(r) = MaxSteps + 1
           /\ r.pc \in ExecutePCs => Ahead(r) = r.mem.len - r.mem.idx /\ Ahead(r) \in 1 .. MaxSteps
           /\ r.pc \in FinalizePCs \cup {"idle", "crashed", "report"} => Ahead(r) = 0
<1>1. r.mem.len \in 0 .. MaxSteps /\ r.mem.idx \in 0 .. MaxSteps /\ MaxSteps \in Nat
  BY StoreAssumption DEF Task, Checkpoint
<1>2. /\ RunPCs \cap (PlanPCs \cup ExecutePCs \cup FinalizePCs \cup {"idle", "crashed", "report"}) = {}
      /\ PlanPCs \cap (ExecutePCs \cup FinalizePCs \cup {"idle", "crashed", "report"}) = {}
      /\ ExecutePCs \cap (FinalizePCs \cup {"idle", "crashed", "report"}) = {}
  BY DEF RunPCs, PlanPCs, ExecutePCs, FinalizePCs
<1>3. r.pc \in RunPCs => Ahead(r) = MaxSteps + 2
  BY <1>2 DEF Ahead
<1>4. r.pc \in PlanPCs => Ahead(r) = MaxSteps + 1
  BY <1>2 DEF Ahead
<1>5. r.pc \in ExecutePCs => Ahead(r) = r.mem.len - r.mem.idx
  BY <1>2 DEF Ahead
<1>6. r.pc \in FinalizePCs \cup {"idle", "crashed", "report"} => Ahead(r) = 0
  BY <1>2 DEF Ahead
<1>7. QED
  BY <1>1, <1>3, <1>4, <1>5, <1>6

\* What is left of a superstep, statement by statement.
LEMMA LeftValues ==
    /\ Left("look") = 3 /\ Left("wake") = 2 /\ Left("load") = 1
    /\ Left("plan") = 3 /\ Left("think") = 2 /\ Left("planned") = 1
    /\ Left("check") = 8 /\ Left("settle") = 7 /\ Left("settling") = 6
    /\ Left("consume") = 6 /\ Left("act") = 5 /\ Left("hold") = 4 /\ Left("park") = 3
    /\ Left("complete") = 2 /\ Left("failing") = 1 /\ Left("block") = 1
    /\ Left("finalize") = 4 /\ Left("closing") = 3
    /\ Left("crashed") = 2 /\ Left("report") = 1 /\ Left("idle") = 0
  BY DEF Left

\* The graph runs a node less, whichever statement comes next.
LEMMA FewerAhead ==
    ASSUME NEW r, NEW s, Ahead(r) \in Nat, Ahead(s) \in Nat, Ahead(s) < Ahead(r)
    PROVE  Sooner(r, s)
  BY DEF Sooner

\* A step of the graph that is not one of settle_decided_approvals's walk.
LEMMA RunnerSooner ==
    ASSUME StoreTypeOK, TaskOK, TaskOK', NEW t \in Tasks, RunnerStep(t)
    PROVE  \/ Sooner(task[t], task'[t])
           \/ SettleRejected(t) \/ SettleExecute(t) \/ SettleConsume(t)
<1> DEFINE r == task[t]
           s == task'[t]
<1>1. /\ r \in Task /\ s \in Task /\ Job(t) = r.job /\ Job(t) \in Jobs
      /\ checkpoint[Job(t)] \in Checkpoint /\ RoutedState(checkpoint[Job(t)])
      /\ MaxSteps \in Nat
  BY StoreAssumption DEF TaskOK, Task, Job, StoreTypeOK, Routed
<1>2. /\ r.pc \in ExecutePCs => r.mem.idx < r.mem.len
      /\ s.pc \in ExecutePCs => s.mem.idx < s.mem.len
  BY DEF TaskOK, Routed, RoutedState
<1>3. /\ r.pc \in RunPCs => Ahead(r) = MaxSteps + 2
      /\ r.pc \in PlanPCs => Ahead(r) = MaxSteps + 1
      /\ r.pc \in ExecutePCs => Ahead(r) = r.mem.len - r.mem.idx /\ Ahead(r) \in 1 .. MaxSteps
      /\ r.pc \in FinalizePCs \cup {"idle", "crashed", "report"} => Ahead(r) = 0
  BY <1>1, <1>2, AheadRange
<1>4. /\ s.pc \in RunPCs => Ahead(s) = MaxSteps + 2
      /\ s.pc \in PlanPCs => Ahead(s) = MaxSteps + 1
      /\ s.pc \in ExecutePCs => Ahead(s) = s.mem.len - s.mem.idx /\ Ahead(s) \in 1 .. MaxSteps
      /\ s.pc \in FinalizePCs \cup {"idle", "crashed", "report"} => Ahead(s) = 0
  BY <1>1, <1>2, AheadRange
<1>5. /\ {"look", "wake", "load"} = RunPCs /\ {"plan", "think", "planned"} = PlanPCs
      /\ {"check", "block", "settle", "settling", "act", "hold", "park", "failing",
          "complete"} \subseteq ExecutePCs
      /\ {"finalize", "closing"} = FinalizePCs
  BY DEF RunPCs, PlanPCs, ExecutePCs, FinalizePCs
<1> SUFFICES ASSUME ~SettleRejected(t), ~SettleExecute(t), ~SettleConsume(t)
             PROVE  Sooner(r, s)
  OBVIOUS
<1> HIDE DEF r, s
<1>6. ASSUME NEW p \in {"crashed", "report"}, Leave(t, p),
             r.pc \in RunPCs \cup PlanPCs \cup ExecutePCs \cup {"closing"}
      PROVE  Sooner(r, s)
  <2>1. s.pc = p
    BY <1>6 DEF s, Leave, TaskOK, IdleTask
  <2>2. CASE r.pc = "closing"
    BY <1>3, <1>4, <1>5, <2>1, <2>2, LeftValues DEF Sooner
  <2>3. CASE r.pc \in RunPCs \cup PlanPCs \cup ExecutePCs
    BY <1>1, <1>3, <1>4, <2>1, <2>3, FewerAhead
  <2>4. QED
    BY <1>6, <2>2, <2>3
<1>7. ASSUME NEW p, Go(t, p), Left(p) < Left(r.pc),
             \/ r.pc \in RunPCs /\ p \in RunPCs
             \/ r.pc \in ExecutePCs /\ p \in ExecutePCs
             \/ r.pc \in FinalizePCs /\ p \in FinalizePCs
      PROVE  Sooner(r, s)
  <2>1. s.pc = p /\ s.mem = r.mem
    BY <1>1, <1>7 DEF r, s, Go, TaskOK, Task
  <2>2. Ahead(s) = Ahead(r)
    BY <1>3, <1>4, <1>7, <2>1
  <2>3. QED
    BY <1>7, <2>1, <2>2 DEF Sooner
<1>8. ASSUME NEW m, Superstep(t, m),
             \/ m.next = "plan" /\ r.pc \in RunPCs
             \/ m.next \in {"execute", "finalize"} /\ r.pc \in PlanPCs
             \/ /\ m.next \in {"execute", "finalize"} /\ r.pc \in ExecutePCs
                /\ m.len = r.mem.len /\ m.idx = r.mem.idx + 1
      PROVE  Sooner(r, s)
  <2>1. s.pc = EntryPC(m.next) /\ s.mem = m
    BY <1>8 DEF s, Superstep, TaskOK, IdleTask
  <2>2. /\ m.next = "plan" => s.pc \in PlanPCs
        /\ m.next \in {"execute", "finalize"} => s.pc \in ExecutePCs \cup FinalizePCs
    BY <1>5, <2>1 DEF EntryPC
  <2>3. r.mem \in Checkpoint
    BY <1>1 DEF Task
  <2>4. QED
    BY <1>1, <1>3, <1>4, <1>8, <2>1, <2>2, <2>3, FewerAhead DEF Checkpoint
<1>9. CASE Look(t)
  <2>1. r.pc = "look" /\ s.pc \in {"wake", "load"}
    BY <1>1, <1>9 DEF r, s, Look, At, TaskOK, Task
  <2>2. QED
    BY <1>3, <1>4, <1>5, <2>1, LeftValues DEF Sooner
<1>10. CASE Wake(t)
  <2>1. r.pc = "wake"
    BY <1>10 DEF r, Wake, At
  <2>2. QED
    BY <1>5, <1>6, <1>7, <1>10, <2>1, LeftValues DEF Wake, Raise
<1>11. CASE Load(t)
  <2>1. r.pc \in RunPCs
    BY <1>5, <1>11 DEF r, Load, At
  <2>2. CASE Superstep(t, Fresh)
    BY <1>8, <2>1, <2>2 DEF Fresh
  <2>3. CASE Halt(t)
    BY <1>6, <2>1, <2>3 DEF Halt
  <2>4. CASE /\ checkpoint[Job(t)].next # "end"
             /\ task' = [task EXCEPT ![t].mem = checkpoint[Job(t)],
                                     ![t].pc = EntryPC(checkpoint[Job(t)].next)]
    <3>1. s.pc = EntryPC(checkpoint[Job(t)].next)
      BY <1>1, <2>4 DEF r, s, TaskOK, Task
    <3>2. s.pc \in PlanPCs \cup ExecutePCs \cup FinalizePCs
      BY <1>5, <3>1 DEF EntryPC
    <3>3. QED
      BY <1>1, <1>3, <1>4, <2>1, <3>2, FewerAhead
  <2>5. QED
    BY <1>11, <2>2, <2>3, <2>4 DEF Load
<1>12. CASE PlanRead(t) \/ Think(t)
  <2>1. CASE Raise(t)
    BY <1>5, <1>6, <1>12, <2>1 DEF r, PlanRead, Think, At, Raise
  <2>2. CASE ~Raise(t)
    <3>1. \/ r.pc = "plan" /\ s.pc = "think"
          \/ r.pc = "think" /\ s.pc = "planned"
      BY <1>1, <1>12, <2>2 DEF r, s, PlanRead, Think, At, TaskOK, Task
    <3>2. QED
      BY <1>3, <1>4, <1>5, <3>1, LeftValues DEF Sooner
  <2>3. QED
    BY <2>1, <2>2
<1>13. CASE Planned(t)
  <2> DEFINE planned == [next |-> NodeAfter(task[t].steps, 0), len |-> task[t].steps,
                         idx |-> 0]
  <2>1. r.pc \in PlanPCs
    BY <1>5, <1>13 DEF r, Planned, At
  <2>2. Superstep(t, planned) \/ Raise(t)
    BY <1>13 DEF Planned
  <2>3. planned.next \in {"execute", "finalize"}
    BY DEF NodeAfter
  <2> HIDE DEF planned
  <2>4. QED
    BY <1>6, <1>8, <2>1, <2>2, <2>3 DEF Raise
<1>14. CASE Check(t)
  <2>1. r.pc = "check"
    BY <1>14 DEF r, Check, At
  <2>2. Halt(t) \/ Go(t, "block") \/ Go(t, "settle")
    BY <1>14 DEF Check
  <2>3. QED
    BY <1>5, <1>6, <1>7, <2>1, <2>2, LeftValues DEF Halt
<1>15. CASE Block(t) \/ Park(t) \/ Fail(t)
  <2>1. r.pc \in {"block", "park", "failing"}
    BY <1>15 DEF r, Block, Park, Fail, At
  <2>2. Halt(t) \/ Raise(t) \/ (r.pc = "park" /\ Go(t, "failing"))
    BY <1>15 DEF r, Block, Park, Fail, At
  <2>3. QED
    BY <1>5, <1>6, <1>7, <2>1, <2>2, LeftValues DEF Halt, Raise
<1>16. CASE SettleRead(t)
  <2>1. r.pc = "settle" /\ s.pc = "settling" /\ s.mem = r.mem
    BY <1>1, <1>16 DEF r, s, SettleRead, At, TaskOK, Task
  <2>2. QED
    BY <1>3, <1>4, <1>5, <2>1, LeftValues DEF Sooner
<1>17. CASE SettleDone(t)
  <2>1. r.pc = "settling" /\ Go(t, "act")
    BY <1>17 DEF r, SettleDone, At
  <2>2. QED
    BY <1>5, <1>7, <2>1, LeftValues
<1>18. CASE Hold(t)
  <2>1. r.pc = "hold" /\ (Go(t, "park") \/ Go(t, "complete") \/ Go(t, "failing"))
    BY <1>18 DEF r, Hold, At
  <2>2. QED
    BY <1>5, <1>7, <2>1, LeftValues
<1>19. CASE Complete(t)
  <2> DEFINE m == task[t].mem
             n == [m EXCEPT !.idx = m.idx + 1, !.next = NodeAfter(m.len, m.idx + 1)]
  <2>1. r.pc \in ExecutePCs /\ Superstep(t, n) /\ m = r.mem
    BY <1>5, <1>19 DEF r, Complete, At
  <2>2. n.next \in {"execute", "finalize"} /\ n.len = m.len /\ n.idx = m.idx + 1
    BY <1>1 DEF r, NodeAfter, Task, Checkpoint
  <2> HIDE DEF m, n
  <2>3. QED
    BY <1>8, <2>1, <2>2
<1>20. CASE Finalize(t)
  <2>1. r.pc = "finalize" /\ Go(t, "closing")
    BY <1>20 DEF r, Finalize, At
  <2>2. QED
    BY <1>5, <1>7, <2>1, LeftValues
<1>21. CASE Close(t)
  <2>1. r.pc = "closing"
    BY <1>21 DEF r, Close, At
  <2>2. CASE task' = [task EXCEPT ![t] = [IdleTask EXCEPT !.pc = "report", !.job = Job(t)]]
    <3>1. s.pc = "report"
      BY <2>2 DEF s, TaskOK, IdleTask
    <3>2. QED
      BY <1>3, <1>4, <1>5, <2>1, <3>1, LeftValues DEF Sooner
  <2>3. CASE Raise(t)
    BY <1>6, <2>1, <2>3 DEF Raise
  <2>4. QED
    BY <1>21, <2>2, <2>3 DEF Close
<1>22. QED
  BY <1>9, <1>10, <1>11, <1>12, <1>13, <1>14, <1>15, <1>16, <1>17, <1>18, <1>19, <1>20,
     <1>21 DEF RunnerStep

\* A task that keeps to its superstep has as much of its graph ahead.
LEMMA SameAhead ==
    ASSUME NEW r, NEW s, s.pc = r.pc, s.mem = r.mem
    PROVE  Ahead(s) = Ahead(r) /\ Left(s.pc) = Left(r.pc)
  BY DEF Ahead

\* The walk over the decided approvals: each is left behind, or its command has
\* run and only its consumption is left.
LEMMA SettleNearer ==
    ASSUME StoreTypeOK, TaskOK, TaskOK', RuleInv, NEW t \in Tasks,
           SettleRejected(t) \/ SettleExecute(t) \/ SettleConsume(t)
    PROVE  Nearer(t)
<1>1. task[t] \in Task /\ task'[t] \in Task
  BY DEF TaskOK
<1>2. /\ task[t].pc \in ExecutePCs => task[t].mem.idx < task[t].mem.len
      /\ task'[t].pc \in ExecutePCs => task'[t].mem.idx < task'[t].mem.len
  BY DEF TaskOK, Routed, RoutedState
<1>3. {"settling", "consume", "failing"} \subseteq ExecutePCs
  BY DEF ExecutePCs
<1>4. /\ task[t].pc \in {"settling", "consume"}
      /\ task'[t].pc \in {"settling", "consume", "failing"}
      /\ task'[t].mem = task[t].mem
  BY <1>1 DEF SettleRejected, SettleExecute, SettleConsume, Go, At, TaskOK, Task
<1>5. Ahead(task'[t]) = Ahead(task[t])
  BY <1>1, <1>2, <1>3, <1>4, AheadRange
<1>6. CASE task'[t].pc = "failing"
  BY <1>4, <1>5, <1>6, LeftValues DEF Nearer, Sooner
<1>7. CASE task'[t].pc # "failing"
  <2>1. Left(task'[t].pc) = Left(task[t].pc)
    BY <1>4, <1>7, LeftValues
  <2>2. CASE SettleExecute(t)
    <3>1. task[t].pc = "settling" /\ task'[t].pc = "consume" /\ task'[t].todo = task[t].todo
      BY <1>1, <1>7, <2>2 DEF SettleExecute, Go, At, TaskOK, Task
    <3>2. QED
      BY <1>5, <2>1, <3>1 DEF Nearer, NearerInStep
  <2>3. CASE SettleRejected(t) \/ SettleConsume(t)
    <3>1. Min(task[t].todo) \in task[t].todo
      <4>1. task[t].todo # {}
        BY <2>3 DEF SettleRejected, SettleConsume, At, RuleInv, TodoRuled
      <4>2. task[t].todo \in SUBSET ApprovalIds /\ ApprovalIds \subseteq Nat
        BY <1>1, StoreAssumption DEF Task, ApprovalIds
      <4>3. QED
        BY <4>1, <4>2, MinInSet
    <3>2. task'[t].todo = task[t].todo \ {Min(task[t].todo)}
      BY <1>1, <2>3 DEF SettleRejected, SettleConsume, TaskOK, Task
    <3>3. task'[t].todo \subseteq task[t].todo /\ task'[t].todo # task[t].todo
      BY <3>1, <3>2
    <3>4. QED
      BY <1>5, <2>1, <3>3 DEF Nearer, NearerInStep
  <2>4. QED
    BY <2>2, <2>3
<1>8. QED
  BY <1>6, <1>7

LEMMA CallLeftValues ==
    /\ CallLeft("lookup") = 4 /\ CallLeft("ask") = 3 /\ CallLeft("reject") = 3
    /\ CallLeft("consume") = 3 /\ CallLeft("create") = 2 /\ CallLeft("execute") = 1
    /\ CallLeft("idle") = 0
  BY DEF CallLeft

\* A step of a tool call brings that call nearer to its answer.
LEMMA CallAnswers ==
    ASSUME CallOK, NEW t \in Tasks, NEW c \in Calls, ToolStep(t, c)
    PROVE  Answers(call[t], call'[t])
<1>1. call[t] \in [Calls -> Call] /\ call[t][c] \in Call
  BY DEF CallOK
<1>2. \A i \in Calls \ {c} : call'[t][i] = call[t][i]
  BY DEF CallOK, ToolStep, LookUp, AskPending, CallCreate, CallReject, CallConsume,
         CallExecute, CallGo, Return
<1>3. \/ call[t][c].pc = "lookup" /\ call'[t][c].pc \in {"ask", "reject", "consume"}
      \/ call[t][c].pc = "ask" /\ call'[t][c].pc \in {"idle", "create"}
      \/ call[t][c].pc \in {"create", "reject", "execute"} /\ call'[t][c].pc = "idle"
      \/ call[t][c].pc = "consume" /\ call'[t][c].pc = "execute"
  <2>1. CASE LookUp(t, c)
    <3> DEFINE found == DecidedUnconsumed(Job(t), call[t][c].cmd)
    <3>1. call[t][c].pc = "lookup"
      BY <2>1 DEF LookUp, CallAt
    <3>2. CASE CallGo(t, c, "ask")
      BY <1>1, <3>1, <3>2 DEF CallOK, Call, CallGo
    <3>3. CASE call' = [call EXCEPT ![t][c] =
                  [@ EXCEPT !.ap = Min(found),
                            !.pc = IF approval[Min(found)].decision = "rejected"
                                   THEN "reject" ELSE "consume"]]
      <4> HIDE DEF found
      <4>1. call'[t][c].pc \in {"reject", "consume"}
        BY <1>1, <3>3 DEF CallOK, Call
      <4>2. QED
        BY <3>1, <4>1
    <3>4. QED
      BY <2>1, <3>2, <3>3 DEF LookUp
  <2>2. CASE AskPending(t, c)
    BY <1>1, <2>2 DEF CallOK, Call, AskPending, CallAt, CallGo, Return, IdleCall
  <2>3. CASE CallCreate(t, c) \/ CallReject(t, c) \/ CallExecute(t, c)
    BY <1>1, <2>3 DEF CallOK, Call, CallCreate, CallReject, CallExecute, CallAt, Return,
                      IdleCall
  <2>4. CASE CallConsume(t, c)
    BY <1>1, <2>4 DEF CallOK, Call, CallConsume, CallAt, CallGo
  <2>5. QED
    BY <2>1, <2>2, <2>3, <2>4 DEF ToolStep
<1>4. CallLeft(call'[t][c].pc) < CallLeft(call[t][c].pc)
  BY <1>3, CallLeftValues
<1>5. QED
  BY <1>2, <1>4 DEF Answers

\* The executor's turn: a call more, an answer nearer, or the end of the turn.
LEMMA ExecutorNearer ==
    ASSUME TypeInv, TaskOK', GateInv, NEW t \in Tasks, ExecutorStep(t)
    PROVE  Nearer(t)
<1>1. TaskOK /\ TaskOK' /\ CallOK /\ task[t] \in Task /\ task'[t] \in Task
  BY TypeInvParts DEF TaskOK
<1>2. /\ task[t].pc = "act" /\ task'[t].pc \in {"act", "hold", "failing"}
      /\ task'[t].mem = task[t].mem /\ task'[t].todo = task[t].todo
  BY ExecutorMoves
<1>3. {"act", "hold", "failing"} \subseteq ExecutePCs
  BY DEF ExecutePCs
<1>4. Ahead(task'[t]) = Ahead(task[t])
  BY <1>1, <1>2, <1>3, AheadRange DEF TaskOK, Routed, RoutedState
<1>5. CASE task'[t].pc # "act"
  BY <1>2, <1>4, <1>5, LeftValues DEF Nearer, Sooner
<1>6. CASE task'[t].pc = "act"
  <2>1. CASE \E c \in Calls, cmd \in Commands : StartCall(t, c, cmd)
    <3>1. task[t].calls < MaxCalls /\ task'[t].calls = task[t].calls + 1
      BY <1>1, <2>1 DEF StartCall, TaskOK, Task
    <3>2. task[t].calls < task'[t].calls /\ task'[t].calls <= MaxCalls
      BY <1>1, <3>1, ToolsAssumption DEF Task
    <3>3. QED
      BY <1>2, <1>4, <1>6, <3>2 DEF Nearer, NearerInStep
  <2>2. CASE \E c \in Calls : ToolStep(t, c)
    <3>1. task' = task
      BY <2>2 DEF ToolStep, LookUp, AskPending, CallCreate, CallReject, CallConsume,
                  CallExecute
    <3>2. Answers(call[t], call'[t])
      BY <1>1, <2>2, CallAnswers
    <3>3. QED
      BY <1>2, <1>4, <3>1, <3>2 DEF Nearer, NearerInStep
  <2>3. CASE ExecutorReturns(t) \/ ExecutorRaises(t)
    BY <1>1, <1>6, <2>3 DEF ExecutorReturns, ExecutorRaises, TaskOK, Task
  <2>4. QED
    BY <2>1, <2>2, <2>3 DEF ExecutorStep
<1>7. QED
  BY <1>5, <1>6

\* Every step a task takes.
LEMMA TaskNearer ==
    ASSUME TypeInv, TaskOK', GateInv, LifeInv, RuleInv, NEW t \in Tasks, TaskStep(t)
    PROVE  Nearer(t)
<1>1. StoreTypeOK /\ TaskOK /\ TaskOK' /\ task[t] \in Task /\ task'[t] \in Task
  BY TypeInvParts DEF TaskOK
<1>2. CASE RunnerStep(t)
  BY <1>1, <1>2, RunnerSooner, SettleNearer DEF Nearer
<1>3. CASE Flush(t) /\ UNCHANGED call
  <2>1. task[t].dirty /\ task'[t] = [task[t] EXCEPT !.dirty = FALSE]
    BY <1>1, <1>3 DEF Flush, TaskOK
  <2>2. /\ task'[t].pc = task[t].pc /\ task'[t].mem = task[t].mem /\ ~task'[t].dirty
        /\ task'[t].todo = task[t].todo /\ task'[t].calls = task[t].calls
    BY <1>1, <2>1 DEF Task
  <2>3. QED
    BY <1>3, <2>1, <2>2, SameAhead DEF Nearer, NearerInStep
<1>4. CASE ExecutorStep(t)
  BY <1>4, ExecutorNearer
<1>5. CASE RunCrashed(t) \/ Report(t)
  <2>1. task[t].pc \in {"crashed", "report"} /\ task'[t].pc = "idle"
    BY <1>1, <1>5 DEF RunCrashed, Report, At, TaskOK, IdleTask
  <2>2. /\ task[t].pc \notin ExecutePCs /\ task'[t].pc \notin ExecutePCs
    BY <2>1 DEF ExecutePCs
  <2>3. Ahead(task'[t]) = 0 /\ Ahead(task[t]) = 0
    BY <1>1, <2>1, <2>2, AheadRange
  <2>4. QED
    BY <2>1, <2>3, LeftValues DEF Nearer, Sooner
<1>6. QED
  BY <1>2, <1>3, <1>4, <1>5 DEF TaskStep

\* What RunsEnd says of one step.
EndFor(t) ==
    ~At(t, "idle") => UNCHANGED <<task[t], call[t]>> \/ Nearer(t) \/ proc' = "down"

LEMMA EndStep ==
    ASSUME TypeInv, TaskOK', GateInv, LifeInv, RuleInv, [Next]_vars
    PROVE  \A t \in Tasks : EndFor(t)
<1> SUFFICES ASSUME NEW t \in Tasks, task[t].pc # "idle" PROVE EndFor(t)
  BY DEF EndFor, At
<1>1. TaskOK /\ CallOK /\ StoreTypeOK
  BY TypeInvParts
<1>2. ASSUME NEW j \in Jobs, NEW s, Spawn(j, s) PROVE task'[t] = task[t]
  <2>1. PICK u \in Tasks :
           /\ task[u].pc = "idle"
           /\ task' = [task EXCEPT ![u] =
                         [IdleTask EXCEPT !.pc = "look", !.job = j, !.view = s]]
    BY <1>2 DEF Spawn, At
  <2>2. QED
    BY <1>1, <2>1 DEF TaskOK
<1>3. CASE \E j \in Jobs : Recover(j) \/ Claim(j) \/ Resume(j)
  BY <1>2, <1>3 DEF Recover, Claim, Resume, EndFor
<1>4. ASSUME NEW u \in Tasks, TaskStep(u) PROVE EndFor(t)
  <2>1. CASE u = t
    BY <1>4, <2>1, TaskNearer DEF EndFor
  <2>2. CASE u # t
    <3>1. task'[t] = task[t]
      BY <1>4, <2>2, TaskMoves DEF LifeInv
    <3>2. call'[t] = call[t]
      <4>1. CASE ExecutorStep(u)
        <5>1. CASE \E c \in Calls, cmd \in Commands : StartCall(u, c, cmd)
          BY <1>1, <2>2, <5>1 DEF StartCall, CallOK
        <5>2. CASE ExecutorReturns(u) \/ ExecutorRaises(u)
          BY <1>1, <2>2, <5>2 DEF ExecutorReturns, ExecutorRaises, CallOK
        <5>3. ASSUME NEW c \in Calls, ToolStep(u, c) PROVE call'[t] = call[t]
          BY <1>1, <2>2, <5>3
             DEF ToolStep, LookUp, AskPending, CallCreate, CallReject, CallConsume,
                 CallExecute, CallGo, Return, CallOK
        <5>4. QED
          BY <4>1, <5>1, <5>2, <5>3 DEF ExecutorStep
      <4>2. QED
        BY <1>4, <4>1 DEF TaskStep, RunCrashed, Report
    <3>3. QED
      BY <3>1, <3>2 DEF EndFor
  <2>3. QED
    BY <2>1, <2>2
<1>5. CASE Crash
  BY <1>5 DEF Crash, EndFor
<1>6. CASE \/ Serve \/ Poll \/ ClaimNothing \/ Boot \/ UNCHANGED vars
           \/ \E j \in Jobs : ClockExpires(j) \/ Create(j) \/ CancelJob(j) \/ RetryJob(j)
           \/ \E a \in ApprovalIds, d \in {"approved", "rejected"} : DecideApproval(a, d)
  BY <1>6 DEF Serve, Poll, ClaimNothing, Boot, vars, ClockExpires, Create, CancelJob,
              RetryJob, DecideApproval, EndFor
<1>7. QED
  BY <1>3, <1>4, <1>5, <1>6 DEF Next, Owner, Worker

(* jobs/runner.py, jobs/worker.py: every step of a task brings its run       *)
(* nearer to its end, in an order that cannot go down forever; only the      *)
(* death of the process cuts a run short.                                    *)
THEOREM EveryRunEnds == Spec => RunsEnd
<1>1. TypeInv /\ TaskOK' /\ GateInv /\ LifeInv /\ RuleInv /\ [Next]_vars
      => [\A t \in Tasks : EndFor(t)]_vars
  BY EndStep
<1>2. TypeInv => TaskOK
  BY TypeInvParts
<1>3. QED
  BY <1>1, <1>2, RuleInit, RuleStep, LifeInit, LifeStep, GateInit, GateStep, InitType, TypeStep,
     PTL DEF Spec, RunsEnd, EndFor
=============================================================================
