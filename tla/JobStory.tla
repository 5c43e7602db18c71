------------------------------ MODULE JobStory ------------------------------
(***************************************************************************)
(* What the owner reads about a job: the plan, its progress and outcome    *)
(* that the workbench draws from the ledger (workbench.tsx,                *)
(* job-timeline.tsx, eventLabel of jobs-api.ts), against the run that      *)
(* writes it (jobs/runner.py, jobs/worker.py), whose checkpoint is written *)
(* in the background and whose process may die.  One run drives the job at *)
(* a time, and all its rows were read.  Rows of commands, artifacts,       *)
(* approvals and moves are left out, and of a payload all but its number.  *)
(***************************************************************************)
EXTENDS JobStates, Integers, SequencesExt

CONSTANTS
    MaxPlan,      \* steps of a plan
    StoryBudget,  \* step_budget of the job
    MaxRows       \* rows of the ledger

ASSUME StoryAssumption == MaxPlan \in Nat \ {0} /\ StoryBudget \in Nat /\ MaxRows \in Nat

VARIABLES
    rows,      \* the ledger: [type, n], n the number in the payload or 0
    jobState,  \* the state column
    overdue,   \* the wall clock budget has run out
    at, view,  \* the run: where it stands, the row it was spawned or plans with
    memory,    \* its graph state
    durable    \* the checkpoint
storyVars == <<rows, jobState, overdue, at, view, memory, durable>>

NoPlan == [len |-> 0, idx |-> 0]
Graph == [len : 0..MaxPlan, idx : 0..MaxPlan]
Types == {"plan_created", "step_started", "step_completed", "step_failed",
          "budget_exhausted", "job_completed", "job_recovered", "worker_error"}

StoryTypeOK ==
    /\ rows \in Seq([type : Types, n : 0..MaxPlan]) /\ Len(rows) <= MaxRows
    /\ jobState \in States /\ view \in States \cup {NoRow} /\ overdue \in BOOLEAN
    /\ {memory, durable} \subseteq Graph
    /\ at \in {"idle", "dead", "begin", "plan", "planned", "check", "act", "failing",
               "blocking", "finalize", "closing", "crashed", "marking"}

(* A job the claim loop has just moved to planning. *)
StoryInit ==
    /\ rows = <<>> /\ jobState = PLANNING /\ overdue = FALSE
    /\ at = "begin" /\ view = PLANNING /\ memory = NoPlan /\ durable = NoPlan

(* Bound: MaxRows. *)
WriteRow(type, n) ==
    /\ Len(rows) < MaxRows
    /\ rows' = Append(rows, [type |-> type, n |-> n])

Node(g) == IF g.len = 0 THEN "plan" ELSE IF g.idx >= g.len THEN "finalize" ELSE "check"

(* A superstep begins with g.  A plan node reads the row as it begins. *)
Continue(g) ==
    /\ memory' = g /\ at' = Node(g)
    /\ view' = IF Node(g) = "plan" THEN jobState' ELSE NoRow

(* The graph returns or raises: its last checkpoint is written. *)
LeaveGraph(to) == at' = to /\ durable' = memory /\ memory' = NoPlan /\ view' = NoRow

(* store.transition: refused, it raises. *)
Owed == CASE at = "planned"  -> RUNNING
          [] at = "failing"  -> FAILED
          [] at = "blocking" -> BLOCKED
          [] at = "closing"  -> COMPLETED
OwedRefused == ~Legal(jobState, Owed) /\ LeaveGraph("crashed") /\ UNCHANGED jobState

(* run: a parked or retried job moves to running, outside the try. *)
Begin ==
    /\ at = "begin" /\ UNCHANGED <<rows, overdue, durable>>
    /\ \/ /\ view \in {RETRYING, WAITING_APPROVAL} => Legal(jobState, RUNNING)
          /\ jobState' = IF view \in {RETRYING, WAITING_APPROVAL} THEN RUNNING ELSE jobState
          /\ Continue(durable)
       \/ /\ view \in {RETRYING, WAITING_APPROVAL} /\ ~Legal(jobState, RUNNING)
          /\ at' = "crashed" /\ view' = NoRow /\ UNCHANGED <<jobState, memory>>

(* plan_node: the planner answers, or raises. *)
PlanMade ==
    /\ at = "plan" /\ UNCHANGED <<jobState, overdue>>
    /\ \/ (\E n \in 1..MaxPlan : WriteRow("plan_created", n)) /\ at' = "planned"
          /\ UNCHANGED <<view, memory, durable>>
       \/ LeaveGraph("crashed") /\ UNCHANGED rows

PlanEnds ==
    /\ at = "planned" /\ UNCHANGED <<rows, overdue>>
    /\ \/ /\ view = PLANNING => Legal(jobState, RUNNING)
          /\ jobState' = IF view = PLANNING THEN RUNNING ELSE jobState
          /\ Continue([len |-> Last(rows).n, idx |-> 0]) /\ UNCHANGED durable
       \/ view = PLANNING /\ OwedRefused

(* execute_node: cancellation and the budgets, then the step begins. *)
BoundaryStops ==
    /\ at = "check" /\ jobState = CANCELLED
    /\ LeaveGraph("idle") /\ UNCHANGED <<rows, jobState, overdue>>

OutOfBudget == memory.idx >= StoryBudget \/ overdue
StepBegins ==
    /\ at = "check" /\ jobState # CANCELLED
    /\ IF OutOfBudget THEN WriteRow("budget_exhausted", 0) /\ at' = "blocking"
                      ELSE WriteRow("step_started", memory.idx + 1) /\ at' = "act"
    /\ UNCHANGED <<jobState, overdue, view, memory, durable>>

StepCompletes ==
    /\ at = "act" /\ WriteRow("step_completed", memory.idx + 1)
    /\ UNCHANGED <<jobState, overdue, durable>>
    /\ Continue([memory EXCEPT !.idx = @ + 1])

StepFails ==
    /\ at = "act" /\ WriteRow("step_failed", memory.idx + 1) /\ at' = "failing"
    /\ UNCHANGED <<jobState, overdue, view, memory, durable>>

(* An undecided approval parks the job; refused, the step fails. *)
StepHolds ==
    /\ at = "act" /\ Legal(jobState, WAITING_APPROVAL) /\ jobState' = WAITING_APPROVAL
    /\ LeaveGraph("idle") /\ UNCHANGED <<rows, overdue>>

(* finalize_node, with no look at the row. *)
Finalize ==
    /\ at = "finalize" /\ WriteRow("job_completed", memory.idx) /\ at' = "closing"
    /\ UNCHANGED <<jobState, overdue, view, memory, durable>>

(* The move that a failed step, a budget or the end owes, and the halt. *)
Halts ==
    /\ at \in {"failing", "blocking", "closing"} /\ UNCHANGED <<rows, overdue>>
    /\ \/ Legal(jobState, Owed) /\ jobState' = Owed /\ LeaveGraph("idle")
       \/ OwedRefused

(* _run: the error is recorded, and the job failed if it may be. *)
CrashRecorded ==
    /\ at = "crashed" /\ WriteRow("worker_error", 0) /\ at' = "marking"
    /\ UNCHANGED <<jobState, overdue, view, memory, durable>>
CrashMarked ==
    /\ at = "marking" /\ at' = "idle"
    /\ jobState' = IF Legal(jobState, FAILED) THEN FAILED ELSE jobState
    /\ UNCHANGED <<rows, overdue, view, memory, durable>>

Checkpointed ==
    /\ at \notin {"idle", "dead", "begin", "crashed", "marking"} /\ durable # memory
    /\ durable' = memory
    /\ UNCHANGED <<rows, jobState, overdue, at, view, memory>>

RunStep == \/ Begin \/ PlanMade \/ PlanEnds \/ BoundaryStops \/ StepBegins
           \/ StepCompletes \/ StepFails \/ StepHolds \/ Finalize \/ Halts
           \/ CrashRecorded \/ CrashMarked \/ Checkpointed

ClockRunsOut ==
    /\ ~overdue /\ overdue' = TRUE
    /\ UNCHANGED <<rows, jobState, at, view, memory, durable>>

ProcessDies ==
    /\ at \notin {"idle", "dead"} /\ at' = "dead"
    /\ memory' = NoPlan /\ view' = NoRow
    /\ UNCHANGED <<rows, jobState, overdue, durable>>

(* _recover: a job left live is recorded and driven again. *)
ProcessBoots ==
    /\ at = "dead" /\ UNCHANGED <<jobState, overdue, durable>>
    /\ IF jobState \in LIVE
       THEN /\ WriteRow("job_recovered", 0) /\ at' = "begin" /\ view' = jobState
            /\ UNCHANGED memory
       ELSE at' = "idle" /\ UNCHANGED <<rows, view, memory>>

OwnerStops ==
    /\ at # "dead" /\ Legal(jobState, CANCELLED) /\ jobState' = CANCELLED
    /\ UNCHANGED <<rows, overdue, at, view, memory, durable>>

Respawn(state) ==
    /\ at = "idle" /\ at' = "begin" /\ view' = state
    /\ UNCHANGED <<rows, overdue, memory, durable>>
OwnerRetries == Legal(jobState, RETRYING) /\ jobState' = RETRYING /\ Respawn(RETRYING)
OwnerDecides == jobState = WAITING_APPROVAL /\ UNCHANGED jobState /\ Respawn(jobState)

StoryNext == \/ RunStep \/ ClockRunsOut \/ ProcessDies \/ ProcessBoots
             \/ OwnerStops \/ OwnerRetries \/ OwnerDecides

-----------------------------------------------------------------------------
(* The workbench. *)

Newest(type) == SelectLastInSeq(rows, LAMBDA r : r.type = type)


(* planFromEvents: the newest plan, with what the newest row of every step *)
(* number says, also a row of an earlier plan.                             *)
PlanLength == IF Newest("plan_created") = 0 THEN 0 ELSE rows[Newest("plan_created")].n

StepRows == [step_started |-> "running", step_completed |-> "done", step_failed |-> "failed"]
planFromEvents ==
    [k \in 1..PlanLength |->
        LET last == SelectLastInSeq(rows, LAMBDA r : r.type \in DOMAIN StepRows /\ r.n = k)
        IN  IF last = 0 THEN "pending" ELSE StepRows[rows[last].type]]

Handoff == Newest("job_completed") # 0
StepsCompleted == rows[Newest("job_completed")].n   \* the Outcome block

tone(type) == CASE type \in {"step_failed", "worker_error"} -> "destructive"
                [] type = "budget_exhausted" -> "amber"
                [] type = "job_completed" -> "primary"
                [] OTHER -> "muted"

Summarised == {"plan_created", "step_started", "step_completed", "step_failed", "worker_error"}
Numbered == {"plan_created", "step_started", "step_completed", "step_failed"}
eventLabel(r) == IF r.type \in Numbered THEN <<r.type, r.n>> ELSE <<r.type>>

JobTimeline ==
    [i \in DOMAIN rows |->
        [label |-> eventLabel(rows[i]), tone |-> tone(rows[i].type),
         summary |-> rows[i].type \in Summarised]]

-----------------------------------------------------------------------------
(* "Retry from where it stopped": the plan on screen is the one a retry    *)
(* goes on with, and shows as done every step it skips.                    *)
ResumesAsShown ==
    durable.len > 0 =>
        /\ PlanLength = durable.len
        /\ \A k \in 1..durable.idx : planFromEvents[k] = "done"

(* A completed job shows every step done and counts them all. *)
OutcomeIsWhole ==
    jobState = COMPLETED =>
        /\ Handoff /\ StepsCompleted = PlanLength
        /\ \A k \in 1..PlanLength : planFromEvents[k] = "done"

(* A failed job ends on a line that says so and names the error, and a job *)
(* that waits for the owner shows the step that waits as running.          *)
StopIsExplained ==
    /\ jobState = FAILED =>
        LET line == JobTimeline[Len(rows)] IN line.tone = "destructive" /\ line.summary
    /\ jobState = WAITING_APPROVAL /\ at = "idle" =>
        planFromEvents[durable.idx + 1] = "running"

=============================================================================
