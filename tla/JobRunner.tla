------------------------------ MODULE JobRunner ------------------------------
(***************************************************************************)
(* The job execution graph of jobs/runner.py as the asyncio tasks of the   *)
(* worker drive it: plan, execute step by step, finalize.  A task advances *)
(* one await at a time; between two of its steps every other task, tool    *)
(* call and HTTP request may run.  pc names the statement to run next.     *)
(*                                                                         *)
(* LangGraph is external: a superstep ends with a checkpoint that is       *)
(* written in the background (durability "async") and is surely written    *)
(* when the graph returns or raises.                                       *)
(***************************************************************************)
EXTENDS JobStore

CONSTANTS
    Tasks,          \* bound: asyncio tasks alive at a time
    StepBudget      \* the step_budget column of every job

ASSUME RunnerAssumption == StepBudget \in Nat

VARIABLES
    task    \* [Tasks -> the worker task and its local variables]

\* Where a task stands.  In the order of the code: run() up to ainvoke, the
\* plan node, the execute node with settle_decided_approvals and the executor
\* inside it, the finalize node, and what the worker does when run() raised or
\* returned.
RunPCs      == {"look", "wake", "load"}
PlanPCs     == {"plan", "think", "planned"}
ExecutePCs  == {"check", "block", "settle", "settling", "consume", "act", "hold",
                "park", "failing", "complete"}
FinalizePCs == {"finalize", "closing"}
PCs == {"idle", "crashed", "report"}
         \cup RunPCs \cup PlanPCs \cup ExecutePCs \cup FinalizePCs

Task == [pc    : PCs,
         job   : Jobs,
         view  : States \cup {NoRow},   \* state in the JobView at hand
         mem   : Checkpoint,            \* the graph's state in memory
         dirty : BOOLEAN,               \* mem is newer than what is durable
         steps : 0 .. MaxSteps,         \* length of the plan just answered
         todo  : SUBSET ApprovalIds,    \* rest of the approvals to settle
         calls : Nat]                   \* tool calls of this executor turn

IdleTask == [pc |-> "idle", job |-> 1, view |-> NoRow, mem |-> NoCheckpoint,
             dirty |-> FALSE, steps |-> 0, todo |-> {}, calls |-> 0]

At(t, p)  == task[t].pc = p
Job(t)    == task[t].job
Drives(t, j) == task[t].pc # "idle" /\ task[t].job = j

-----------------------------------------------------------------------------
(* How a step of a task ends. *)

Go(t, p) == task' = [task EXCEPT ![t].pc = p]

\* The graph leaves memory: what it still has to write is written, and the
\* task keeps nothing but its job.
Leave(t, p) ==
    /\ task' = [task EXCEPT ![t] = [IdleTask EXCEPT !.pc = p, !.job = Job(t)]]
    /\ checkpoint' = IF task[t].dirty
                     THEN [checkpoint EXCEPT ![Job(t)] = task[t].mem]
                     ELSE checkpoint

Raise(t) == Leave(t, "crashed")     \* an exception reaches JobWorker._run
Halt(t)  == Leave(t, "report")      \* JobHalt, or the graph ended

\* IllegalTransition is raised: nothing is written.
Refused(j, target) == ~Legal(state[j], target) /\ UNCHANGED rowVars

\* Mutants: the comparison is off by one, either way.
NodeAfterOneMore(len, idx)  == IF idx > len THEN "finalize" ELSE "execute"
NodeAfterOneLess(len, idx) == IF idx + 1 >= len THEN "finalize" ELSE "execute"

\* route: where the graph goes once idx of len steps are done.
NodeAfter(len, idx) == IF idx >= len THEN "finalize" ELSE "execute"

EntryPC(node) == CASE node = "execute"  -> "check"
                   [] node = "finalize" -> "finalize"
                   [] OTHER             -> "plan"

\* A superstep begins with graph state m, which is not durable yet.
Superstep(t, m) ==
    task' = [task EXCEPT ![t] =
        [IdleTask EXCEPT !.pc = EntryPC(m.next), !.job = Job(t), !.mem = m, !.dirty = TRUE]]

-----------------------------------------------------------------------------
(* JobRunner.run, up to the graph. *)

\* snapshot = aget_state(config)
Look(t) ==
    /\ At(t, "look")
    /\ task' = [task EXCEPT
          ![t].mem = checkpoint[Job(t)],
          ![t].pc = IF task[t].view \in {RETRYING, WAITING_APPROVAL} THEN "wake" ELSE "load",
          ![t].view = NoRow]
    /\ UNCHANGED storeVars

\* A parked or retried job is moved to running, outside the try: a refusal
\* crashes the run.
Wake(t) ==
    /\ At(t, "wake")
    /\ \/ Transition(Job(t), RUNNING) /\ Go(t, "load") /\ UNCHANGED checkpoint
       \/ Refused(Job(t), RUNNING) /\ Raise(t)
    /\ UNCHANGED <<ledgerVars, gateVars, runs>>

\* Mutant: ainvoke always gets a fresh input, which starts the graph over.
LoadAfresh(t) ==
    /\ At(t, "load")
    /\ Superstep(t, Fresh)
    /\ UNCHANGED storeVars

\* ainvoke: with no snapshot the graph starts over, otherwise it resumes the
\* latest checkpoint, which may be that of an ended graph.
Load(t) ==
    /\ At(t, "load")
    /\ \/ /\ task[t].mem = NoCheckpoint
          /\ Superstep(t, Fresh)
          /\ UNCHANGED checkpoint
       \/ /\ task[t].mem # NoCheckpoint
          /\ checkpoint[Job(t)].next # "end"
          /\ task' = [task EXCEPT ![t].mem = checkpoint[Job(t)],
                                  ![t].pc = EntryPC(checkpoint[Job(t)].next)]
          /\ UNCHANGED checkpoint
       \/ /\ task[t].mem # NoCheckpoint
          /\ checkpoint[Job(t)].next = "end"
          /\ Halt(t)
    /\ UNCHANGED <<rowVars, ledgerVars, gateVars, runs>>

-----------------------------------------------------------------------------
(* plan_node.  It only ever runs with an empty plan: the checkpoint before *)
(* it has none, so the branch for a plan already made is dead.             *)

PlanRead(t) ==
    /\ At(t, "plan")
    /\ task' = [task EXCEPT ![t].pc = "think", ![t].view = state[Job(t)]]
    /\ UNCHANGED storeVars

\* The planner answers with n steps and plan_created is recorded, or it raises
\* (parse_plan refuses, the provider fails).
Think(t) ==
    /\ At(t, "think")
    /\ \/ /\ \E n \in Steps :
               task' = [task EXCEPT ![t].pc = "planned", ![t].steps = n]
          /\ UNCHANGED checkpoint
       \/ Raise(t)
    /\ UNCHANGED <<rowVars, ledgerVars, gateVars, runs>>

\* The row moves to running if it was planning when the node began.
Planned(t) ==
    LET n == task[t].steps
        planned == [next |-> NodeAfter(n, 0), len |-> n, idx |-> 0]
    IN  /\ At(t, "planned")
        /\ \/ /\ task[t].view # PLANNING
              /\ Superstep(t, planned)
              /\ UNCHANGED <<rowVars, checkpoint>>
           \/ /\ task[t].view = PLANNING
              /\ Transition(Job(t), RUNNING)
              /\ Superstep(t, planned)
              /\ UNCHANGED checkpoint
           \/ /\ task[t].view = PLANNING
              /\ Refused(Job(t), RUNNING)
              /\ Raise(t)
        /\ UNCHANGED <<ledgerVars, gateVars, runs>>

-----------------------------------------------------------------------------
(* execute_node.  The step_started event is recorded with the check.       *)

\* The step boundary: cancellation, then the two budgets.
Check(t) ==
    /\ At(t, "check")
    /\ \/ state[Job(t)] = CANCELLED /\ Halt(t)
       \/ /\ state[Job(t)] # CANCELLED
          /\ task[t].mem.idx >= StepBudget \/ clock[Job(t)] = "expired"
          /\ Go(t, "block") /\ UNCHANGED checkpoint
       \/ /\ state[Job(t)] # CANCELLED
          /\ task[t].mem.idx < StepBudget /\ clock[Job(t)] # "expired"
          /\ Go(t, "settle") /\ UNCHANGED checkpoint
    /\ UNCHANGED <<rowVars, ledgerVars, gateVars, runs>>

\* budget_exhausted is recorded and the job blocked.
Block(t) ==
    /\ At(t, "block")
    /\ \/ Transition(Job(t), BLOCKED) /\ Halt(t)
       \/ Refused(Job(t), BLOCKED) /\ Raise(t)
    /\ UNCHANGED <<ledgerVars, gateVars, runs>>

\* settle_decided_approvals reads the approvals of the job once ...
SettleRead(t) ==
    /\ At(t, "settle")
    /\ task' = [task EXCEPT ![t].pc = "settling", ![t].todo = Settleable(Job(t))]
    /\ UNCHANGED storeVars

\* ... and walks them in order: a rejected one is consumed,
SettleRejected(t) ==
    /\ At(t, "settling")
    /\ task[t].todo # {}
    /\ LET a == Min(task[t].todo)
       IN  /\ approval[a].decision = "rejected"
           /\ Consume(a)
           /\ task' = [task EXCEPT ![t].todo = @ \ {a}]
    /\ UNCHANGED <<rowVars, ledgerVars, runs, checkpoint>>

\* an approved one is executed (approval_accepted, the command,
\* command_executed), which may raise before the command ran or after,
SettleExecute(t) ==
    /\ At(t, "settling")
    /\ task[t].todo # {}
    /\ approval[Min(task[t].todo)].decision = "approved"
    /\ \/ Execute(Min(task[t].todo)) /\ (Go(t, "consume") \/ Go(t, "failing"))
       \/ UNCHANGED runs /\ Go(t, "failing")
    /\ UNCHANGED <<rowVars, ledgerVars, gateVars, checkpoint>>

\* and consumed in a later transaction.
SettleConsume(t) ==
    /\ At(t, "consume")
    /\ LET a == Min(task[t].todo)
       IN  /\ Consume(a)
           /\ task' = [task EXCEPT ![t].pc = "settling", ![t].todo = @ \ {a}]
    /\ UNCHANGED <<rowVars, ledgerVars, runs, checkpoint>>

\* The note is complete: the executor starts on the step.
SettleDone(t) ==
    /\ At(t, "settling")
    /\ task[t].todo = {}
    /\ Go(t, "act")
    /\ UNCHANGED storeVars

\* Mutant: a step whose files are missing is run again.
HoldOrRepeat(t) ==
    /\ At(t, "hold")
    /\ \/ Undecided(Job(t)) # {} /\ Go(t, "park")
       \/ Undecided(Job(t)) = {} /\ (Go(t, "complete") \/ Go(t, "settle"))
    /\ UNCHANGED storeVars

\* The executor has returned: an undecided approval holds the step; otherwise
\* the files the step must create exist, or the step fails.
Hold(t) ==
    /\ At(t, "hold")
    /\ \/ Undecided(Job(t)) # {} /\ Go(t, "park")
       \/ Undecided(Job(t)) = {} /\ (Go(t, "complete") \/ Go(t, "failing"))
    /\ UNCHANGED storeVars

\* A refused move raises inside the try: the step fails.
Park(t) ==
    /\ At(t, "park")
    /\ \/ Transition(Job(t), WAITING_APPROVAL) /\ Halt(t)
       \/ /\ Refused(Job(t), WAITING_APPROVAL)
          /\ Go(t, "failing")
          /\ UNCHANGED checkpoint
    /\ UNCHANGED <<ledgerVars, gateVars, runs>>

\* step_failed is recorded and the job failed; a refused move escapes.
Fail(t) ==
    /\ At(t, "failing")
    /\ \/ Transition(Job(t), FAILED) /\ Halt(t)
       \/ Refused(Job(t), FAILED) /\ Raise(t)
    /\ UNCHANGED <<ledgerVars, gateVars, runs>>

\* Mutant: the event carries the index of the step instead of its number.
CompleteByIndex(t) ==
    LET m == task[t].mem
    IN  /\ At(t, "complete")
        /\ completed' = [completed EXCEPT ![Job(t)] = @ \cup ({m.idx} \ {0})]
        /\ Superstep(t, [m EXCEPT !.idx = m.idx + 1,
                                  !.next = NodeAfter(m.len, m.idx + 1)])
        /\ UNCHANGED <<rowVars, closed, gateVars, runs, checkpoint>>

\* step_completed is recorded and the superstep ends.
Complete(t) ==
    LET m == task[t].mem
    IN  /\ At(t, "complete")
        /\ completed' = [completed EXCEPT ![Job(t)] = @ \cup {m.idx + 1}]
        /\ Superstep(t, [m EXCEPT !.idx = m.idx + 1,
                                  !.next = NodeAfter(m.len, m.idx + 1)])
        /\ UNCHANGED <<rowVars, closed, gateVars, runs, checkpoint>>

-----------------------------------------------------------------------------
(* finalize_node: no cancellation check.                                   *)

Finalize(t) ==
    /\ At(t, "finalize")
    /\ closed' = [closed EXCEPT ![Job(t)] = TRUE]
    /\ Go(t, "closing")
    /\ UNCHANGED <<rowVars, completed, gateVars, runs, checkpoint>>

Close(t) ==
    /\ At(t, "closing")
    /\ \/ /\ Transition(Job(t), COMPLETED)
          /\ task' = [task EXCEPT ![t] = [IdleTask EXCEPT !.pc = "report", !.job = Job(t)]]
          /\ checkpoint' = [checkpoint EXCEPT ![Job(t)] = [task[t].mem EXCEPT !.next = "end"]]
       \/ Refused(Job(t), COMPLETED) /\ Raise(t)
    /\ UNCHANGED <<ledgerVars, gateVars, runs>>

-----------------------------------------------------------------------------
\* The checkpoint in flight becomes durable.
Flush(t) ==
    /\ task[t].dirty
    /\ checkpoint' = [checkpoint EXCEPT ![Job(t)] = task[t].mem]
    /\ task' = [task EXCEPT ![t].dirty = FALSE]
    /\ UNCHANGED <<rowVars, ledgerVars, gateVars, runs>>

\* Everything a task does by itself.
RunnerStep(t) ==
    \/ Look(t) \/ Wake(t) \/ Load(t)
    \/ PlanRead(t) \/ Think(t) \/ Planned(t)
    \/ Check(t) \/ Block(t)
    \/ SettleRead(t) \/ SettleRejected(t) \/ SettleExecute(t) \/ SettleConsume(t)
    \/ SettleDone(t)
    \/ Hold(t) \/ Park(t) \/ Fail(t) \/ Complete(t)
    \/ Finalize(t) \/ Close(t)
=============================================================================
