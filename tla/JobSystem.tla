------------------------------ MODULE JobSystem ------------------------------
(***************************************************************************)
(* Saaya's job system: the owner's requests (api/job_routes.py) composed   *)
(* with the store, the runner, the tools and the worker, and what is       *)
(* claimed about the whole.                                                *)
(***************************************************************************)
EXTENDS JobWorker

CONSTANTS
    TimeRunsOut     \* whether the wall clock budget may elapse

ASSUME SystemAssumption == TimeRunsOut \in BOOLEAN

vars == <<storeVars, task, call, procVars>>

-----------------------------------------------------------------------------
(* Requests of the owner, served while the process is up. *)

\* POST /api/jobs (and the start_job tool of the chat agent).
Create(j) ==
    /\ proc = "up"
    /\ CreateRow(j)
    /\ UNCHANGED <<ledgerVars, gateVars, runs, checkpoint, task, call, procVars>>

Kick(j) ==
    /\ kicks[j] < MaxKicks
    /\ kicks' = [kicks EXCEPT ![j] = @ + 1]
    /\ UNCHANGED <<proc, strands, claiming, crashes>>

\* POST .../approvals/{id}: the decision, then resume() in a later step.
DecideApproval(a, decision) ==
    /\ proc = "up"
    /\ RecordDecision(a, decision)
    /\ Kick(approval[a].job)
    /\ UNCHANGED <<retries, rowVars, ledgerVars, runs, checkpoint, task, call>>

\* POST .../cancel
CancelJob(j) ==
    /\ proc = "up"
    /\ Transition(j, CANCELLED)
    /\ UNCHANGED <<ledgerVars, gateVars, runs, checkpoint, task, call, procVars>>

\* POST .../retry: the move to retrying, then resume() in a later step.  The
\* lifecycle allows it for a running job too.
RetryJob(j) ==
    /\ proc = "up"
    /\ retries < MaxRetries
    /\ retries' = retries + 1
    /\ Transition(j, RETRYING)
    /\ Kick(j)
    /\ UNCHANGED <<ledgerVars, gateVars, runs, checkpoint, task, call>>

\* wall_clock_budget_s elapses since started_at.
ClockExpires(j) ==
    /\ TimeRunsOut
    /\ clock[j] = "ticking"
    /\ clock' = [clock EXCEPT ![j] = "expired"]
    /\ UNCHANGED <<state, ledgerVars, gateVars, runs, checkpoint, task, call, procVars>>

-----------------------------------------------------------------------------
Init ==
    /\ StoreInit
    /\ task = [t \in Tasks |-> IdleTask]
    /\ call = [t \in Tasks |-> [c \in Calls |-> IdleCall]]
    /\ proc = "boot"
    /\ strands = {}
    /\ claiming = FALSE
    /\ kicks = [j \in Jobs |-> 0]
    /\ crashes = 0
    /\ retries = 0

Owner ==
    \/ \E j \in Jobs : Create(j) \/ CancelJob(j) \/ RetryJob(j)
    \/ \E a \in ApprovalIds, d \in {"approved", "rejected"} : DecideApproval(a, d)

Worker ==
    \/ \E j \in Jobs : Recover(j) \/ Claim(j) \/ Resume(j)
    \/ \E t \in Tasks : TaskStep(t)
    \/ Serve \/ Poll \/ ClaimNothing \/ Crash \/ Boot

Next ==
    \/ Owner
    \/ Worker
    \/ \E j \in Jobs : ClockExpires(j)

Spec == Init /\ [][Next]_vars

(* A task that can run does run, a request that was accepted is served, the  *)
(* loop keeps polling and a dead process is restarted.  Owners, crashes and  *)
(* the wall clock owe nothing, and retry and crash only so often.            *)
Fairness ==
    /\ \A t \in Tasks : WF_vars(TaskStep(t))
    /\ \A j \in Jobs : WF_vars(Resume(j)) /\ WF_vars(Recover(j))
    /\ WF_vars(Serve \/ Boot)
    /\ WF_vars(Poll \/ ClaimNothing \/ \E j \in Jobs : Claim(j))

FairSpec == Spec /\ Fairness

-----------------------------------------------------------------------------
TypeOK ==
    /\ StoreTypeOK
    /\ task \in [Tasks -> Task]
    /\ call \in [Tasks -> [Calls -> Call]]
    /\ proc \in {"boot", "up", "down"}
    /\ strands \subseteq Jobs
    /\ claiming \in BOOLEAN
    /\ kicks \in [Jobs -> 0 .. MaxKicks]
    /\ crashes \in 0 .. MaxCrashes
    /\ retries \in 0 .. MaxRetries

(* ADR-007: a gated command runs only under an approval the owner gave for   *)
(* exactly that command in that job; a rejected or undecided one never runs, *)
(* whatever tasks, tool calls, retries and crashes interleave.               *)
OnlyApprovedRuns ==
    /\ \A a \in ApprovalIds : runs[a] > 0 => approval[a].decision = "approved"
    /\ \A t \in Tasks, c \in Calls : CallAt(t, c, "execute") =>
          LET a == call[t][c].ap
          IN  /\ approval[a].decision = "approved"
              /\ approval[a].cmd = call[t][c].cmd
              /\ approval[a].job = Job(t)

(* runner.py writes step_completed before LangGraph writes the checkpoint    *)
(* that skips the step: no crash can leave a checkpoint, or a task that      *)
(* resumed one, past a step the ledger does not show complete.               *)
LedgerLeadsCheckpoint ==
    /\ \A j \in Jobs : 1 .. checkpoint[j].idx \subseteq completed[j]
    /\ \A t \in Tasks : 1 .. task[t].mem.idx \subseteq completed[Job(t)]

(* runner.py run(): "anything with a checkpoint resumes exactly where it     *)
(* stopped" and "finished steps never repeat" (README).  Once a plan or a    *)
(* step is durable, no run plans the job again or starts a step before it:   *)
(* through crashes, retries and decisions, as long as resume() never puts a  *)
(* second task on a job (SoleDriver).                                        *)
SoleDriver ==
    \A t, u \in Tasks, j \in Jobs : Drives(t, j) /\ Drives(u, j) => t = u

DurableStepsStand ==
    \A t \in Tasks :
        LET durable == checkpoint[Job(t)]
        IN  /\ task[t].pc \in PlanPCs => durable.len = 0
            /\ task[t].pc \in ExecutePCs \cup FinalizePCs =>
                   durable.len \in {0, task[t].mem.len} /\ durable.idx <= task[t].mem.idx

(* worker.py: while the process serves, a job in a LIVE state is never an    *)
(* orphan.  Planning and running jobs have a task that has still to move     *)
(* them on; a retrying job has a task or a resume() on its way.              *)
Driven(j) == \E t \in Tasks : Drives(t, j) /\ ~At(t, "report")

LiveIsDriven ==
    proc = "up" =>
        \A j \in Jobs :
            /\ state[j] \in {PLANNING, RUNNING} => Driven(j)
            /\ state[j] = RETRYING => Driven(j) \/ kicks[j] > 0

(* store.claim_queued, worker.resume: nothing touches a queued job before    *)
(* its one claim; no task, no checkpoint, no approval, no ledger entry.      *)
QueuedIsUntouched ==
    \A j \in Jobs : state[j] \in {NoRow, QUEUED} =>
        /\ \A t \in Tasks : ~Drives(t, j)
        /\ kicks[j] = 0
        /\ checkpoint[j] = NoCheckpoint
        /\ ForJob(j) = {}
        /\ completed[j] = {} /\ ~closed[j]

(* worker.py promises one job running at a time.  As far as the code keeps   *)
(* that: through claims, crashes and restarts, as long as nobody has called  *)
(* resume() (no retry asked for, no approval decided), there is at most one  *)
(* task, and at most one job that is under way.                              *)
NotResumed ==
    /\ retries = 0
    /\ \A a \in ApprovalIds : approval[a].decision \in {"absent", "undecided"}

OneJobUnlessResumed ==
    NotResumed =>
        /\ \A t, u \in Tasks : ~At(t, "idle") /\ ~At(u, "idle") => t = u
        /\ \A i, j \in Jobs : state[i] \in LIVE /\ state[j] \in LIVE => i = j

(* runner.py finalize_node: the job is completed by a task that has the      *)
(* ledger of its whole plan behind it.                                       *)
CompletionIsEarned ==
    [][\A j \in Jobs : state[j] # COMPLETED /\ state'[j] = COMPLETED =>
         /\ closed[j]
         /\ \E t \in Tasks : /\ Drives(t, j) /\ task[t].mem.len > 0
                             /\ 1 .. task[t].mem.len \subseteq completed[j]]_vars

(* ApprovalStore: a decision is made once and a consumption is never undone; *)
(* nothing is consumed before it is decided.                                 *)
DecisionsAreFinal ==
    [][\A a \in ApprovalIds :
         /\ approval[a].decision \in {"approved", "rejected"} =>
                approval'[a].decision = approval[a].decision
         /\ approval[a].consumed => approval'[a].consumed
         /\ approval'[a].consumed => approval[a].decision \in {"approved", "rejected"}]_vars

(* A job that was created comes to rest: it leaves the queue, claimed or     *)
(* cancelled, and a job that is planning, running or retrying is eventually  *)
(* completed, failed, cancelled, blocked, or parked for the owner.           *)
JobsSettle ==
    \A j \in Jobs : state[j] \in {QUEUED} \cup LIVE ~> state[j] \notin {QUEUED} \cup LIVE

(* How far a run is from its end: what is left of its graph (the supersteps  *)
(* to go), and of the superstep it is in (the statements to go).             *)
Ahead(r) ==
    CASE r.pc \in RunPCs     -> MaxSteps + 2
      [] r.pc \in PlanPCs    -> MaxSteps + 1
      [] r.pc \in ExecutePCs -> r.mem.len - r.mem.idx
      [] OTHER               -> 0

Left(p) ==
    CASE p = "check"                             -> 8
      [] p = "settle"                            -> 7
      [] p \in {"settling", "consume"}           -> 6
      [] p = "act"                               -> 5
      [] p \in {"hold", "finalize"}              -> 4
      [] p \in {"park", "look", "plan", "closing"} -> 3
      [] p \in {"complete", "wake", "think", "crashed"} -> 2
      [] p = "idle"                              -> 0
      [] OTHER                                   -> 1

CallLeft(p) ==
    CASE p = "lookup"                       -> 4
      [] p \in {"ask", "reject", "consume"} -> 3
      [] p = "create"                       -> 2
      [] p = "execute"                      -> 1
      [] p = "idle"                         -> 0

\* One call of a turn is nearer to its answer, the others stand.
Answers(c, d) ==
    \E k \in Calls : /\ CallLeft(d[k].pc) < CallLeft(c[k].pc)
                     /\ \A i \in Calls \ {k} : d[i] = c[i]

\* Sooner in the graph or in the superstep,
Sooner(r, s) ==
    \/ 0 <= Ahead(s) /\ Ahead(s) < Ahead(r)
    \/ Ahead(s) = Ahead(r) /\ Left(s.pc) < Left(r.pc)

\* or fewer approvals to settle, fewer calls to start, a call nearer to its
\* answer, a checkpoint less to write.
NearerInStep(r, s, c, d) ==
    \/ s.todo \subseteq r.todo /\ s.todo # r.todo
    \/ s.todo = r.todo /\ r.pc = "settling" /\ s.pc = "consume"
    \/ /\ s.todo = r.todo /\ s.pc = r.pc
       /\ \/ r.calls < s.calls /\ s.calls <= MaxCalls
          \/ s.calls = r.calls /\ Answers(c, d)
          \/ s.calls = r.calls /\ d = c /\ r.dirty /\ ~s.dirty

Nearer(t) ==
    \/ Sooner(task[t], task'[t])
    \/ /\ Ahead(task'[t]) = Ahead(task[t]) /\ Left(task'[t].pc) = Left(task[t].pc)
       /\ NearerInStep(task[t], task'[t], call[t], call'[t])

(* runner.py, worker.py: a run ends by itself.  Every step of a task brings  *)
(* it nearer to its end in an order that cannot go down forever, whatever    *)
(* the other tasks, the owner and the clock do to its job meanwhile; only    *)
(* the death of the process cuts it short.                                   *)
RunsEnd ==
    [][\A t \in Tasks : ~At(t, "idle") =>
         UNCHANGED <<task[t], call[t]>> \/ Nearer(t) \/ proc' = "down"]_vars

Contract == INSTANCE JobContract WITH
    decision <- [a \in ApprovalIds |-> approval[a].decision],
    ran      <- {a \in ApprovalIds : runs[a] > 0}

\* The system keeps the contract of JobContract.
KeepsContract == Contract!ContractSpec
=============================================================================
