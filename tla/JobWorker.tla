------------------------------ MODULE JobWorker ------------------------------
(***************************************************************************)
(* The in-process worker (jobs/worker.py): the claim loop, the boot scan,  *)
(* the tasks it spawns and what it does when a run ends, and the death and *)
(* restart of the process, which loses everything but the store.           *)
(***************************************************************************)
EXTENDS JobTools

CONSTANTS
    MaxKicks,       \* bound: resume() calls in flight for one job
    MaxCrashes,     \* bound: deaths of the process
    MaxRetries      \* bound: retries the owner asks for

ASSUME WorkerAssumption ==
    /\ MaxKicks \in Nat
    /\ MaxCrashes \in Nat
    /\ MaxRetries \in Nat

VARIABLES
    proc,       \* the process: "boot" (recovering, not serving yet), "up", "down"
    strands,    \* what the boot scan read and has not spawned yet
    claiming,   \* the claim loop saw no task and awaits claim_queued
    kicks,      \* [Jobs -> resume() calls in flight for the job]
    crashes,    \* deaths of the process so far
    retries     \* retries the owner asked for so far

spentVars == <<crashes, retries>>
procVars  == <<proc, strands, claiming, kicks, spentVars>>

Busy == \E t \in Tasks : ~At(t, "idle")

\* A task is created for job j as its JobView with state s describes it.
Spawn(j, s) ==
    \E t \in Tasks :
        /\ At(t, "idle")
        /\ task' = [task EXCEPT ![t] = [IdleTask EXCEPT !.pc = "look", !.job = j, !.view = s]]

-----------------------------------------------------------------------------
(* start(): _recover, then the claim loop and the HTTP routes. *)

\* job_recovered is recorded and the job spawned, oldest first.
Recover(j) ==
    /\ proc = "boot"
    /\ j \in strands /\ \A i \in strands : j <= i
    /\ strands' = strands \ {j}
    /\ Spawn(j, state[j])
    /\ UNCHANGED <<storeVars, call, proc, claiming, kicks, spentVars>>

Serve ==
    /\ proc = "boot"
    /\ strands = {}
    /\ proc' = "up"
    /\ UNCHANGED <<storeVars, task, call, strands, claiming, kicks, spentVars>>

\* Mutant: the loop claims beside the tasks it has.
PollBeside ==
    /\ proc = "up"
    /\ ~claiming
    /\ claiming' = TRUE
    /\ UNCHANGED <<storeVars, task, call, proc, strands, kicks, spentVars>>

\* The loop looks at its task set, then awaits the claim: resume() may spawn in
\* between.
Poll ==
    /\ proc = "up"
    /\ ~claiming
    /\ ~Busy
    /\ claiming' = TRUE
    /\ UNCHANGED <<storeVars, task, call, proc, strands, kicks, spentVars>>

Claim(j) ==
    /\ claiming
    /\ OldestQueued(j)
    /\ state' = [state EXCEPT ![j] = PLANNING]
    /\ Spawn(j, PLANNING)
    /\ claiming' = FALSE
    /\ UNCHANGED <<clock, ledgerVars, gateVars, runs, checkpoint, call, proc,
                   strands, kicks, spentVars>>

ClaimNothing ==
    /\ claiming
    /\ \A j \in Jobs : state[j] # QUEUED
    /\ claiming' = FALSE
    /\ UNCHANGED <<storeVars, task, call, proc, strands, kicks, spentVars>>

-----------------------------------------------------------------------------
(* resume() and the end of _run. *)

\* Mutant: a retried job is not taken for resumable.
ResumableButRetried == {QUEUED, WAITING_APPROVAL}

Resumable == {RETRYING, QUEUED, WAITING_APPROVAL}

\* The row is read again; a job in no resumable state is left alone.  Nothing
\* asks whether a task already drives the job.
Resume(j) ==
    /\ kicks[j] > 0
    /\ kicks' = [kicks EXCEPT ![j] = @ - 1]
    /\ \/ state[j] \in Resumable /\ Spawn(j, state[j])
       \/ state[j] \notin Resumable /\ UNCHANGED task
    /\ UNCHANGED <<storeVars, call, proc, strands, claiming, spentVars>>

\* Mutant: the error is recorded and the row left as it is.
RunCrashedUnmarked(t) ==
    /\ At(t, "crashed")
    /\ task' = [task EXCEPT ![t] = IdleTask]
    /\ UNCHANGED <<storeVars, call>>

\* worker_error is recorded; the job is failed where that is legal.
RunCrashed(t) ==
    /\ At(t, "crashed")
    /\ Transition(Job(t), FAILED) \/ Refused(Job(t), FAILED)
    /\ task' = [task EXCEPT ![t] = IdleTask]
    /\ UNCHANGED <<ledgerVars, gateVars, runs, checkpoint, call>>

\* The terminal hook may post a report; the task leaves the task set.
Report(t) ==
    /\ At(t, "report")
    /\ task' = [task EXCEPT ![t] = IdleTask]
    /\ UNCHANGED <<storeVars, call>>

-----------------------------------------------------------------------------
(* The process dies, or stop() cancels it: memory and requests in flight are *)
(* gone.  On boot the LIVE rows are read once.                               *)

Crash ==
    /\ proc # "down"
    /\ crashes < MaxCrashes
    /\ crashes' = crashes + 1
    /\ proc' = "down"
    /\ task' = [t \in Tasks |-> IdleTask]
    /\ call' = [t \in Tasks |-> [c \in Calls |-> IdleCall]]
    /\ strands' = {}
    /\ claiming' = FALSE
    /\ kicks' = [j \in Jobs |-> 0]
    /\ UNCHANGED <<storeVars, retries>>

Boot ==
    /\ proc = "down"
    /\ proc' = "boot"
    /\ strands' = StrandedLive
    /\ UNCHANGED <<storeVars, task, call, claiming, kicks, spentVars>>

TaskStep(t) ==
    /\ \/ RunnerStep(t) /\ UNCHANGED call
       \/ Flush(t) /\ UNCHANGED call
       \/ ExecutorStep(t)
       \/ RunCrashed(t)
       \/ Report(t)
    /\ UNCHANGED procVars
=============================================================================
