------------------------------- MODULE JobStore -------------------------------
(***************************************************************************)
(* What Saaya's job system keeps outside the process: the job rows and     *)
(* the part of their ledger the properties tell apart (jobs/store.py), the *)
(* approval rows, the LangGraph checkpoint under thread "job:<id>", and    *)
(* what gated commands did to the workspace.                               *)
(*                                                                         *)
(* Every action-level operator below is one database transaction; a row is *)
(* locked FOR UPDATE inside it, so nothing interleaves with it.  Job and   *)
(* approval ids are numbers in creation order: created_at and requested_at *)
(* order are the order of the ids.                                         *)
(***************************************************************************)
EXTENDS JobStates, Naturals, FiniteSetsExt

CONSTANTS
    MaxJobs,        \* bound: rows of table jobs
    MaxSteps,       \* bound: steps of a plan (parse_plan keeps at most 8)
    MaxApprovals,   \* bound: rows of table job_approvals
    Commands,       \* the gated commands the executor may ask to run
    NoCommand,      \* none of them: the placeholder where no command is named
    RunCap          \* executions of one approval are counted up to this

ASSUME StoreAssumption ==
    /\ MaxJobs \in Nat \ {0}
    /\ MaxSteps \in Nat \ {0}
    /\ MaxApprovals \in Nat
    /\ RunCap \in Nat \ {0}
    /\ NoCommand \notin Commands

Jobs        == 1 .. MaxJobs
Steps       == 1 .. MaxSteps
ApprovalIds == 1 .. MaxApprovals

VARIABLES
    state,       \* [Jobs -> state column, NoRow before the insert]
    clock,       \* [Jobs -> "unset" | "ticking" | "expired"]: started_at and
                 \* whether wall_clock_budget_s has elapsed since
    completed,   \* [Jobs -> numbers n with a step_completed event]
    closed,      \* [Jobs -> is there a job_completed event]
    requested,   \* number of approval rows, over all jobs
    approval,    \* [ApprovalIds -> row]; rows above `requested` do not exist
    runs,        \* [ApprovalIds -> times its command ran, up to RunCap]
    checkpoint   \* [Jobs -> latest durable LangGraph checkpoint]

rowVars    == <<state, clock>>
ledgerVars == <<completed, closed>>
gateVars   == <<requested, approval>>
storeVars  == <<state, clock, completed, closed, requested, approval, runs,
                checkpoint>>

\* The decision column, "undecided" for NULL, "absent" where there is no row.
Decisions == {"absent", "undecided", "approved", "rejected"}

Approval == [job : Jobs, cmd : Commands \cup {NoCommand},
             decision : Decisions, consumed : BOOLEAN]

NoApproval == [job |-> 1, cmd |-> NoCommand, decision |-> "absent", consumed |-> FALSE]

\* A checkpoint names the node that runs next and the state it runs with: the
\* length of the plan and current_step.
Nodes      == {"none", "plan", "execute", "finalize", "end"}
Checkpoint == [next : Nodes, len : 0 .. MaxSteps, idx : 0 .. MaxSteps]

NoCheckpoint == [next |-> "none", len |-> 0, idx |-> 0]
Fresh        == [next |-> "plan", len |-> 0, idx |-> 0]

-----------------------------------------------------------------------------
(* Transactions on a job row. *)

\* JobStore.create: the row starts queued.
CreateRow(j) ==
    /\ state[j] = NoRow
    /\ \A i \in Jobs : i < j => state[i] # NoRow
    /\ state' = [state EXCEPT ![j] = QUEUED]
    /\ UNCHANGED clock

\* Mutant: the row moves without check_transition.
TransitionUnchecked(j, target) ==
    /\ state' = [state EXCEPT ![j] = target]
    /\ clock' = IF target = RUNNING /\ clock[j] = "unset"
                THEN [clock EXCEPT ![j] = "ticking"]
                ELSE clock

\* JobStore.transition, when check_transition does not raise.  started_at is
\* set by the first move to running and never again.
Transition(j, target) ==
    /\ Legal(state[j], target)
    /\ state' = [state EXCEPT ![j] = target]
    /\ clock' = IF target = RUNNING /\ clock[j] = "unset"
                THEN [clock EXCEPT ![j] = "ticking"]
                ELSE clock

\* JobStore.claim_queued returns the oldest queued job.
OldestQueued(j) ==
    /\ state[j] = QUEUED
    /\ \A i \in Jobs : state[i] = QUEUED => j <= i

\* JobStore.stranded_live.
StrandedLive == {j \in Jobs : state[j] \in LIVE}

-----------------------------------------------------------------------------
(* Transactions on approval rows. *)

ForJob(j)    == {a \in 1 .. requested : approval[a].job = j}
Undecided(j) == {a \in ForJob(j) : approval[a].decision = "undecided"}
Settleable(j) ==
    {a \in ForJob(j) : approval[a].decision # "undecided" /\ ~approval[a].consumed}

\* ApprovalStore.pending: the oldest undecided row, if any.
Pending(j) == Min(Undecided(j))

\* Mutant: the query forgets that the row must be decided.
MatchesUndecided(j, cmd) ==
    {a \in ForJob(j) : ~approval[a].consumed /\ approval[a].cmd = cmd}

\* ApprovalStore.decided_unconsumed: rows whose payload is exactly cmd.
DecidedUnconsumed(j, cmd) == {a \in Settleable(j) : approval[a].cmd = cmd}

CreateApproval(j, cmd) ==
    /\ requested < MaxApprovals
    /\ requested' = requested + 1
    /\ approval' = [approval EXCEPT ![requested + 1] =
          [job |-> j, cmd |-> cmd, decision |-> "undecided", consumed |-> FALSE]]

\* Mutant: a second decision overwrites the first.
RecordLastDecision(a, decision) ==
    /\ a <= requested
    /\ approval' = [approval EXCEPT ![a].decision = decision]
    /\ UNCHANGED requested

\* ApprovalStore.decide: a second decision is refused.
RecordDecision(a, decision) ==
    /\ a <= requested
    /\ approval[a].decision = "undecided"
    /\ approval' = [approval EXCEPT ![a].decision = decision]
    /\ UNCHANGED requested

\* ApprovalStore.consume: returns nothing, so a caller never learns whether it
\* was the first.
Consume(a) ==
    /\ approval' = [approval EXCEPT ![a].consumed = TRUE]
    /\ UNCHANGED requested

\* run_command under approval a, in the workspace of its job.
Execute(a) ==
    runs' = [runs EXCEPT ![a] = IF @ < RunCap THEN @ + 1 ELSE @]

-----------------------------------------------------------------------------
StoreInit ==
    /\ state = [j \in Jobs |-> NoRow]
    /\ clock = [j \in Jobs |-> "unset"]
    /\ completed = [j \in Jobs |-> {}]
    /\ closed = [j \in Jobs |-> FALSE]
    /\ requested = 0
    /\ approval = [a \in ApprovalIds |-> NoApproval]
    /\ runs = [a \in ApprovalIds |-> 0]
    /\ checkpoint = [j \in Jobs |-> NoCheckpoint]

StoreTypeOK ==
    /\ state \in [Jobs -> States \cup {NoRow}]
    /\ clock \in [Jobs -> {"unset", "ticking", "expired"}]
    /\ completed \in [Jobs -> SUBSET Steps]
    /\ closed \in [Jobs -> BOOLEAN]
    /\ requested \in 0 .. MaxApprovals
    /\ approval \in [ApprovalIds -> Approval]
    /\ runs \in [ApprovalIds -> 0 .. RunCap]
    /\ checkpoint \in [Jobs -> Checkpoint]
=============================================================================
