----------------------------- MODULE WorkLedger -----------------------------
(***************************************************************************)
(* The job ledger as the job routes show it                                *)
(* (src/server/src/saaya/api/job_routes.py).  JobSystem.tla models how the *)
(* rows come about; here a job is the kind of state it is in, the number   *)
(* of its event rows, and what became of the approval it asked for.  Jobs  *)
(* are numbered in the order of their creation; at most MaxRows rows are   *)
(* written in all.                                                         *)
(***************************************************************************)
EXTENDS JobStates, Integers, Sequences, FiniteSetsExt

CONSTANTS MaxJobs, MaxRows

ASSUME LedgerBounds == MaxJobs \in Nat \ {0} /\ MaxRows \in Nat \ {0}

VARIABLES
    state,  \* state[j]: the kind of its state, NoRow before the job exists
    rows,   \* rows[j]: last_event_seq
    asked   \* asked[j]: the approval: "none", "undecided" or "decided"

ledgerVars == <<state, rows, asked>>

Jobs == 1..MaxJobs
NoJob == 0
Existing == {j \in Jobs : state[j] # NoRow}

(* The kinds that the views tell apart: LIVE_STATES and TERMINAL_STATES of *)
(* lib/jobs-api.ts (of which "failed" has a Retry), a wait for the owner,  *)
(* and a job that stands still.                                            *)
Kind(s) ==
    CASE s \in {QUEUED, PLANNING, RUNNING, RETRYING} -> "live"
      [] s \in {COMPLETED, CANCELLED} -> "over"
      [] s \in {DRAFT, PAUSED, BLOCKED} -> "still"
      [] OTHER -> s
Kinds == {Kind(s) : s \in States}
Terminal == {"over", FAILED}

LedgerTypeOK ==
    /\ state \in [Jobs -> Kinds \cup {NoRow}]
    /\ rows \in [Jobs -> 0..MaxRows]
    /\ asked \in [Jobs -> {"none", "undecided", "decided"}]

(* GET /api/jobs/{id}, before and after a step of the server.  The card is *)
(* the undecided approval.                                                 *)
Snapshot(j) == [job |-> j, state |-> state[j], rows |-> rows[j],
                card |-> asked[j] = "undecided"]
SnapshotAfter(j) == [job |-> j, state |-> state'[j], rows |-> rows'[j],
                     card |-> asked'[j] = "undecided"]
Snapshots == [job : Jobs, state : Kinds, rows : 1..MaxRows, card : BOOLEAN]

(* Bound: the rows that are written, of all jobs. *)
Written == {w \in Jobs \X (1..MaxRows) : w[2] <= rows[w[1]]}
Room == Cardinality(Written) < MaxRows
WriteRow(j) == Room /\ rows' = [rows EXCEPT ![j] = @ + 1]

(* A transition that store.transition accepts. *)
Accepts(j, from, to) ==
    /\ state[j] = Kind(from) /\ Legal(from, to) /\ Room
Move(j, from, to) ==
    /\ Accepts(j, from, to) /\ WriteRow(j)
    /\ state' = [state EXCEPT ![j] = Kind(to)]

(* POST /api/jobs, or the agent's start_job. *)
CreateJob(j) ==
    /\ state[j] = NoRow /\ j - 1 \in Existing \cup {NoJob}
    /\ state' = [state EXCEPT ![j] = Kind(QUEUED)] /\ WriteRow(j)
    /\ UNCHANGED asked

(* What the worker may do next: it waits for a decision once it has asked. *)
RunnerMoves(j) ==
    /\ state[j] \in {"live", WAITING_APPROVAL}
    /\ \E from \in States, to \in States \ {CANCELLED, PAUSED} :
        /\ from = WAITING_APPROVAL => asked[j] = "decided"
        /\ to = WAITING_APPROVAL => asked[j] = "none"
        /\ Move(j, from, to)
        /\ asked' = IF to = WAITING_APPROVAL THEN [asked EXCEPT ![j] = "undecided"]
                                             ELSE asked

(* POST .../cancel and .../retry: refused (409) unless the move is legal. *)
Refused(j, to) == \A from \in States : ~Accepts(j, from, to)
Post(j, to) ==
    /\ UNCHANGED asked
    /\ \/ \E from \in States : Move(j, from, to)
       \/ Refused(j, to) /\ UNCHANGED <<state, rows>>

(* POST .../approvals/{id}: the decision, then its row; the worker is woken *)
(* and moves the job later.                                                *)
PostDecision(j) ==
    IF asked[j] = "undecided" /\ Room
    THEN /\ asked' = [asked EXCEPT ![j] = "decided"]
         /\ WriteRow(j) /\ UNCHANGED state
    ELSE UNCHANGED ledgerVars
=============================================================================
