------------------------------ MODULE JobStates ------------------------------
(***************************************************************************)
(* The job lifecycle of Saaya (jobs/states.py): the eleven states of a job *)
(* row and the moves between them that store.transition accepts.           *)
(***************************************************************************)

DRAFT            == "draft"
QUEUED           == "queued"
PLANNING         == "planning"
WAITING_APPROVAL == "waiting_approval"
RUNNING          == "running"
PAUSED           == "paused"
BLOCKED          == "blocked"
RETRYING         == "retrying"
FAILED           == "failed"
CANCELLED        == "cancelled"
COMPLETED        == "completed"

States == {DRAFT, QUEUED, PLANNING, WAITING_APPROVAL, RUNNING, PAUSED,
           BLOCKED, RETRYING, FAILED, CANCELLED, COMPLETED}

\* A job id without a row yet.
NoRow == "none"

\* What the boot scan takes for a job a dead process left mid-flight.
LIVE == {PLANNING, RUNNING, RETRYING}

LEGAL_TRANSITIONS ==
    [s \in States |->
        CASE s = DRAFT            -> {QUEUED, CANCELLED}
          [] s = QUEUED           -> {PLANNING, CANCELLED}
          [] s = PLANNING         -> {RUNNING, BLOCKED, FAILED, CANCELLED}
          [] s = RUNNING          -> {WAITING_APPROVAL, RETRYING, BLOCKED, PAUSED,
                                      FAILED, COMPLETED, CANCELLED}
          [] s = WAITING_APPROVAL -> {RUNNING, CANCELLED}
          [] s = PAUSED           -> {RUNNING, CANCELLED}
          [] s = BLOCKED          -> {RETRYING, CANCELLED}
          [] s = RETRYING         -> {RUNNING, FAILED, CANCELLED}
          [] s = FAILED           -> {RETRYING}
          [] OTHER                -> {}]

\* check_transition does not raise.
Legal(from, to) == from \in States /\ to \in LEGAL_TRANSITIONS[from]
=============================================================================
