------------------------------ MODULE JobClaims ------------------------------
(***************************************************************************)
(* Sentences of the repository about the job system which its code does    *)
(* not keep.  Each is checked by a run of its own that ends in a           *)
(* counterexample.                                                         *)
(***************************************************************************)
EXTENDS JobSystem

Running(t) == ~At(t, "idle") /\ ~At(t, "report")

(* jobs/tools.py:22-24, "the job will resume once a decision is made": a job *)
(* that waits, with no task and no resume() on its way, waits for a decision *)
(* somebody can still make.                                                  *)
DecisionWakesJob ==
    proc = "up" =>
        \A j \in Jobs :
            state[j] = WAITING_APPROVAL /\ kicks[j] = 0 /\ (\A t \in Tasks : ~Drives(t, j))
                => Undecided(j) # {}

\* jobs/worker.py:2-3, "one job running at a time".
OneJobAtATime == \A t, u \in Tasks : Running(t) /\ Running(u) => t = u

(* jobs/store.py:346-347, "Decisions are recorded once; execution consumes   *)
(* them": an approval pays for one execution of its command.                 *)
RunsOnce == \A a \in ApprovalIds : runs[a] <= 1

(* jobs/tools.py:37-38, "an approval is an enforced fact": a job is not      *)
(* completed past a command its owner approved and nobody ran.               *)
ApprovedIsDone ==
    \A j \in Jobs : state[j] = COMPLETED =>
        \A a \in ForJob(j) : approval[a].decision = "approved" => approval[a].consumed
=============================================================================
