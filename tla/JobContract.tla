----------------------------- MODULE JobContract -----------------------------
(***************************************************************************)
(* What the job system promises its owner, whatever happens inside it:     *)
(*   - a job moves only along the lifecycle of jobs/states.py, and a job   *)
(*     that is completed or cancelled stays so;                            *)
(*   - steps are recorded complete in order, and a job is completed only   *)
(*     with recorded work;                                                 *)
(*   - an approval is decided once, and its command runs only after it has *)
(*     been approved.                                                      *)
(***************************************************************************)
EXTENDS JobStates, Naturals

CONSTANTS Jobs, MaxSteps, ApprovalIds

VARIABLES
    state,      \* [Jobs -> States \cup {NoRow}]
    completed,  \* [Jobs -> SUBSET 1..MaxSteps]
    decision,   \* [ApprovalIds -> "absent" | "undecided" | "approved" | "rejected"]
    ran         \* approvals whose command has run at least once

contractVars == <<state, completed, decision, ran>>

ContractInit ==
    /\ state = [j \in Jobs |-> NoRow]
    /\ completed = [j \in Jobs |-> {}]
    /\ decision = [a \in ApprovalIds |-> "absent"]
    /\ ran = {}

Submit(j) ==
    /\ state[j] = NoRow
    /\ state' = [state EXCEPT ![j] = QUEUED]
    /\ UNCHANGED <<completed, decision, ran>>

Move(j, target) ==
    /\ Legal(state[j], target)
    /\ target = COMPLETED => \E n \in 1 .. MaxSteps : completed[j] = 1 .. n
    /\ state' = [state EXCEPT ![j] = target]
    /\ UNCHANGED <<completed, decision, ran>>

FinishStep(j, n) ==
    /\ 1 .. n - 1 \subseteq completed[j]
    /\ completed' = [completed EXCEPT ![j] = @ \cup {n}]
    /\ UNCHANGED <<state, decision, ran>>

Ask(a) ==
    /\ decision[a] = "absent"
    /\ decision' = [decision EXCEPT ![a] = "undecided"]
    /\ UNCHANGED <<state, completed, ran>>

Rule(a, d) ==
    /\ decision[a] = "undecided"
    /\ decision' = [decision EXCEPT ![a] = d]
    /\ UNCHANGED <<state, completed, ran>>

Perform(a) ==
    /\ decision[a] = "approved"
    /\ ran' = ran \cup {a}
    /\ UNCHANGED <<state, completed, decision>>

ContractNext ==
    \/ \E j \in Jobs : Submit(j)
    \/ \E j \in Jobs, target \in States : Move(j, target)
    \/ \E j \in Jobs, n \in 1 .. MaxSteps : FinishStep(j, n)
    \/ \E a \in ApprovalIds : Ask(a)
    \/ \E a \in ApprovalIds, d \in {"approved", "rejected"} : Rule(a, d)
    \/ \E a \in ApprovalIds : Perform(a)

ContractSpec == ContractInit /\ [][ContractNext]_contractVars
=============================================================================
