------------------------------- MODULE JobTools -------------------------------
(***************************************************************************)
(* The executor's turn on one step (jobs/agents.py) and the run_command    *)
(* tool it calls (jobs/tools.py).  The model may issue several tool calls  *)
(* in one message and LangGraph runs them concurrently, so a task has      *)
(* several calls in flight.  Commands the policy allows or refuses outright *)
(* touch nothing the properties see: a call here is one for a gated        *)
(* command, and each of its steps is one transaction.                      *)
(***************************************************************************)
EXTENDS JobRunner

CONSTANTS
    Calls,      \* bound: tool calls of one task in flight
    MaxCalls    \* gated calls of one executor turn (recursion_limit)

ASSUME ToolsAssumption == MaxCalls \in Nat

VARIABLES
    call    \* [Tasks -> [Calls -> a run_command call and its local variables]]

CallPCs == {"idle", "lookup", "ask", "create", "reject", "consume", "execute"}

Call == [pc : CallPCs, cmd : Commands \cup {NoCommand}, ap : 0 .. MaxApprovals]

IdleCall == [pc |-> "idle", cmd |-> NoCommand, ap |-> 0]

CallAt(t, c, p) == call[t][c].pc = p

CallGo(t, c, p) == call' = [call EXCEPT ![t][c].pc = p]
Return(t, c)    == call' = [call EXCEPT ![t][c] = IdleCall]

-----------------------------------------------------------------------------
(* The executor. *)

StartCall(t, c, cmd) ==
    /\ At(t, "act")
    /\ CallAt(t, c, "idle")
    /\ task[t].calls < MaxCalls
    /\ call' = [call EXCEPT ![t][c] = [pc |-> "lookup", cmd |-> cmd, ap |-> 0]]
    /\ task' = [task EXCEPT ![t].calls = @ + 1]
    /\ UNCHANGED storeVars

\* The model ends its turn once every call has answered.
ExecutorReturns(t) ==
    /\ At(t, "act")
    /\ \A c \in Calls : CallAt(t, c, "idle")
    /\ task' = [task EXCEPT ![t].pc = "hold", ![t].calls = 0]
    /\ UNCHANGED <<storeVars, call>>

\* The provider, the recursion limit or a tool raises; calls in flight are
\* cancelled where they stand.
ExecutorRaises(t) ==
    /\ At(t, "act")
    /\ call' = [call EXCEPT ![t] = [c \in Calls |-> IdleCall]]
    /\ task' = [task EXCEPT ![t].pc = "failing", ![t].calls = 0]
    /\ UNCHANGED storeVars

-----------------------------------------------------------------------------
(* run_command on a gated command. *)

\* The oldest decided, unconsumed approval of exactly this command, if any.
LookUp(t, c) ==
    LET found == DecidedUnconsumed(Job(t), call[t][c].cmd)
    IN  /\ CallAt(t, c, "lookup")
        /\ \/ found = {} /\ CallGo(t, c, "ask")
           \/ /\ found # {}
              /\ call' = [call EXCEPT ![t][c] =
                    [@ EXCEPT !.ap = Min(found),
                              !.pc = IF approval[Min(found)].decision = "rejected"
                                     THEN "reject" ELSE "consume"]]
        /\ UNCHANGED <<storeVars, task>>

\* Only the oldest undecided request is compared with the command.
AskPending(t, c) ==
    LET already == /\ Undecided(Job(t)) # {}
                   /\ approval[Pending(Job(t))].cmd = call[t][c].cmd
    IN  /\ CallAt(t, c, "ask")
        /\ IF already THEN Return(t, c) ELSE CallGo(t, c, "create")
        /\ UNCHANGED <<storeVars, task>>

CallCreate(t, c) ==
    /\ CallAt(t, c, "create")
    /\ CreateApproval(Job(t), call[t][c].cmd)
    /\ Return(t, c)
    /\ UNCHANGED <<rowVars, ledgerVars, runs, checkpoint, task>>

CallReject(t, c) ==
    /\ CallAt(t, c, "reject")
    /\ Consume(call[t][c].ap)
    /\ Return(t, c)
    /\ UNCHANGED <<rowVars, ledgerVars, runs, checkpoint, task>>

\* Here the approval is consumed before its command runs.
CallConsume(t, c) ==
    /\ CallAt(t, c, "consume")
    /\ Consume(call[t][c].ap)
    /\ CallGo(t, c, "execute")
    /\ UNCHANGED <<rowVars, ledgerVars, runs, checkpoint, task>>

CallExecute(t, c) ==
    /\ CallAt(t, c, "execute")
    /\ Execute(call[t][c].ap)
    /\ Return(t, c)
    /\ UNCHANGED <<rowVars, ledgerVars, gateVars, checkpoint, task>>

ToolStep(t, c) ==
    \/ LookUp(t, c) \/ AskPending(t, c) \/ CallCreate(t, c)
    \/ CallReject(t, c) \/ CallConsume(t, c) \/ CallExecute(t, c)

ExecutorStep(t) ==
    \/ \E c \in Calls, cmd \in Commands : StartCall(t, c, cmd)
    \/ ExecutorReturns(t)
    \/ ExecutorRaises(t)
    \/ \E c \in Calls : ToolStep(t, c)
=============================================================================
