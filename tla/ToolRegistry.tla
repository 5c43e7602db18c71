---------------------------- MODULE ToolRegistry ----------------------------
(***************************************************************************)
(* The lifecycle of one dynamic tool: its row and its versions, its script *)
(* on disk and its place in the agent's tool set, which every lifecycle    *)
(* route changes one after the other                                       *)
(* (src/server/src/saaya/tools/registry.py, api/tools_routes.py).  Handlers *)
(* interleave at these steps; one transaction is one step.                 *)
(***************************************************************************)
EXTENDS Integers, SequencesExt

CONSTANTS
    MaxVersions,  \* version rows of the tool
    MaxCalls      \* handlers under way at once

ASSUME RegistryBounds == MaxVersions \in Nat \ {0} /\ MaxCalls \in Nat \ {0}

VARIABLES
    status,     \* of the row: "none", "draft", "active" or "disabled"
    history,    \* the script of every version, numbered as first proposed
    disk,       \* the script file, or NoScript
    calls,      \* handlers that have committed their row and go on
    offered,    \* the agent that serves conversations has the tool
    crossed,    \* history: the file may have missed the last change of the row
    overtaken   \* history: the agent may have missed the last rebuild

toolVars == <<status, history, disk, calls, offered, crossed, overtaken>>

NoScript == 0
Call == [at : {"file", "query", "build"}, put : 0..MaxVersions,
         rebuild : BOOLEAN, seen : BOOLEAN, panel : BOOLEAN]

RegistryTypeOK ==
    /\ status \in {"none", "draft", "active", "disabled"}
    /\ history \in Seq(1..MaxVersions) /\ Len(history) <= MaxVersions
    /\ disk \in 0..MaxVersions
    /\ calls \in Seq(Call) /\ Len(calls) <= MaxCalls
    /\ {offered, crossed, overtaken} \subseteq BOOLEAN

(* No tool, or one of an earlier session: a draft, or approved. *)
RegistryInit ==
    /\ status \in {"none", "draft", "active"}
    /\ history = IF status = "none" THEN <<>> ELSE <<1>>
    /\ offered = (status = "active") /\ disk = IF offered THEN 1 ELSE NoScript
    /\ calls = <<>> /\ crossed = FALSE /\ overtaken = FALSE

At(step) == \E i \in DOMAIN calls : calls[i].at = step

(* The row is committed; its file comes next.  With no other file pending   *)
(* the two agree again.                                                    *)
Commit(put, rebuild, panel) ==
    /\ Len(calls) < MaxCalls
    /\ calls' = Append(calls, [at |-> "file", put |-> put, rebuild |-> rebuild,
                               seen |-> FALSE, panel |-> panel])
    /\ crossed' = At("file")
    /\ UNCHANGED <<disk, offered, overtaken>>

\* Mutant: a proposal writes its script where the active one is.
ProposeWrites ==
    /\ Len(history) < MaxVersions
    /\ history' = Append(history, Len(history) + 1) /\ status' = "draft"
    /\ Commit(Len(history) + 1, FALSE, FALSE)

(* propose, of a script that passes validation: a draft, and no rebuild. *)
Propose ==
    /\ Len(history) < MaxVersions
    /\ history' = Append(history, Len(history) + 1) /\ status' = "draft"
    /\ Commit(NoScript, FALSE, FALSE)

\* Mutant: the script of the first version is activated.
SetStatusFirst(to) ==
    /\ status # "none" /\ status' = to
    /\ Commit(IF to = "active" THEN Head(history) ELSE NoScript, TRUE, TRUE)
    /\ UNCHANGED history

(* set_status writes the script that its transaction read. *)
SetStatus(to) ==
    /\ status # "none" /\ status' = to
    /\ Commit(IF to = "active" THEN Last(history) ELSE NoScript, TRUE, TRUE)
    /\ UNCHANGED history

(* rollback: the script of version v as a new version, and a draft. *)
RollbackTool(v) ==
    /\ v \in DOMAIN history /\ Len(history) < MaxVersions
    /\ history' = Append(history, history[v]) /\ status' = "draft"
    /\ Commit(NoScript, TRUE, TRUE)

(* write_text or unlink, after the transaction's connection is given back. *)
MoveScript(i) ==
    /\ calls[i].at = "file" /\ disk' = calls[i].put
    /\ calls' = IF calls[i].rebuild THEN [calls EXCEPT ![i].at = "query"]
                                    ELSE RemoveAt(calls, i)
    /\ UNCHANGED <<status, history, offered, crossed, overtaken>>

(* rebuild_agent reads the active tools ... *)
ReadActive(i) ==
    /\ calls[i].at = "query"
    /\ calls' = [calls EXCEPT ![i].at = "build", ![i].seen = status = "active"]
    /\ overtaken' = At("build")
    /\ UNCHANGED <<status, history, disk, offered, crossed>>

(* ... and puts the agent built from them in place. *)
BuildAgent(i) ==
    /\ calls[i].at = "build" /\ offered' = calls[i].seen
    /\ calls' = RemoveAt(calls, i)
    /\ UNCHANGED <<status, history, disk, crossed, overtaken>>

(* The query fails: the route raises and the agent stays as it was. *)
RebuildFails(i) ==
    /\ calls[i].at = "query" /\ calls' = RemoveAt(calls, i)
    /\ overtaken' = TRUE
    /\ UNCHANGED <<status, history, disk, offered, crossed>>

(* A reflection that was applied, or a memory rollback, rebuilds the agent. *)
MemoryRebuilds ==
    /\ Len(calls) < MaxCalls
    /\ calls' = Append(calls, [at |-> "query", put |-> NoScript, rebuild |-> TRUE,
                               seen |-> FALSE, panel |-> FALSE])
    /\ UNCHANGED <<status, history, disk, offered, crossed, overtaken>>

(* The process dies and is started again; the start builds the agent. *)
RestartTools ==
    /\ crossed' = (crossed \/ At("file"))
    /\ calls' = <<>> /\ offered' = (status = "active") /\ overtaken' = FALSE
    /\ UNCHANGED <<status, history, disk>>

(* What a conversation that calls the tool runs: the agent's tool is bound *)
(* to the path, whatever the file holds by then.                           *)
Runs == IF offered THEN disk ELSE NoScript
=============================================================================
