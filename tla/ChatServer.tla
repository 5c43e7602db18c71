----------------------------- MODULE ChatServer -----------------------------
(***************************************************************************)
(* The chat side of the server as the web client meets it: the rows of the *)
(* thread list and one streamed turn per POST /api/chat                    *)
(* (src/server/src/saaya/api/routes.py).  A turn is a record in one of the *)
(* slots 1..MaxOpen; its reply is a queue of wire events that holds one    *)
(* frame, so the server waits for the reader.                              *)
(***************************************************************************)
EXTENDS Naturals, Sequences, FiniteSets

CONSTANTS
    Threads,      \* conversation identifiers, minted by the server or stored earlier
    NoThread,     \* the null thread id of a new conversation
    MaxOpen,      \* turns that can be open at once
    MaxEvents     \* deltas and tool calls of one turn

ASSUME ThreadsAssumption == NoThread \notin Threads
ASSUME TurnBounds == MaxOpen \in Nat \ {0} /\ MaxEvents \in Nat

VARIABLES
    up,      \* the server process answers
    row,     \* row[t]: "unused", "listed" or "archived" in the threads table
    turn     \* turn[i]: the turn in slot i

serverVars == <<up, row, turn>>

ThreadIds == Threads \cup {NoThread}

(* A slot with no turn in it. *)
NoTurn == [phase |-> "free", thread |-> NoThread, calls |-> 0, left |-> 0,
           queue |-> <<>>]

Slots == 1..MaxOpen
OpenTurns == {i \in Slots : turn[i].phase # "free"}
FreeSlots == Slots \ OpenTurns

WireEvents ==
    {"thread.started", "text.delta", "tool.started", "tool.finished",
     "turn.done", "turn.error"}

ServerTypeOK ==
    /\ up \in BOOLEAN
    /\ row \in [Threads -> {"unused", "listed", "archived"}]
    /\ turn \in [Slots -> [phase : {"free", "posted", "running", "ended", "cut"},
                           thread : ThreadIds, calls : 0..MaxEvents,
                           left : 0..MaxEvents,
                           queue : {<<>>} \cup {<<e>> : e \in WireEvents}]]

(* GET /api/threads and GET /api/threads/archived. *)
Listing(r) == {t \in Threads : r[t] = "listed"}
ArchivedListing(r) == {t \in Threads : r[t] = "archived"}

(* The route mints a thread id when the body carries none, writes the row  *)
(* (mark_active leaves an archived row archived), and yields               *)
(* thread.started before anything else.                                    *)
AcceptTurn(i) ==
    /\ up /\ turn[i].phase = "posted"
    /\ \E t \in Threads :
        /\ IF turn[i].thread = NoThread THEN row[t] = "unused"
                                        ELSE t = turn[i].thread
        /\ row' = [row EXCEPT ![t] = IF @ = "unused" THEN "listed" ELSE @]
        /\ turn' = [turn EXCEPT ![i].phase = "running", ![i].thread = t,
                                ![i].left = MaxEvents,
                                ![i].queue = <<"thread.started">>]
    /\ UNCHANGED up

CanEmit(i) == up /\ turn[i].phase = "running" /\ turn[i].queue = <<>>

(* The agent streams text and runs tools, several calls at a time. *)
EmitDelta(i) ==
    /\ CanEmit(i) /\ turn[i].left > 0
    /\ turn' = [turn EXCEPT ![i].left = @ - 1, ![i].queue = <<"text.delta">>]
    /\ UNCHANGED <<up, row>>

EmitToolStarted(i) ==
    /\ CanEmit(i) /\ turn[i].left > 0
    /\ turn' = [turn EXCEPT ![i].left = @ - 1, ![i].calls = @ + 1,
                            ![i].queue = <<"tool.started">>]
    /\ UNCHANGED <<up, row>>

\* Mutant: a result is reported for a call that is not running.
EmitToolFinishedTwice(i) ==
    /\ CanEmit(i)
    /\ turn' = [turn EXCEPT ![i].calls = @ - 1,
                            ![i].queue = <<"tool.finished">>]
    /\ UNCHANGED <<up, row>>

EmitToolFinished(i) ==
    /\ CanEmit(i) /\ turn[i].calls > 0
    /\ turn' = [turn EXCEPT ![i].calls = @ - 1,
                            ![i].queue = <<"tool.finished">>]
    /\ UNCHANGED <<up, row>>

(* turn.done once the agent is through; turn.error when it raises. *)
EndTurn(i) ==
    /\ CanEmit(i)
    /\ \E last \in {"turn.done", "turn.error"} :
        /\ last = "turn.done" => turn[i].calls = 0
        /\ turn' = [turn EXCEPT ![i].phase = "ended", ![i].queue = <<last>>,
                                ![i].left = 0, ![i].calls = 0]
    /\ UNCHANGED <<up, row>>

(* The agent's work is bound to the request: a crash cuts every reply that *)
(* is not wholly written.                                                  *)
Crash ==
    /\ up /\ up' = FALSE
    /\ turn' = [i \in Slots |-> IF turn[i].phase \in {"posted", "running"}
                                THEN [NoTurn EXCEPT !.phase = "cut"]
                                ELSE turn[i]]
    /\ UNCHANGED row

Restart == /\ ~up /\ up' = TRUE /\ UNCHANGED <<row, turn>>

TurnStep(i) ==
    AcceptTurn(i) \/ EmitDelta(i) \/ EmitToolStarted(i) \/ EmitToolFinished(i)
        \/ EndTurn(i)
=============================================================================
