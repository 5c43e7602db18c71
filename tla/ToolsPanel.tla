----------------------------- MODULE ToolsPanel -----------------------------
(***************************************************************************)
(* The Tools surface (src/web/components/tools): the row of the tool as it *)
(* was last listed, and the buttons that approve, disable and roll it back *)
(* by its name.  A listing is read on mount and after a success, nothing   *)
(* polls.  The panel stays busy until its request is answered or dies.     *)
(***************************************************************************)
EXTENDS ToolRegistry, FiniteSets

VARIABLES
    tool,       \* the ToolView on screen, or NoTool
    listings,   \* answers of listings on their way
    toolBusy, toolError

toolPanelVars == <<tool, listings, toolBusy, toolError>>

NoTool == [status |-> "none", version |-> 0]
ToolView == [status : {"draft", "active", "disabled"}, version : 1..MaxVersions]

ToolsPanelTypeOK ==
    /\ tool \in ToolView \cup {NoTool}
    /\ listings \subseteq ToolView \cup {NoTool} /\ Cardinality(listings) <= 2
    /\ toolBusy \in BOOLEAN /\ toolError \in BOOLEAN

(* GET /api/tools. *)
ListTools == [status |-> status, version |-> Len(history)]

ToolsPanelInit ==
    /\ tool = NoTool /\ listings = {ListTools} /\ toolBusy = FALSE /\ toolError = FALSE

(* load(): answered in any order.  Bound: of more than two the earlier are *)
(* lost.                                                                   *)
LoadTools == listings' = IF Cardinality(listings) < 2 THEN listings \cup {ListTools}
                                                      ELSE {ListTools}

ListingArrives(l) ==
    /\ l \in listings /\ tool' = l /\ listings' = listings \ {l}
    /\ UNCHANGED <<toolVars, toolBusy, toolError>>

ListingLost(l) ==
    /\ l \in listings /\ listings' = listings \ {l} /\ toolError' = TRUE
    /\ UNCHANGED <<toolVars, tool, toolBusy>>

(* The rows appear with a listing and are disabled while the panel is busy. *)
Pressable == tool # NoTool /\ ~toolBusy

(* act and rollback: not while one is under way. *)
Press(request) ==
    /\ Pressable /\ request
    /\ toolBusy' = TRUE /\ toolError' = FALSE
    /\ UNCHANGED <<tool, listings>>

(* A row offers Disable when it shows an active tool, Approve otherwise,   *)
(* and Roll back from the second version on.                               *)
Approve == tool.status # "active" /\ Press(SetStatus("active"))
Disable == tool.status = "active" /\ Press(SetStatus("disabled"))
RollBack == tool.version > 1 /\ Press(RollbackTool(tool.version - 1))

ToolRow == Approve \/ Disable \/ RollBack

(* The panel is opened again. *)
ReopenTools ==
    /\ tool' = NoTool /\ toolBusy' = FALSE /\ toolError' = FALSE
    /\ listings' = {ListTools}
    /\ calls' = [i \in DOMAIN calls |-> [calls[i] EXCEPT !.panel = FALSE]]
    /\ UNCHANGED <<status, history, disk, offered, crossed, overtaken>>

(* A handler ends: the panel hears of its own. *)
Answered(i, ok) ==
    IF calls[i].panel
    THEN /\ toolBusy' = FALSE /\ UNCHANGED tool
         /\ IF ok THEN LoadTools /\ UNCHANGED toolError
                  ELSE toolError' = TRUE /\ UNCHANGED listings
    ELSE UNCHANGED toolPanelVars

HandlerStep(i) ==
    \/ (MoveScript(i) \/ ReadActive(i)) /\ UNCHANGED toolPanelVars
    \/ BuildAgent(i) /\ Answered(i, TRUE)

HandlerFails(i) == RebuildFails(i) /\ Answered(i, FALSE)

(* The connection of a request dies: the handler goes on, the panel does   *)
(* not know.                                                               *)
RequestDies(i) ==
    /\ calls[i].panel /\ calls' = [calls EXCEPT ![i].panel = FALSE]
    /\ toolBusy' = FALSE /\ toolError' = TRUE
    /\ UNCHANGED <<status, history, disk, offered, crossed, overtaken, tool, listings>>

ToolServerRestarts ==
    /\ RestartTools
    /\ toolBusy' = FALSE /\ toolError' = (toolError \/ toolBusy)
    /\ UNCHANGED <<tool, listings>>

-----------------------------------------------------------------------------
(* "It stays an inert draft until you read and approve it" (README.md): a  *)
(* tool whose row is not active runs nothing once its handlers are through, *)
(* even if row and file were changed by handlers that crossed and even     *)
(* though a proposal rebuilds no agent, unless two rebuilds overtook each   *)
(* other or one failed.                                                    *)
DraftIsInert ==
    calls = <<>> /\ ~overtaken /\ status # "active" => Runs = NoScript

(* "Activation and disabling take effect immediately and survive restarts" *)
(* (docs/dynamic-tools.md): an approved tool runs its present script, if   *)
(* no other change of the tool, and no crash, fell between the row of the  *)
(* last change and its file.                                               *)
ApprovedRuns ==
    calls = <<>> /\ ~overtaken /\ ~crossed /\ status = "active"
        => Runs = Last(history)
=============================================================================
