---------------------------- MODULE OwnerPanels ----------------------------
(***************************************************************************)
(* The three panels the owner governs Saaya from, each with the services   *)
(* behind it: Tools, Memory, and the schedules of Work.  They share no     *)
(* state, except that memory changes also rebuild the agent that carries   *)
(* the tools (MemoryRebuilds); so a behaviour is about one of them, chosen *)
(* at the start, and the others rest.  The owner acts at most MaxGestures  *)
(* times; answers are lost, calls fail and the server is restarted at most *)
(* MaxFaults times in all, not counting the answers of a change of an item *)
(* or of a schedule's switch, which may always be lost.                    *)
(***************************************************************************)
EXTENDS ToolsPanel, MemoryPanel, Schedules

CONSTANTS MaxGestures, MaxFaults

ASSUME OwnerBounds == MaxGestures \in Nat /\ MaxFaults \in Nat

VARIABLES panel, gestures, faults

toolsPart == <<toolVars, toolPanelVars>>
memoryPart == <<memoryVars, itemVars, memoryPanelVars>>
vars == <<toolsPart, memoryPart, scheduleVars, panel, gestures, faults>>

(* A heartbeat's reflection does to the versions what a requested one does: *)
(* the panel on the versions, on the items, and the heartbeats are parts.  *)
Parts == {"tools", "versions", "heartbeats", "items", "work"}

TypeOK ==
    /\ RegistryTypeOK /\ ToolsPanelTypeOK
    /\ MemoryTypeOK /\ MemoryPanelTypeOK /\ SchedulesTypeOK
    /\ panel \in Parts
    /\ gestures \in 0..MaxGestures /\ faults \in 0..MaxFaults

Init ==
    /\ RegistryInit /\ ToolsPanelInit /\ MemoryInit /\ MemoryPanelInit /\ SchedulesInit
    /\ panel \in Parts /\ gestures = 0 /\ faults = 0

Calm == UNCHANGED <<panel, gestures, faults>>
Gesture == gestures < MaxGestures /\ gestures' = gestures + 1 /\ UNCHANGED <<panel, faults>>
Fault == faults < MaxFaults /\ faults' = faults + 1 /\ UNCHANGED <<panel, gestures>>

InTools == panel = "tools" /\ UNCHANGED <<memoryPart, scheduleVars>>
InVersions == panel = "versions" /\ UNCHANGED <<toolsPart, itemVars, scheduleVars>>
InHeartbeats ==
    panel = "heartbeats" /\ UNCHANGED <<toolsPart, itemVars, memoryPanelVars, scheduleVars>>
InItems == panel = "items" /\ UNCHANGED <<toolsPart, memoryVars, scheduleVars>>
InWork == panel = "work" /\ UNCHANGED <<toolsPart, memoryPart>>

ToolsOwner == Gesture /\ InTools /\ (ToolRow \/ ReopenTools)
ToolsRun ==
    /\ Calm /\ InTools
    /\ \/ (Propose \/ MemoryRebuilds) /\ UNCHANGED toolPanelVars
       \/ (\E i \in DOMAIN calls : HandlerStep(i))
       \/ (\E l \in listings : ListingArrives(l))
ToolsFail ==
    /\ Fault /\ InTools
    /\ \/ ToolServerRestarts
       \/ (\E i \in DOMAIN calls : HandlerFails(i) \/ RequestDies(i))
       \/ (\E l \in listings : ListingLost(l))

(* Opening the Restore dialog is not counted. *)
VersionsOwner ==
    /\ InVersions
    /\ \/ Gesture /\ (ConfirmRestore \/ ReopenMemory)
       \/ Calm /\ \E v \in DOMAIN ledger : OpenPreview(v)
VersionsRun ==
    /\ Calm /\ InVersions
    /\ \/ ReflectOnRequest /\ UNCHANGED memoryPanelVars
       \/ (\E i \in DOMAIN runs : MemoryServes(i))
       \/ PreviewArrives
       \/ (\E o \in overviews : OverviewArrives(o))
VersionsFail ==
    /\ Fault /\ InVersions
    /\ \/ MemoryServerRestarts
       \/ (\E i \in DOMAIN runs : MemoryFails(i))
       \/ (\E o \in overviews : OverviewLost(o))

HeartbeatsRun ==
    /\ Calm /\ InHeartbeats
    /\ \/ BeatStarts \/ BeatReflects
       \/ (\E i \in DOMAIN runs : MemoryRunStep(i))
       \/ (\E t \in Conversations : Turn(t) \/ GoQuiet(t))
HeartbeatsFail ==
    /\ Fault /\ InHeartbeats
    /\ RestartMemory \/ \E i \in DOMAIN runs : RunFails(i)

ItemsOwner ==
    /\ Gesture /\ InItems
    /\ ReopenMemory \/ \E w \in Wordings : ItemRow(w)
ItemsRun ==
    /\ Calm /\ InItems
    /\ LinkCorrection \/ \E o \in overviews : OverviewArrives(o)
ItemsFail ==
    /\ Fault /\ InItems
    /\ MemoryServerRestarts \/ \E o \in overviews : OverviewLost(o)

WorkOwner ==
    /\ Gesture /\ InWork
    /\ (\E s \in Schedule : ToggleSchedule(s)) \/ \E j \in DOMAIN firedBy : RunRetried(j)
Ticks == TickStarts \/ TickChecks \/ TickFires \/ TickMarks
WorkRun ==
    /\ Calm /\ InWork
    /\ \/ Ticks
       \/ (\E s \in Schedule : ClockReaches(s))
       \/ (\E l \in listingsOn : SchedulesArrive(l))
       \/ (\E j \in busyRuns : RunEnds(j))
WorkFail == Fault /\ InWork /\ TickDies

Next ==
    \/ ToolsOwner \/ ToolsRun \/ ToolsFail
    \/ VersionsOwner \/ VersionsRun \/ VersionsFail
    \/ HeartbeatsRun \/ HeartbeatsFail
    \/ ItemsOwner \/ ItemsRun \/ ItemsFail
    \/ WorkOwner \/ WorkRun \/ WorkFail

(* The scheduler beats and the ticker ticks; a heartbeat's reflection is    *)
(* answered and followed by its rebuild, and a synchronous stretch ends.    *)
(* Nothing else is obliged to happen.                                      *)
BeatProgress ==
    \/ BeatStarts \/ BeatReflects
    \/ \E i \in DOMAIN runs : Record(i) \/ (ByBeat(runs[i]) /\ MemoryRunStep(i))
Fairness ==
    /\ WF_vars(Calm /\ InHeartbeats /\ BeatProgress)
    /\ WF_vars(Calm /\ InWork /\ Ticks)

Spec == Init /\ [][Next]_vars /\ Fairness
=============================================================================
