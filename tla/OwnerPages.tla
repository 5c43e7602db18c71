----------------------------- MODULE OwnerPages -----------------------------
(***************************************************************************)
(* The panels the owner governs Saaya from (OwnerPanels), and what the     *)
(* owner only reads: the story of a job, its artifacts, the heartbeats and *)
(* the times on the page.  These change nothing on the server and share no *)
(* state, so a behaviour is about the panels or about one of them, chosen  *)
(* at the start, and the others rest.                                      *)
(***************************************************************************)
EXTENDS OwnerPanels, JobStory, PageTimes, ArtifactDialog, HeartbeatList

VARIABLE page

Pages == {"panels", "story", "artifacts", "heartbeats", "times"}

readings == <<storyVars, timeVars, artifactVars, beatListVars>>
pageVars == <<vars, readings, page>>

PagesTypeOK ==
    /\ TypeOK /\ page \in Pages
    /\ StoryTypeOK /\ TimesTypeOK /\ ArtifactTypeOK /\ BeatListTypeOK

(* While the owner reads, the panels are as one of their behaviours begins. *)
PagesInit ==
    /\ Init /\ StoryInit /\ TimesInit /\ ArtifactInit /\ BeatListInit
    /\ page \in Pages
    /\ page # "panels" => panel = "tools" /\ status = "none" /\ enabled = {}
    /\ page # "times" => shifted = 1 /\ by = 0

InPanels == page = "panels" /\ UNCHANGED <<readings, page>>
OnPanels == InPanels /\ Next
OnStory ==
    /\ page = "story" /\ StoryNext
    /\ UNCHANGED <<vars, timeVars, artifactVars, beatListVars, page>>
OnArtifacts ==
    /\ page = "artifacts" /\ ArtifactNext
    /\ UNCHANGED <<vars, storyVars, timeVars, beatListVars, page>>
OnHeartbeats ==
    /\ page = "heartbeats" /\ BeatListNext
    /\ UNCHANGED <<vars, storyVars, timeVars, artifactVars, page>>
OnTimes ==
    /\ page = "times" /\ TimesNext
    /\ UNCHANGED <<vars, storyVars, artifactVars, beatListVars, page>>

PagesNext == OnPanels \/ OnStory \/ OnArtifacts \/ OnHeartbeats \/ OnTimes

(* The panels' fairness, on their page; and a request of the dialog is     *)
(* answered or fails.                                                      *)
PagesFairness ==
    /\ WF_pageVars(InPanels /\ Calm /\ InHeartbeats /\ BeatProgress)
    /\ WF_pageVars(InPanels /\ Calm /\ InWork /\ Ticks)
    /\ WF_pageVars(OnArtifacts /\ Fetches)

PagesSpec == PagesInit /\ [][PagesNext]_pageVars /\ PagesFairness
=============================================================================
