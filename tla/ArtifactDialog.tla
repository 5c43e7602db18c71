--------------------------- MODULE ArtifactDialog ---------------------------
(***************************************************************************)
(* The artifacts of a job, opened in place (artifact-list.tsx): a modal    *)
(* dialog whose text is fetched when it opens, from the workspace the job  *)
(* may still write to (artifact_content of job_routes.py).  An answer is   *)
(* not tied to the opening that asked for it.                              *)
(***************************************************************************)
EXTENDS Naturals

CONSTANTS
    Artifacts,
    MaxFetches   \* bound: requests for one artifact on their way

ASSUME ArtifactsAssumption ==
    MaxFetches \in Nat \ {0} /\ {"none", "loading", "unreadable"} \cap Artifacts = {}

VARIABLES
    dialog,    \* the artifact in the title, "none" when closed
    content,   \* "loading", the text of an artifact, or that it was unreadable
    fetches,   \* per artifact, the requests on their way
    onDisk     \* the artifacts whose file can be read
artifactVars == <<dialog, content, fetches, onDisk>>

ArtifactTypeOK ==
    /\ dialog \in Artifacts \cup {"none"}
    /\ content \in Artifacts \cup {"loading", "unreadable"}
    /\ fetches \in [Artifacts -> 0..MaxFetches] /\ onDisk \subseteq Artifacts

ArtifactInit ==
    /\ dialog = "none" /\ content = "loading" /\ onDisk = Artifacts
    /\ fetches = [a \in Artifacts |-> 0]

show(a) ==   \* up to the fetch
    /\ fetches[a] < MaxFetches
    /\ dialog' = a /\ content' = "loading"
    /\ fetches' = [fetches EXCEPT ![a] = @ + 1]
    /\ UNCHANGED onDisk

(* The list, which the dialog covers. *)
ArtifactList == \E a \in Artifacts : dialog = "none" /\ show(a)

Close == dialog # "none" /\ dialog' = "none" /\ UNCHANGED <<content, fetches, onDisk>>

Arrived(a) == fetches[a] > 0 /\ fetches' = [fetches EXCEPT ![a] = @ - 1]

(* The text, or a 404 when the file is gone. *)
Text(a) == IF a \in onDisk THEN a ELSE "unreadable"

\* Mutant: nothing is said of an artifact that could not be read.
FetchAnsweredOk(a) ==
    /\ Arrived(a) /\ content' = IF a \in onDisk THEN a ELSE content
    /\ UNCHANGED <<dialog, onDisk>>

FetchAnswered(a) == Arrived(a) /\ content' = Text(a) /\ UNCHANGED <<dialog, onDisk>>

FetchLost(a) == Arrived(a) /\ content' = "unreadable" /\ UNCHANGED <<dialog, onDisk>>

(* The job removes a file, or writes it again. *)
FileTurns(a) ==
    /\ onDisk' = IF a \in onDisk THEN onDisk \ {a} ELSE onDisk \cup {a}
    /\ UNCHANGED <<dialog, content, fetches>>

Fetches == \E a \in Artifacts : FetchAnswered(a) \/ FetchLost(a)
ArtifactNext == Fetches \/ Close \/ ArtifactList \/ \E a \in Artifacts : FileTurns(a)

-----------------------------------------------------------------------------
DialogContent == IF dialog = "none" THEN "closed" ELSE content

(* "Nothing spins forever" (docs/MANUAL-TEST-PLAN.md): a dialog that stays *)
(* open stops loading, whether its file is there, its request is lost, or  *)
(* it was closed and opened over older requests.                           *)
DialogSettles ==
    DialogContent = "loading" ~> DialogContent # "loading"
=============================================================================
