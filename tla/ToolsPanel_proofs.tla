-------------------------- MODULE ToolsPanel_proofs --------------------------
(***************************************************************************)
(* The lifecycle of a tool as far as every step of the Tools panel keeps   *)
(* it: what its row, its file and the agent promise while handlers cross.  *)
(***************************************************************************)
EXTENDS ToolsPanel, Removal_proofs

ToolsStep ==
    \/ ToolRow \/ ReopenTools \/ ToolServerRestarts
    \/ (Propose \/ MemoryRebuilds) /\ UNCHANGED toolPanelVars
    \/ \E i \in DOMAIN calls : HandlerStep(i) \/ HandlerFails(i) \/ RequestDies(i)
    \/ \E l \in listings : ListingArrives(l) \/ ListingLost(l)

(* The bound on the handlers is left out. *)
ToolShape ==
    /\ status \in {"none", "draft", "active", "disabled"}
    /\ history \in Seq(1..MaxVersions) /\ Len(history) <= MaxVersions
    /\ disk \in 0..MaxVersions /\ calls \in Seq(Call)
    /\ offered \in BOOLEAN /\ crossed \in BOOLEAN /\ overtaken \in BOOLEAN

HasVersions == status # "none" => Len(history) > 0

AtMostOne(step) ==
    \A i, j \in DOMAIN calls : calls[i].at = step /\ calls[j].at = step => i = j

(* Only a handler that rebuilds the agent leaves a script. *)
WritersRebuild == \A i \in DOMAIN calls : calls[i].rebuild \/ calls[i].put = NoScript

(* Whether the agent has the tool once the rebuild that has read the active *)
(* tools is through.                                                       *)
OffersNext ==
    IF At("build") THEN \E i \in DOMAIN calls : calls[i].at = "build" /\ calls[i].seen
                   ELSE offered

(* A tool that is not active is on its way out, or out already. *)
GoesInert ==
    status # "active" /\ ~overtaken
        => At("file") \/ At("query") \/ ~OffersNext \/ disk = NoScript

(* An active tool is on its way into the agent, or in it. *)
GetsOffered ==
    status = "active" /\ ~overtaken
        => \/ At("query") \/ OffersNext
           \/ \E i \in DOMAIN calls : calls[i].at = "file" /\ calls[i].rebuild

(* The present script of an active tool is on its way to the file, or there. *)
GetsWritten ==
    status = "active" /\ ~crossed
        => IF At("file")
           THEN \A i \in DOMAIN calls : calls[i].at = "file" => calls[i].put = Last(history)
           ELSE disk = Last(history)

OneBuilds == ~overtaken => AtMostOne("build")
OneWrites == ~crossed => AtMostOne("file")

ToolsInv ==
    /\ ToolShape /\ HasVersions /\ WritersRebuild /\ OneBuilds /\ OneWrites
    /\ GoesInert /\ GetsOffered /\ GetsWritten

-----------------------------------------------------------------------------
(* The steps by what they do to the handlers. *)

(* A handler commits a row. *)
RowChanges(c) ==
    /\ c \in Call /\ c.at = "file" /\ (c.rebuild \/ c.put = NoScript)
    /\ status' \in {"draft", "active", "disabled"}
    /\ history' \in Seq(1..MaxVersions) /\ Len(history') <= MaxVersions /\ Len(history') > 0
    /\ status' = "active" => c.put = Last(history') /\ c.rebuild
    /\ calls' = Append(calls, c) /\ crossed' = At("file")
    /\ UNCHANGED <<disk, offered, overtaken>>

LEMMA LastIsVersion ==
    ASSUME NEW s \in Seq(1..MaxVersions), Len(s) > 0
    PROVE  Last(s) \in 1..MaxVersions
<1>1. Len(s) \in Nat /\ s \in [1..Len(s) -> 1..MaxVersions]
  BY LenProperties
<1>2. Len(s) \in 1..Len(s)
  BY <1>1
<1>3. QED
  BY <1>1, <1>2 DEF Last

LEMMA RowStep ==
    ASSUME ToolShape, HasVersions, ToolRow \/ Propose
    PROVE  \E c \in Call : RowChanges(c)
<1> DEFINE C(put, rebuild, panel) == [at |-> "file", put |-> put, rebuild |-> rebuild,
                                      seen |-> FALSE, panel |-> panel]
<1>1. CASE Propose
  <2>1. C(NoScript, FALSE, FALSE) \in Call
    BY RegistryBounds DEF Call, NoScript
  <2>2. Len(history) + 1 \in 1..MaxVersions
    BY <1>1, RegistryBounds, LenProperties DEF Propose, ToolShape
  <2>3. history' \in Seq(1..MaxVersions) /\ Len(history') = Len(history) + 1
    BY <1>1, <2>2, AppendProperties DEF Propose, ToolShape
  <2>4. RowChanges(C(NoScript, FALSE, FALSE))
    BY <1>1, <2>1, <2>2, <2>3 DEF Propose, Commit, RowChanges
  <2>5. QED
    BY <2>1, <2>4
<1>2. ASSUME NEW to \in {"active", "disabled"}, SetStatus(to) PROVE \E c \in Call : RowChanges(c)
  <2> DEFINE put == IF to = "active" THEN Last(history) ELSE NoScript
  <2>1. Len(history) > 0 /\ Last(history) \in 1..MaxVersions
    BY <1>2, LastIsVersion DEF SetStatus, ToolShape, HasVersions
  <2>2. C(put, TRUE, TRUE) \in Call
    BY <2>1, RegistryBounds DEF Call, NoScript
  <2>3. RowChanges(C(put, TRUE, TRUE))
    BY <1>2, <2>1, <2>2 DEF SetStatus, Commit, RowChanges, ToolShape
  <2>4. QED
    BY <2>2, <2>3
<1>3. ASSUME NEW v, RollbackTool(v) PROVE \E c \in Call : RowChanges(c)
  <2>1. C(NoScript, TRUE, TRUE) \in Call
    BY RegistryBounds DEF Call, NoScript
  <2>2. history[v] \in 1..MaxVersions
    BY <1>3, LenProperties DEF RollbackTool, ToolShape
  <2>3. history' \in Seq(1..MaxVersions) /\ Len(history') = Len(history) + 1
    BY <1>3, <2>2, AppendProperties DEF RollbackTool, ToolShape
  <2>4. Len(history') \in 1..MaxVersions
    BY <1>3, <2>3, RegistryBounds, LenProperties DEF RollbackTool, ToolShape
  <2>5. RowChanges(C(NoScript, TRUE, TRUE))
    BY <1>3, <2>1, <2>3, <2>4 DEF RollbackTool, Commit, RowChanges
  <2>6. QED
    BY <2>1, <2>5
<1>4. QED
  BY <1>1, <1>2, <1>3 DEF ToolRow, Approve, Disable, RollBack, Press, Pressable

(* The handlers are as they were, but for who hears of them. *)
SameHandlers ==
    /\ calls' \in Seq(Call) /\ DOMAIN calls' = DOMAIN calls
    /\ \A k \in DOMAIN calls :
        /\ calls'[k].at = calls[k].at /\ calls'[k].put = calls[k].put
        /\ calls'[k].rebuild = calls[k].rebuild /\ calls'[k].seen = calls[k].seen

LEMMA Unheard ==
    ASSUME ToolShape, ReopenTools \/ \E i \in DOMAIN calls : RequestDies(i)
    PROVE  SameHandlers /\ UNCHANGED <<status, history, disk, offered, crossed, overtaken>>
<1>1. Len(calls) \in Nat /\ DOMAIN calls = 1..Len(calls) /\ calls \in [1..Len(calls) -> Call]
  BY LenProperties DEF ToolShape
<1>2. \A k \in DOMAIN calls : [calls[k] EXCEPT !.panel = FALSE] \in Call
  BY <1>1 DEF Call
<1>3. CASE ReopenTools
  <2>1. calls' = [k \in DOMAIN calls |-> [calls[k] EXCEPT !.panel = FALSE]]
    BY <1>3 DEF ReopenTools
  <2>2. calls' \in [1..Len(calls) -> Call] /\ DOMAIN calls' = DOMAIN calls
    BY <1>1, <1>2, <2>1
  <2>3. calls' \in Seq(Call)
    BY <1>1, <2>2, SeqDef
  <2>4. \A k \in DOMAIN calls : calls'[k] = [calls[k] EXCEPT !.panel = FALSE]
    BY <2>1
  <2>5. QED
    BY <1>1, <1>3, <2>2, <2>3, <2>4 DEF ReopenTools, SameHandlers, Call
<1>4. ASSUME NEW i \in DOMAIN calls, RequestDies(i)
      PROVE  SameHandlers /\ UNCHANGED <<status, history, disk, offered, crossed, overtaken>>
  <2>1. calls' = [calls EXCEPT ![i] = [calls[i] EXCEPT !.panel = FALSE]]
    BY <1>4 DEF RequestDies
  <2>2. calls' \in [1..Len(calls) -> Call] /\ DOMAIN calls' = DOMAIN calls
    BY <1>1, <1>2, <2>1
  <2>3. calls' \in Seq(Call)
    BY <1>1, <2>2, SeqDef
  <2>4. QED
    BY <1>1, <1>4, <2>1, <2>2, <2>3 DEF RequestDies, SameHandlers, Call
<1>5. QED
  BY <1>3, <1>4

(* One handler goes on to its next step. *)
GoesOn(i, c) ==
    /\ calls' \in Seq(Call) /\ DOMAIN calls' = DOMAIN calls
    /\ calls'[i] = c /\ \A k \in DOMAIN calls \ {i} : calls'[k] = calls[k]

(* One handler is over; the others are renumbered. *)
Leaves(i, was) == calls' \in Seq(Call) /\ Rest(calls', calls, i, was)

LEMMA Left ==
    ASSUME ToolShape, NEW i \in DOMAIN calls, calls' = RemoveAt(calls, i)
    PROVE  \E was : Leaves(i, was)
  BY RestOf DEF ToolShape, Leaves

LEMMA WentOn ==
    ASSUME ToolShape, NEW i \in DOMAIN calls, NEW c \in Call, calls' = [calls EXCEPT ![i] = c]
    PROVE  GoesOn(i, c)
<1>1. Len(calls) \in Nat /\ DOMAIN calls = 1..Len(calls) /\ calls \in [1..Len(calls) -> Call]
  BY LenProperties DEF ToolShape
<1>2. calls' \in [1..Len(calls) -> Call]
  BY <1>1
<1>3. QED
  BY <1>1, <1>2, SeqDef DEF GoesOn

-----------------------------------------------------------------------------
(* Each of these keeps the invariant. *)

LEMMA ToolsInitInv == RegistryInit => ToolsInv
<1> SUFFICES ASSUME RegistryInit PROVE ToolsInv
  OBVIOUS
<1>1. calls = <<>> /\ DOMAIN calls = {} /\ ~At("build") /\ ~At("file")
  BY DEF RegistryInit, At
<1>2. 1 \in 1..MaxVersions /\ 0 \in 0..MaxVersions /\ 1 <= MaxVersions /\ 0 <= MaxVersions
  BY RegistryBounds
<1>3. /\ history \in Seq(1..MaxVersions) /\ Len(history) <= MaxVersions
      /\ status # "none" => Len(history) > 0 /\ Last(history) = 1
  <2>1. CASE status = "none"
    BY <1>2, <2>1 DEF RegistryInit
  <2>2. CASE status # "none"
    <3>1. history = <<1>> /\ history \in Seq(1..MaxVersions) /\ Len(history) = 1
      BY <1>2, <2>2 DEF RegistryInit
    <3>2. QED
      BY <1>2, <3>1 DEF Last
  <2>3. QED
    BY <2>1, <2>2
<1>4. offered \in BOOLEAN /\ (offered <=> status = "active")
  BY DEF RegistryInit
<1>5. disk \in 0..MaxVersions /\ (status = "active" => disk = 1)
      /\ (status # "active" => disk = NoScript)
  BY <1>2, <1>4 DEF RegistryInit, NoScript
<1>6. ToolShape /\ HasVersions
  <2>1. calls \in Seq(Call)
    BY <1>1
  <2>2. QED
    BY <1>3, <1>4, <1>5, <2>1 DEF RegistryInit, ToolShape, HasVersions
<1>7. WritersRebuild /\ OneBuilds /\ OneWrites
  BY <1>1 DEF WritersRebuild, OneBuilds, OneWrites, AtMostOne
<1>8. GoesInert /\ GetsOffered /\ GetsWritten
  BY <1>1, <1>3, <1>4, <1>5 DEF GoesInert, GetsOffered, GetsWritten, OffersNext
<1>9. QED
  BY <1>6, <1>7, <1>8 DEF ToolsInv

LEMMA RowKeeps ==
    ASSUME ToolsInv, NEW c \in Call, RowChanges(c)
    PROVE  ToolsInv'
<1> DEFINE n == Len(calls) + 1
<1>1. /\ calls' \in Seq(Call) /\ DOMAIN calls' = DOMAIN calls \cup {n} /\ n \notin DOMAIN calls
      /\ calls'[n] = c /\ \A k \in DOMAIN calls : calls'[k] = calls[k]
  BY Appended DEF RowChanges, ToolsInv, ToolShape
<1> HIDE DEF n
<1>2. c.at = "file" /\ (c.rebuild \/ c.put = NoScript)
  BY DEF RowChanges
<1>3. At("file")' /\ (At("query") => At("query")') /\ (At("build") <=> At("build")')
  BY <1>1, <1>2 DEF At
<1>4. OffersNext' = OffersNext
  BY <1>1, <1>2, <1>3 DEF OffersNext, RowChanges
<1>5. ToolShape' /\ HasVersions' /\ WritersRebuild'
  <2>1. crossed' \in BOOLEAN
    BY Zenon DEF RowChanges, At
  <2>2. ToolShape'
    BY <1>1, <2>1 DEF RowChanges, ToolsInv, ToolShape
  <2>3. HasVersions'
    BY DEF RowChanges, HasVersions
  <2>4. WritersRebuild'
    BY <1>1, <1>2 DEF RowChanges, ToolsInv, WritersRebuild
  <2>5. QED
    BY <2>2, <2>3, <2>4
<1>6. OneBuilds'
  BY <1>1, <1>2 DEF RowChanges, ToolsInv, OneBuilds, AtMostOne
<1>7. crossed' = FALSE => \A i \in DOMAIN calls : calls[i].at # "file"
  BY DEF RowChanges, At
<1>8. OneWrites'
  BY <1>1, <1>2, <1>7 DEF RowChanges, OneWrites, AtMostOne, ToolsInv, ToolShape
<1>9. GoesInert'
  BY <1>3 DEF GoesInert
<1>10. GetsOffered'
  BY <1>1, <1>2 DEF RowChanges, GetsOffered
<1>11. GetsWritten'
  BY <1>1, <1>2, <1>3, <1>7 DEF RowChanges, GetsWritten
<1>12. QED
  BY <1>5, <1>6, <1>8, <1>9, <1>10, <1>11 DEF ToolsInv

LEMMA UnheardKeeps ==
    ASSUME ToolsInv, SameHandlers, UNCHANGED <<status, history, disk, offered, crossed, overtaken>>
    PROVE  ToolsInv'
<1>1. \A step : At(step)' <=> At(step)
  BY DEF At, SameHandlers
<1>2. OffersNext' <=> OffersNext
  BY <1>1 DEF OffersNext, SameHandlers
<1>3. ToolShape' /\ HasVersions' /\ WritersRebuild' /\ OneBuilds' /\ OneWrites'
  BY DEF ToolsInv, ToolShape, HasVersions, WritersRebuild, OneBuilds, OneWrites, AtMostOne,
         SameHandlers
<1>4. GoesInert'
  BY <1>1, <1>2 DEF ToolsInv, GoesInert
<1>5. GetsOffered'
  BY <1>1, <1>2 DEF ToolsInv, GetsOffered, SameHandlers
<1>6. GetsWritten'
  BY <1>1 DEF ToolsInv, GetsWritten, SameHandlers
<1>7. QED
  BY <1>3, <1>4, <1>5, <1>6 DEF ToolsInv

LEMMA RebuildComes ==
    ASSUME ToolsInv, MemoryRebuilds
    PROVE  ToolsInv'
<1> DEFINE n == Len(calls) + 1
           c == [at |-> "query", put |-> NoScript, rebuild |-> TRUE, seen |-> FALSE,
                 panel |-> FALSE]
<1>1. c \in Call
  BY RegistryBounds DEF Call, NoScript
<1>2. /\ calls' \in Seq(Call) /\ DOMAIN calls' = DOMAIN calls \cup {n} /\ n \notin DOMAIN calls
      /\ calls'[n] = c /\ \A k \in DOMAIN calls : calls'[k] = calls[k]
  BY <1>1, Appended DEF MemoryRebuilds, ToolsInv, ToolShape
<1>3. c.at = "query" /\ c.rebuild
  OBVIOUS
<1> HIDE DEF n, c
<1>4. At("query")' /\ (At("file") <=> At("file")') /\ (At("build") <=> At("build")')
  BY <1>2, <1>3 DEF At
<1>5. ToolShape' /\ HasVersions' /\ WritersRebuild'
  BY <1>2, <1>3 DEF MemoryRebuilds, ToolsInv, ToolShape, HasVersions, WritersRebuild
<1>6. OneBuilds' /\ OneWrites'
  BY <1>2, <1>3 DEF MemoryRebuilds, ToolsInv, OneBuilds, OneWrites, AtMostOne
<1>7. GoesInert' /\ GetsOffered'
  BY <1>4 DEF GoesInert, GetsOffered
<1>8. GetsWritten'
  BY <1>2, <1>3, <1>4 DEF MemoryRebuilds, ToolsInv, GetsWritten
<1>9. QED
  BY <1>5, <1>6, <1>7, <1>8 DEF ToolsInv

LEMMA MoveKeeps ==
    ASSUME ToolsInv, NEW i \in DOMAIN calls, MoveScript(i), calls[i].rebuild
    PROVE  ToolsInv'
<1> DEFINE c == [calls[i] EXCEPT !.at = "query"]
<1>1. calls[i] \in Call /\ calls[i].at = "file"
  BY LenProperties DEF MoveScript, ToolsInv, ToolShape
<1>2. c \in Call /\ c.at = "query" /\ c.rebuild /\ c.put = calls[i].put
  BY <1>1 DEF Call
<1>3. GoesOn(i, c)
  BY <1>2, WentOn DEF MoveScript, ToolsInv
<1> HIDE DEF c
<1>4. At("query")' /\ (At("build") <=> At("build")')
  BY <1>1, <1>2, <1>3 DEF GoesOn, At
<1>5. ToolShape' /\ HasVersions' /\ WritersRebuild'
  BY <1>1, <1>2, <1>3 DEF GoesOn, MoveScript, ToolsInv, ToolShape, HasVersions,
                          WritersRebuild, Call
<1>6. OneBuilds' /\ OneWrites'
  BY <1>2, <1>3 DEF GoesOn, MoveScript, ToolsInv, OneBuilds, OneWrites, AtMostOne
<1>7. GoesInert' /\ GetsOffered'
  BY <1>4 DEF GoesInert, GetsOffered
<1>8. GetsWritten'
  <2> SUFFICES ASSUME status = "active", ~crossed
               PROVE  ~At("file")' /\ disk' = Last(history')
    BY DEF GetsWritten, MoveScript
  <2>1. ~At("file")'
    BY <1>1, <1>2, <1>3 DEF GoesOn, At, ToolsInv, OneWrites, AtMostOne
  <2>2. disk' = Last(history')
    BY <1>1 DEF MoveScript, ToolsInv, GetsWritten, At
  <2>3. QED
    BY <2>1, <2>2
<1>9. QED
  BY <1>5, <1>6, <1>7, <1>8 DEF ToolsInv

(* What stays true of the handlers when one of them is over. *)
LEMMA LeavingKeeps ==
    ASSUME ToolShape, WritersRebuild, NEW i \in DOMAIN calls, NEW was, Leaves(i, was)
    PROVE  /\ calls' \in Seq(Call) /\ WritersRebuild'
           /\ \A step : AtMostOne(step) => AtMostOne(step)'
           /\ \A step : At(step)' => At(step)
           /\ \A step : calls[i].at # step => (At(step)' <=> At(step))
           /\ \A step : calls[i].at = step /\ AtMostOne(step) => ~At(step)'
<1>1. calls' \in Seq(Call) /\ WritersRebuild'
  BY DEF Leaves, Rest, WritersRebuild
<1>2. \A step : AtMostOne(step) => AtMostOne(step)'
  BY DEF Leaves, Rest, AtMostOne
<1>3. \A step : At(step)' => At(step)
  BY DEF Leaves, Rest, At
<1>4. ASSUME NEW step, calls[i].at # step, At(step) PROVE At(step)'
  <2>1. PICK j \in DOMAIN calls \ {i} : calls[j].at = step
    BY <1>4 DEF At
  <2>2. PICK k \in DOMAIN calls' : was[k] = j /\ calls'[k] = calls[j]
    BY <2>1 DEF Leaves, Rest
  <2>3. QED
    BY <2>1, <2>2 DEF At
<1>5. ASSUME NEW step, calls[i].at = step, AtMostOne(step) PROVE ~At(step)'
  BY <1>5 DEF Leaves, Rest, At, AtMostOne
<1>6. QED
  BY <1>1, <1>2, <1>3, <1>4, <1>5

LEMMA UnrebuiltMoveKeeps ==
    ASSUME ToolsInv, NEW i \in DOMAIN calls, MoveScript(i), ~calls[i].rebuild
    PROVE  ToolsInv'
<1>1. calls[i] \in Call /\ calls[i].at = "file" /\ disk' = NoScript
  BY LenProperties DEF MoveScript, ToolsInv, ToolShape, WritersRebuild
<1>2. PICK was : Leaves(i, was)
  BY Left DEF MoveScript, ToolsInv
<1>3. calls' \in Seq(Call) /\ WritersRebuild'
  BY <1>2, LeavingKeeps DEF ToolsInv
<1>4. /\ AtMostOne("build") => AtMostOne("build")'
      /\ AtMostOne("file") => AtMostOne("file")' /\ ~At("file")'
      /\ At("query")' <=> At("query")
      /\ At("build")' <=> At("build")
  BY <1>1, <1>2, LeavingKeeps DEF ToolsInv
<1>5. ToolShape' /\ HasVersions' /\ OneBuilds' /\ OneWrites'
  BY <1>1, <1>3, <1>4 DEF MoveScript, ToolsInv, ToolShape, HasVersions, OneBuilds, OneWrites,
                          NoScript, Call
<1>6. GoesInert'
  BY <1>1 DEF GoesInert
<1>7. GetsOffered'
  <2> SUFFICES ASSUME status = "active", ~overtaken,
                      ~At("query")', ~OffersNext'
               PROVE  \E k \in DOMAIN calls' : calls'[k].at = "file" /\ calls'[k].rebuild
    BY DEF GetsOffered, MoveScript
  <2>1. ~At("query") /\ ~OffersNext
    <3>1. CASE At("build")
      <4>1. PICK j \in DOMAIN calls : calls[j].at = "build" /\ (OffersNext => calls[j].seen)
        BY <3>1 DEF OffersNext, At
      <4>2. PICK k \in DOMAIN calls' : calls'[k] = calls[j]
        BY <1>1, <1>2, <4>1 DEF Leaves, Rest
      <4>3. QED
        BY <1>4, <3>1, <4>1, <4>2 DEF OffersNext
    <3>2. CASE ~At("build")
      BY <1>4, <3>2 DEF OffersNext, MoveScript
    <3>3. QED
      BY <1>4, <3>1, <3>2
  <2>2. PICK j \in DOMAIN calls : calls[j].at = "file" /\ calls[j].rebuild
    BY <2>1 DEF ToolsInv, GetsOffered
  <2>3. PICK k \in DOMAIN calls' : calls'[k] = calls[j]
    BY <1>2, <2>2 DEF Leaves, Rest
  <2>4. QED
    BY <2>2, <2>3
<1>8. GetsWritten'
  <2> SUFFICES ASSUME status = "active", ~crossed
               PROVE  ~At("file")' /\ disk' = Last(history')
    BY DEF GetsWritten, MoveScript
  <2>1. ~At("file")'
    BY <1>4 DEF ToolsInv, OneWrites
  <2>2. disk' = Last(history')
    BY <1>1 DEF MoveScript, ToolsInv, GetsWritten, At
  <2>3. QED
    BY <2>1, <2>2
<1>9. QED
  BY <1>3, <1>5, <1>6, <1>7, <1>8 DEF ToolsInv

LEMMA ReadKeeps ==
    ASSUME ToolsInv, NEW i \in DOMAIN calls, ReadActive(i)
    PROVE  ToolsInv'
<1> DEFINE active == status = "active"
           c == [calls[i] EXCEPT !.at = "build", !.seen = active]
<1>1. calls[i] \in Call /\ calls[i].at = "query" /\ active \in BOOLEAN
  BY LenProperties DEF ReadActive, ToolsInv, ToolShape
<1> HIDE DEF active
<1>2. /\ c \in Call /\ c.at = "build" /\ c.put = calls[i].put
      /\ c.rebuild = calls[i].rebuild /\ c.seen = active
  BY <1>1 DEF Call
<1>3. calls' = [calls EXCEPT ![i] = c]
  BY DEF ReadActive, active
<1>4. GoesOn(i, c)
  BY <1>2, <1>3, WentOn DEF ToolsInv
<1> HIDE DEF c
<1>5. overtaken' <=> At("build")
  BY DEF ReadActive
<1>6. At("build")' /\ (At("file")' <=> At("file"))
  BY <1>1, <1>2, <1>4 DEF GoesOn, At
<1>7. ~overtaken' => \A k \in DOMAIN calls' : calls'[k].at = "build" => k = i
  BY <1>4, <1>5 DEF GoesOn, At
<1>8. ~overtaken' => (OffersNext' <=> status = "active")
  BY <1>2, <1>4, <1>6, <1>7 DEF GoesOn, OffersNext, active
<1>9. ToolShape'
  <2>1. overtaken' \in BOOLEAN
    BY Zenon DEF ReadActive, At
  <2>2. QED
    BY <1>4, <2>1 DEF ReadActive, GoesOn, ToolsInv, ToolShape
<1>10. HasVersions' /\ WritersRebuild'
  BY <1>2, <1>4 DEF ReadActive, GoesOn, ToolsInv, HasVersions, WritersRebuild
<1>11. OneBuilds'
  BY <1>7 DEF OneBuilds, AtMostOne
<1>12. OneWrites'
  BY <1>2, <1>4 DEF ReadActive, GoesOn, ToolsInv, OneWrites, AtMostOne
<1>13. GoesInert' /\ GetsOffered'
  BY <1>8 DEF ReadActive, GoesInert, GetsOffered
<1>14. GetsWritten'
  BY <1>2, <1>4, <1>6 DEF ReadActive, GoesOn, ToolsInv, GetsWritten
<1>15. QED
  BY <1>9, <1>10, <1>11, <1>12, <1>13, <1>14 DEF ToolsInv

(* What a step that only ends a handler without a script leaves to the file. *)
LEMMA FileWaits ==
    ASSUME ToolsInv, NEW i \in DOMAIN calls, NEW was, Leaves(i, was), calls[i].at # "file",
           UNCHANGED <<status, history, disk, crossed>>
    PROVE  GetsWritten' /\ OneWrites'
<1>1. (At("file")' <=> At("file")) /\ (AtMostOne("file") => AtMostOne("file")')
  BY LeavingKeeps DEF ToolsInv
<1>2. QED
  BY <1>1 DEF ToolsInv, GetsWritten, OneWrites, Leaves, Rest

LEMMA BuildKeeps ==
    ASSUME ToolsInv, NEW i \in DOMAIN calls, BuildAgent(i)
    PROVE  ToolsInv'
<1>1. calls[i] \in Call /\ calls[i].at = "build"
  BY LenProperties DEF BuildAgent, ToolsInv, ToolShape
<1>2. PICK was : Leaves(i, was)
  BY Left DEF BuildAgent, ToolsInv
<1>3. calls' \in Seq(Call) /\ WritersRebuild'
  BY <1>2, LeavingKeeps DEF ToolsInv
<1>4. /\ AtMostOne("build") => AtMostOne("build")' /\ ~At("build")'
      /\ (At("file")' <=> At("file")) /\ (At("query")' <=> At("query"))
  BY <1>1, <1>2, LeavingKeeps DEF ToolsInv
<1>5. ToolShape' /\ HasVersions' /\ OneBuilds'
  BY <1>1, <1>3, <1>4 DEF BuildAgent, ToolsInv, ToolShape, HasVersions, OneBuilds, Call
<1>6. ~overtaken => (OffersNext' <=> OffersNext)
  <2> SUFFICES ASSUME ~overtaken PROVE OffersNext' <=> OffersNext
    OBVIOUS
  <2>1. OffersNext <=> calls[i].seen
    BY <1>1 DEF OffersNext, At, ToolsInv, OneBuilds, AtMostOne
  <2>2. OffersNext' <=> calls[i].seen
    BY <1>4 DEF BuildAgent, OffersNext, ToolsInv, OneBuilds
  <2>3. QED
    BY <2>1, <2>2
<1>7. GoesInert'
  BY <1>4, <1>6 DEF BuildAgent, ToolsInv, GoesInert
<1>8. GetsOffered'
  BY <1>1, <1>2, <1>4, <1>6 DEF BuildAgent, ToolsInv, GetsOffered, Leaves, Rest
<1>9. GetsWritten' /\ OneWrites'
  BY <1>1, <1>2, FileWaits DEF BuildAgent
<1>10. QED
  BY <1>3, <1>5, <1>7, <1>8, <1>9 DEF ToolsInv

LEMMA FailKeeps ==
    ASSUME ToolsInv, NEW i \in DOMAIN calls, RebuildFails(i)
    PROVE  ToolsInv'
<1>1. PICK was : Leaves(i, was)
  BY Left DEF RebuildFails, ToolsInv
<1>2. calls' \in Seq(Call) /\ WritersRebuild'
  BY <1>1, LeavingKeeps DEF ToolsInv
<1>3. ToolShape' /\ HasVersions'
  BY <1>2 DEF RebuildFails, ToolsInv, ToolShape, HasVersions
<1>4. OneBuilds' /\ GoesInert' /\ GetsOffered'
  BY DEF RebuildFails, OneBuilds, GoesInert, GetsOffered
<1>5. GetsWritten' /\ OneWrites'
  BY <1>1, FileWaits DEF RebuildFails
<1>6. QED
  BY <1>2, <1>3, <1>4, <1>5 DEF ToolsInv

LEMMA RestartKeeps ==
    ASSUME ToolsInv, RestartTools
    PROVE  ToolsInv'
<1>1. calls' = <<>> /\ DOMAIN calls' = {} /\ calls' \in Seq(Call)
  BY DEF RestartTools
<1>2. ~At("build")' /\ ~At("file")'
  BY <1>1 DEF At
<1>3. offered' \in BOOLEAN /\ (offered' <=> status = "active")
  BY DEF RestartTools
<1>4. crossed' \in BOOLEAN /\ (crossed' <=> crossed \/ At("file"))
  <2>1. crossed \in BOOLEAN
    BY DEF ToolsInv, ToolShape
  <2>2. QED
    BY <2>1, Zenon DEF RestartTools, At
<1>5. ToolShape' /\ HasVersions'
  BY <1>1, <1>3, <1>4 DEF RestartTools, ToolsInv, ToolShape, HasVersions
<1>6. WritersRebuild' /\ OneBuilds' /\ OneWrites'
  BY <1>1 DEF WritersRebuild, OneBuilds, OneWrites, AtMostOne
<1>7. GoesInert' /\ GetsOffered'
  BY <1>2, <1>3 DEF RestartTools, GoesInert, GetsOffered, OffersNext
<1>8. GetsWritten'
  BY <1>2, <1>4 DEF RestartTools, ToolsInv, GetsWritten
<1>9. QED
  BY <1>5, <1>6, <1>7, <1>8 DEF ToolsInv

LEMMA ToolsKeep ==
    ASSUME ToolsInv, ToolsStep \/ UNCHANGED toolVars
    PROVE  ToolsInv'
<1>1. CASE UNCHANGED toolVars
  BY <1>1 DEF toolVars, ToolsInv, ToolShape, HasVersions, WritersRebuild, OneBuilds, OneWrites,
     AtMostOne, GoesInert, GetsOffered, GetsWritten, OffersNext, At
<1>2. CASE ToolRow \/ Propose
  BY <1>2, RowStep, RowKeeps DEF ToolsInv
<1>3. CASE ReopenTools \/ \E i \in DOMAIN calls : RequestDies(i)
  BY <1>3, Unheard, UnheardKeeps DEF ToolsInv
<1>4. CASE MemoryRebuilds
  BY <1>4, RebuildComes
<1>5. ASSUME NEW i \in DOMAIN calls, MoveScript(i) PROVE ToolsInv'
  BY <1>5, MoveKeeps, UnrebuiltMoveKeeps
<1>6. ASSUME NEW i \in DOMAIN calls, ReadActive(i) \/ BuildAgent(i) \/ RebuildFails(i)
      PROVE  ToolsInv'
  BY <1>6, ReadKeeps, BuildKeeps, FailKeeps
<1>7. CASE RestartTools
  BY <1>7, RestartKeeps
<1>8. ASSUME NEW l, ListingArrives(l) \/ ListingLost(l) PROVE UNCHANGED toolVars
  BY <1>8 DEF ListingArrives, ListingLost
<1>9. QED
  BY <1>1, <1>2, <1>3, <1>4, <1>5, <1>6, <1>7, <1>8
     DEF ToolsStep, HandlerStep, HandlerFails, ToolServerRestarts

LEMMA InertAndApproved == ToolsInv => DraftIsInert /\ ApprovedRuns
<1> SUFFICES ASSUME ToolsInv, calls = <<>>, ~overtaken
             PROVE  /\ status # "active" => Runs = NoScript
                    /\ ~crossed /\ status = "active" => Runs = Last(history)
  BY DEF DraftIsInert, ApprovedRuns
<1>1. ~At("file") /\ ~At("query") /\ ~At("build") /\ DOMAIN calls = {}
  BY DEF At
<1>2. QED
  BY <1>1 DEF ToolsInv, GoesInert, GetsOffered, GetsWritten, OffersNext, Runs, NoScript
=============================================================================
