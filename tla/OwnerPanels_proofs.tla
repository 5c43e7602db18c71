------------------------- MODULE OwnerPanels_proofs -------------------------
(***************************************************************************)
(* Theorems about the owner's panels, for every number of versions,        *)
(* handlers, conversations, schedules, gestures and faults.                *)
(***************************************************************************)
EXTENDS OwnerPanels, ToolsPanel_proofs, MemoryPanel_proofs

-----------------------------------------------------------------------------
(* Schedules: what the ticker keeps, for any number of fires. *)

(* A step of the schedules. *)
SchedulesStep ==
    \/ TickStarts \/ TickChecks \/ TickFires \/ TickMarks \/ TickDies
    \/ \E s \in Schedule : ClockReaches(s) \/ ToggleSchedule(s)
    \/ \E l \in listingsOn : SchedulesArrive(l)
    \/ \E j \in busyRuns : RunEnds(j)
    \/ \E j \in DOMAIN firedBy : RunRetried(j)

Ticking(s) == \E i \in DOMAIN tick : tick[i].of = s
Marking(s) == tick # <<>> /\ stage = "mark" /\ Of = s
Firing(s) == tick # <<>> /\ stage = "fire" /\ Of = s

(* A tick goes through schedules that differ, each as mark_fired left it. *)
TickIsCurrent ==
    /\ \A i \in DOMAIN tick : tick[i].last = lastJob[tick[i].of]
    /\ \A i, k \in DOMAIN tick : tick[i].of = tick[k].of => i = k

(* The one job of a schedule that may be busy is the last one recorded; none *)
(* is between the check and the fire, and the new one until it is recorded. *)
OnlyLastIsBusy ==
    \A s \in Schedule \ disturbed : \A j \in busyRuns :
        firedBy[j] = s => /\ ~Firing(s)
                          /\ IF Marking(s) THEN j = Len(firedBy) ELSE j = lastJob[s]

(* A one-shot schedule that may fire has been switched on for it: what is    *)
(* armed and what has fired is no more than how often it was switched on.   *)
Armed(s) == ~Marking(s) /\ (s \in enabled \/ Ticking(s))
Fires(s) == {j \in DOMAIN firedBy : firedBy[j] = s}
ArmedOnce ==
    \A s \in OneShot \ disturbed :
        Cardinality(Fires(s)) + (IF Armed(s) THEN 1 ELSE 0) <= switchings[s]

(* What was switched on anew is not due, and no tick has it. *)
FreshIsAhead == \A s \in fresh : s \notin due /\ ~Ticking(s)

-----------------------------------------------------------------------------
LEMMA ScheduleIsFinite == IsFiniteSet(Schedule)
  BY SchedulesAssumption, FS_Union DEF Schedule

(* What is left of a tick after its first schedule. *)
LEMMA RestOfTick ==
    ASSUME SchedulesTypeOK, TickIsCurrent, tick # <<>>
    PROVE  /\ Of \in Schedule /\ Ticking(Of)
           /\ Head(tick).last = lastJob[Of]
           /\ Tail(tick) \in Seq([of : Schedule, last : 0..MaxFires])
           /\ \A i \in DOMAIN Tail(tick) : /\ Tail(tick)[i] = tick[i + 1]
                                           /\ i + 1 \in DOMAIN tick
                                           /\ Tail(tick)[i].of \in Schedule \ {Of}
<1>1. /\ tick \in Seq([of : Schedule, last : 0..MaxFires])
      /\ Len(tick) \in Nat \ {0} /\ Head(tick) = tick[1] /\ 1 \in DOMAIN tick
  BY DEF SchedulesTypeOK
<1>2. tick \in [1..Len(tick) -> [of : Schedule, last : 0..MaxFires]]
  BY <1>1, LenProperties
<1>3. Of \in Schedule /\ Ticking(Of) /\ Head(tick).last = lastJob[Of]
  <2>1. tick[1] \in [of : Schedule, last : 0..MaxFires]
    BY <1>1, <1>2
  <2>2. Of = tick[1].of /\ Head(tick).last = tick[1].last
    BY <1>1 DEF Of
  <2>3. QED
    BY <1>1, <2>1, <2>2 DEF Ticking, TickIsCurrent
<1>4. Tail(tick) \in Seq([of : Schedule, last : 0..MaxFires])
  BY <1>1
<1>5. ASSUME NEW i \in DOMAIN Tail(tick)
      PROVE  Tail(tick)[i] = tick[i + 1] /\ i + 1 \in DOMAIN tick /\ i + 1 # 1
  BY <1>1
<1>6. ASSUME NEW i \in DOMAIN Tail(tick) PROVE Tail(tick)[i].of \in Schedule \ {Of}
  <2>1. tick[i + 1] \in [of : Schedule, last : 0..MaxFires]
    BY <1>5, <1>2
  <2>2. tick[i + 1].of # tick[1].of
    BY <1>1, <1>5 DEF TickIsCurrent
  <2>3. QED
    BY <1>1, <1>5, <2>1, <2>2 DEF Of
<1>7. QED
  BY <1>3, <1>4, <1>5, <1>6

(* A tick that starts lists due schedules, each once, with their last jobs. *)
LEMMA NewTick ==
    ASSUME SchedulesTypeOK, TickStarts
    PROVE  /\ tick' \in Seq([of : Schedule, last : 0..MaxFires])
           /\ TickIsCurrent'
           /\ \A i \in DOMAIN tick' : tick'[i].of \in due \cap enabled
<1> DEFINE S == due \cap enabled
<1>1. IsFiniteSet(S) /\ S \subseteq Schedule
  BY ScheduleIsFinite, FS_Subset DEF SchedulesTypeOK
<1>2. Cardinality(S) \in Nat
  BY <1>1, FS_CardinalityType
<1>3. PICK order \in SetToSeqs(S) :
        tick' = [i \in DOMAIN order |-> [of |-> order[i], last |-> lastJob[order[i]]]]
  BY DEF TickStarts
<1>4. /\ order \in [1..Cardinality(S) -> S]
      /\ \A i, k \in 1..Cardinality(S) : i # k => order[i] # order[k]
  BY <1>3 DEF SetToSeqs
<1>5. lastJob \in [Schedule -> 0..MaxFires] /\ lastJob' = lastJob
  BY DEF SchedulesTypeOK, TickStarts
<1>6. \A i \in DOMAIN tick' : /\ tick'[i] \in [of : Schedule, last : 0..MaxFires]
                              /\ tick'[i].of = order[i] /\ order[i] \in S
                              /\ tick'[i].last = lastJob[order[i]]
  BY <1>1, <1>3, <1>4, <1>5
<1>7. DOMAIN tick' = 1..Cardinality(S)
  BY <1>3, <1>4
<1>8. tick' \in Seq([of : Schedule, last : 0..MaxFires])
  <2>1. tick' = [i \in 1..Cardinality(S) |-> tick'[i]]
    BY <1>3, <1>7
  <2>2. tick' \in [1..Cardinality(S) -> [of : Schedule, last : 0..MaxFires]]
    BY <1>6, <1>7, <2>1
  <2>3. \E n \in Nat : tick' \in [1..n -> [of : Schedule, last : 0..MaxFires]]
    BY <1>2, <2>2
  <2>4. QED
    BY <2>3, SeqDef
<1>9. TickIsCurrent'
  <2>1. \A i \in DOMAIN tick' : tick'[i].last = lastJob'[tick'[i].of]
    BY <1>5, <1>6
  <2>2. \A i, k \in DOMAIN tick' : tick'[i].of = tick'[k].of => i = k
    <3> SUFFICES ASSUME NEW i \in 1..Cardinality(S), NEW k \in 1..Cardinality(S),
                        tick'[i].of = tick'[k].of
                 PROVE  i = k
      BY <1>7
    <3>1. order[i] = order[k]
      BY <1>6, <1>7
    <3>2. QED
      BY <1>4, <3>1
  <2>3. QED
    BY <2>1, <2>2 DEF TickIsCurrent
<1>10. QED
  BY <1>6, <1>8, <1>9

LEMMA SchedulesInitType == SchedulesInit => SchedulesTypeOK /\ TickIsCurrent
  BY SchedulesAssumption
     DEF SchedulesInit, SchedulesTypeOK, TickIsCurrent, NoRun, Schedule, listSchedules

(* Types, and a tick that stays current. *)
LEMMA SchedulesStepType ==
    ASSUME SchedulesTypeOK, TickIsCurrent, SchedulesStep
    PROVE  SchedulesTypeOK' /\ TickIsCurrent'
<1>1. CASE TickStarts
  BY <1>1, NewTick DEF TickStarts, SchedulesTypeOK, switchVars, shownVars
<1>2. CASE TickChecks
  BY <1>2 DEF TickChecks, SchedulesTypeOK, TickIsCurrent, switchVars, shownVars
<1>3. CASE TickFires
  <2>1. firedBy' \in Seq(Schedule) /\ Len(firedBy') = Len(firedBy) + 1
    BY <1>3, RestOfTick DEF TickFires, SchedulesTypeOK
  <2>2. DOMAIN firedBy' = DOMAIN firedBy \cup {Len(firedBy) + 1}
    BY <1>3, <2>1 DEF SchedulesTypeOK
  <2>3. Len(firedBy') <= MaxFires
    BY <1>3, <2>1, SchedulesAssumption DEF TickFires, SchedulesTypeOK
  <2>4. QED
    BY <1>3, <2>1, <2>2, <2>3
       DEF TickFires, SchedulesTypeOK, TickIsCurrent, switchVars, shownVars
<1>4. CASE TickMarks
  <2>1. Len(firedBy) \in 0..MaxFires
    BY SchedulesAssumption DEF SchedulesTypeOK
  <2>2. lastJob' \in [Schedule -> 0..MaxFires] /\ \A s \in Schedule \ {Of} : lastJob'[s] = lastJob[s]
    BY <1>4, <2>1, RestOfTick DEF TickMarks, SchedulesTypeOK
  <2>3. tick' = Tail(tick)
    BY <1>4 DEF TickMarks
  <2>4. TickIsCurrent'
    <3>1. tick # <<>>
      BY <1>4 DEF TickMarks
    <3>2. ASSUME NEW i \in DOMAIN tick'
          PROVE  /\ tick'[i] = tick[i + 1] /\ i + 1 \in DOMAIN tick
                 /\ tick'[i].of \in Schedule \ {Of}
      BY <2>3, <3>1, RestOfTick
    <3>3. \A i \in DOMAIN tick' : tick'[i].last = lastJob'[tick'[i].of]
      BY <2>2, <3>2 DEF TickIsCurrent
    <3>4. \A i, k \in DOMAIN tick' : tick'[i].of = tick'[k].of => i = k
      <4>1. \A i \in DOMAIN tick' : i \in Int
        BY <2>3, <3>1, RestOfTick
      <4>2. QED
        BY <3>2, <4>1 DEF TickIsCurrent
    <3>5. QED
      BY <3>3, <3>4 DEF TickIsCurrent
  <2>5. SchedulesTypeOK'
    <3>1. tick' \in Seq([of : Schedule, last : 0..MaxFires])
      BY <1>4, <2>3, RestOfTick DEF TickMarks
    <3>2. QED
      BY <1>4, <2>2, <3>1 DEF TickMarks, SchedulesTypeOK, shownVars
  <2>6. QED
    BY <2>4, <2>5
<1>5. CASE TickDies
  BY <1>5, RestOfTick
     DEF TickDies, SchedulesTypeOK, TickIsCurrent, switchVars, shownVars
<1>6. ASSUME NEW s \in Schedule, ClockReaches(s) PROVE SchedulesTypeOK' /\ TickIsCurrent'
  BY <1>6 DEF ClockReaches, SchedulesTypeOK, TickIsCurrent, tickerVars, shownVars
<1>7. ASSUME NEW s \in Schedule, ToggleSchedule(s) PROVE SchedulesTypeOK' /\ TickIsCurrent'
  <2>1. switchings' \in [Schedule -> Nat]
    <3>1. CASE SetEnabled(s, s \notin shownOn)
      BY <3>1 DEF SetEnabled, SchedulesTypeOK
    <3>2. CASE UNCHANGED switchVars
      BY <3>2 DEF switchVars, SchedulesTypeOK
    <3>3. QED
      BY <1>7, <3>1, <3>2 DEF ToggleSchedule, setScheduleEnabled
  <2>2. fresh' \subseteq Every
    BY <1>7 DEF ToggleSchedule, setScheduleEnabled, SetEnabled, switchVars, SchedulesTypeOK
  <2>3. listingsOn' \subseteq SUBSET Schedule
    BY <1>7
       DEF ToggleSchedule, setScheduleEnabled, SetEnabled, switchVars, SchedulesTypeOK, listSchedules
  <2>4. enabled' \subseteq Schedule /\ due' \subseteq Schedule
    BY <1>7 DEF ToggleSchedule, setScheduleEnabled, SetEnabled, switchVars, SchedulesTypeOK
  <2>5. UNCHANGED <<tickerVars, shownOn>>
    BY <1>7 DEF ToggleSchedule, setScheduleEnabled
  <2>6. QED
    BY <2>1, <2>2, <2>3, <2>4, <2>5 DEF SchedulesTypeOK, TickIsCurrent, tickerVars
<1>8. ASSUME NEW l \in listingsOn, SchedulesArrive(l) PROVE SchedulesTypeOK' /\ TickIsCurrent'
  BY <1>8 DEF SchedulesArrive, SchedulesTypeOK, TickIsCurrent, tickerVars, switchVars
<1>9. ASSUME NEW j \in busyRuns, RunEnds(j) PROVE SchedulesTypeOK' /\ TickIsCurrent'
  BY <1>9 DEF RunEnds, SchedulesTypeOK, TickIsCurrent, switchVars, shownVars
<1>10. ASSUME NEW j \in DOMAIN firedBy, RunRetried(j) PROVE SchedulesTypeOK' /\ TickIsCurrent'
  BY <1>10 DEF RunRetried, SchedulesTypeOK, TickIsCurrent, switchVars, shownVars
<1>11. QED
  BY <1>1, <1>2, <1>3, <1>4, <1>5, <1>6, <1>7, <1>8, <1>9, <1>10 DEF SchedulesStep

-----------------------------------------------------------------------------
(* Jobs do not pile up. *)

LEMMA NoPile ==
    ASSUME SchedulesTypeOK, OnlyLastIsBusy
    PROVE  NoPileUp
<1> SUFFICES ASSUME NEW s \in Schedule \ disturbed
             PROVE  Cardinality({j \in busyRuns : firedBy[j] = s}) <= 1
  BY DEF NoPileUp
<1> DEFINE B == {j \in busyRuns : firedBy[j] = s}
           last == IF Marking(s) THEN Len(firedBy) ELSE lastJob[s]
<1>1. B \subseteq {last}
  BY DEF OnlyLastIsBusy
<1>2. IsFiniteSet({last}) /\ Cardinality({last}) = 1
  BY FS_Singleton
<1>3. QED
  BY <1>1, <1>2, FS_Subset, FS_CardinalityType

LEMMA PileStep ==
    ASSUME SchedulesTypeOK, TickIsCurrent, OnlyLastIsBusy, SchedulesStep
    PROVE  OnlyLastIsBusy'
<1>1. CASE TickStarts
  <2>1. stage' = "check" /\ tick = <<>>
    BY <1>1 DEF TickStarts
  <2>2. QED
    BY <1>1, <2>1 DEF TickStarts, OnlyLastIsBusy, Marking, Firing
<1>2. CASE TickChecks
  <2>1. Of \in Schedule /\ Head(tick).last = lastJob[Of]
    BY <1>2, RestOfTick DEF TickChecks
  <2>2. QED
    BY <1>2, <2>1 DEF TickChecks, OnlyLastIsBusy, Marking, Firing, Of
<1>3. CASE TickFires
  <2>1. Of \in Schedule
    BY <1>3, RestOfTick DEF TickFires
  <2>2. /\ Len(firedBy') = Len(firedBy) + 1 /\ firedBy'[Len(firedBy) + 1] = Of
        /\ \A j \in DOMAIN firedBy : firedBy'[j] = firedBy[j]
    BY <1>3, <2>1 DEF TickFires, SchedulesTypeOK
  <2>3. busyRuns \subseteq DOMAIN firedBy /\ busyRuns' = busyRuns \cup {Len(firedBy) + 1}
    BY <1>3 DEF TickFires, SchedulesTypeOK
  <2>4. UNCHANGED <<tick, lastJob, disturbed>> /\ tick # <<>> /\ stage = "fire" /\ stage' = "mark"
    BY <1>3 DEF TickFires
  <2>5. QED
    BY <2>2, <2>3, <2>4 DEF OnlyLastIsBusy, Marking, Firing, Of
<1>4. CASE TickMarks
  <2>1. /\ Of \in Schedule /\ Len(firedBy) \in Nat
        /\ \A s \in Schedule \ {Of} : lastJob'[s] = lastJob[s]
        /\ lastJob'[Of] = IF stage = "mark" THEN Len(firedBy) ELSE lastJob[Of]
    BY <1>4, RestOfTick DEF TickMarks, SchedulesTypeOK
  <2>2. /\ stage \in {"skip", "mark"} /\ stage' = "check" /\ tick # <<>>
        /\ UNCHANGED <<firedBy, busyRuns, disturbed>>
    BY <1>4 DEF TickMarks
  <2>3. QED
    BY <2>1, <2>2 DEF OnlyLastIsBusy, Marking, Firing
<1>5. CASE TickDies
  <2>1. Of \in Schedule
    BY <1>5, RestOfTick DEF TickDies
  <2>2. QED
    BY <1>5, <2>1 DEF TickDies, OnlyLastIsBusy, Marking, Firing
<1>6. ASSUME UNCHANGED <<lastJob, firedBy, tick, stage>>,
             busyRuns' \subseteq busyRuns, disturbed \subseteq disturbed'
      PROVE  OnlyLastIsBusy'
  BY <1>6 DEF OnlyLastIsBusy, Marking, Firing, Of
<1>7. ASSUME NEW j \in DOMAIN firedBy, RunRetried(j) PROVE OnlyLastIsBusy'
  BY <1>7 DEF RunRetried, OnlyLastIsBusy, Marking, Firing, Of
<1>8. QED
  BY <1>1, <1>2, <1>3, <1>4, <1>5, <1>6, <1>7
    
        DEF SchedulesStep, ClockReaches, ToggleSchedule, setScheduleEnabled, SchedulesArrive, RunEnds, tickerVars

-----------------------------------------------------------------------------
(* A one-shot schedule fires once per switching. *)

LEMMA FiresAreFinite ==
    ASSUME SchedulesTypeOK, NEW s
    PROVE  /\ IsFiniteSet(Fires(s)) /\ Cardinality(Fires(s)) \in Nat
           /\ Len(firedBy) + 1 \notin Fires(s)
<1>1. Len(firedBy) \in Nat /\ Fires(s) \subseteq 1..Len(firedBy)
  BY DEF SchedulesTypeOK, Fires
<1>2. IsFiniteSet(1..Len(firedBy))
  BY <1>1, FS_Interval
<1>3. IsFiniteSet(Fires(s))
  BY <1>1, <1>2, FS_Subset
<1>4. QED
  BY <1>1, <1>3, FS_CardinalityType

LEMMA OnceEach ==
    ASSUME SchedulesTypeOK, ArmedOnce
    PROVE  OneShotOnce
<1> SUFFICES ASSUME NEW s \in OneShot \ disturbed
             PROVE  Cardinality(Fires(s)) <= switchings[s]
  BY DEF OneShotOnce, Fires
<1>1. switchings[s] \in Nat
  BY DEF SchedulesTypeOK, Schedule
<1>2. QED
  BY <1>1, FiresAreFinite DEF ArmedOnce

(* What arms no schedule and fires none keeps the count. *)
LEMMA NotArmedNow ==
    ASSUME SchedulesTypeOK, ArmedOnce, UNCHANGED firedBy, disturbed \subseteq disturbed',
           \A s \in OneShot \ disturbed' :
               (Armed(s)' => Armed(s)) /\ switchings'[s] = switchings[s]
    PROVE  ArmedOnce'
<1> SUFFICES ASSUME NEW s \in OneShot \ disturbed'
             PROVE  Cardinality(Fires(s)') + (IF Armed(s)' THEN 1 ELSE 0) <= switchings'[s]
  BY DEF ArmedOnce
<1>1. Fires(s)' = Fires(s) /\ Cardinality(Fires(s)) \in Nat
  BY FiresAreFinite DEF Fires
<1>2. switchings'[s] = switchings[s] /\ switchings[s] \in Nat
  BY DEF SchedulesTypeOK, Schedule
<1>3. Cardinality(Fires(s)) + (IF Armed(s) THEN 1 ELSE 0) <= switchings[s]
  BY DEF ArmedOnce
<1>4. Armed(s)' => Armed(s)
  OBVIOUS
<1>5. QED
  BY <1>1, <1>2, <1>3, <1>4

LEMMA ArmedInit == SchedulesInit => ArmedOnce /\ OnlyLastIsBusy /\ FreshIsAhead
<1> SUFFICES ASSUME SchedulesInit PROVE ArmedOnce /\ OnlyLastIsBusy /\ FreshIsAhead
  OBVIOUS
<1>1. OnlyLastIsBusy /\ FreshIsAhead
  BY DEF SchedulesInit, OnlyLastIsBusy, FreshIsAhead
<1>2. ASSUME NEW s \in OneShot
      PROVE  Cardinality(Fires(s)) + (IF Armed(s) THEN 1 ELSE 0) <= switchings[s]
  <2>1. Fires(s) = {}
    BY DEF Fires, SchedulesInit
  <2>2. Cardinality(Fires(s)) = 0
    BY <2>1, FS_EmptySet
  <2>3. switchings[s] = (IF s \in enabled THEN 1 ELSE 0) /\ (Armed(s) <=> s \in enabled)
    BY DEF SchedulesInit, Armed, Marking, Ticking, Schedule
  <2>4. QED
    BY <2>2, <2>3
<1>3. QED
  BY <1>1, <1>2 DEF ArmedOnce

LEMMA ArmedStep ==
    ASSUME SchedulesTypeOK, TickIsCurrent, ArmedOnce, SchedulesStep
    PROVE  ArmedOnce'
<1>1. CASE TickStarts
  <2>1. \A i \in DOMAIN tick' : tick'[i].of \in enabled
    BY <1>1, NewTick
  <2>2. QED
    BY <1>1, <2>1, NotArmedNow DEF TickStarts, Armed, Marking, Ticking, switchVars
<1>2. CASE TickChecks
  BY <1>2, NotArmedNow DEF TickChecks, Armed, Marking, Ticking, switchVars
<1>3. CASE TickFires
  <2>1. Of \in Schedule /\ Ticking(Of)
    BY <1>3, RestOfTick DEF TickFires
  <2>2. UNCHANGED <<tick, enabled, disturbed, switchings>> /\ Of' = Of /\ tick # <<>>
    BY <1>3 DEF TickFires, switchVars, Of
  <2>3. stage = "fire" /\ stage' = "mark"
    BY <1>3 DEF TickFires
  <2>4. ASSUME NEW s \in OneShot \ disturbed
        PROVE  Cardinality(Fires(s)') + (IF Armed(s)' THEN 1 ELSE 0) <= switchings[s]
    <3>1. /\ Len(firedBy) \in Nat /\ firedBy' = Append(firedBy, Of)
          /\ Len(firedBy') = Len(firedBy) + 1
          /\ DOMAIN firedBy' = DOMAIN firedBy \cup {Len(firedBy) + 1}
      BY <1>3, <2>1 DEF TickFires, SchedulesTypeOK
    <3>2. Fires(s)' = IF Of = s THEN Fires(s) \cup {Len(firedBy) + 1} ELSE Fires(s)
      BY <2>1, <3>1 DEF Fires, SchedulesTypeOK
    <3>3. Cardinality(Fires(s)') = Cardinality(Fires(s)) + (IF Of = s THEN 1 ELSE 0)
      <4>1. /\ IsFiniteSet(Fires(s)) /\ Cardinality(Fires(s)) \in Nat
            /\ Len(firedBy) + 1 \notin Fires(s)
        BY FiresAreFinite
      <4>2. Cardinality(Fires(s) \cup {Len(firedBy) + 1}) = Cardinality(Fires(s)) + 1
        BY <4>1, FS_AddElement
      <4>3. QED
        BY <3>2, <4>1, <4>2
    <3>4. Armed(s)' <=> Armed(s) /\ Of # s
      BY <2>2, <2>3 DEF Armed, Marking, Ticking
    <3>5. Of = s => Armed(s)
      BY <2>1, <2>3 DEF Armed, Marking
    <3>6. switchings[s] \in Nat /\ Cardinality(Fires(s)) \in Nat
      BY FiresAreFinite DEF SchedulesTypeOK, Schedule
    <3>7. Cardinality(Fires(s)) + (IF Armed(s) THEN 1 ELSE 0) <= switchings[s]
      BY DEF ArmedOnce
    <3>8. QED
      BY <3>3, <3>4, <3>5, <3>6, <3>7
  <2>5. QED
    BY <2>2, <2>4 DEF ArmedOnce
<1>4. CASE TickMarks
  <2>1. /\ Of \in Schedule /\ tick' = Tail(tick) /\ tick # <<>>
        /\ enabled' = enabled \ (OneShot \cap {Of}) /\ stage' = "check"
        /\ UNCHANGED <<firedBy, disturbed, switchings>>
    BY <1>4, RestOfTick DEF TickMarks
  <2>2. \A s : Ticking(s)' => Ticking(s) /\ s # Of
    BY <2>1, RestOfTick DEF Ticking
  <2>3. \A s \in OneShot : Armed(s)' => Armed(s)
    BY <2>1, <2>2 DEF Armed, Marking
  <2>4. QED
    BY <2>1, <2>3, NotArmedNow
<1>5. CASE TickDies
  <2>1. \A s \in OneShot \ disturbed' : Armed(s)' => Armed(s)
    BY <1>5 DEF TickDies, Armed, Marking, Ticking, switchVars
  <2>2. UNCHANGED <<firedBy, switchings>> /\ disturbed \subseteq disturbed'
    BY <1>5 DEF TickDies, switchVars
  <2>3. QED
    BY <2>1, <2>2, NotArmedNow
<1>6. ASSUME NEW u \in Schedule, ToggleSchedule(u) PROVE ArmedOnce'
  <2>1. UNCHANGED <<firedBy, disturbed, tick, stage>>
    BY <1>6 DEF ToggleSchedule, setScheduleEnabled, tickerVars
  <2>2. CASE u \in shownOn /\ SetEnabled(u, u \notin shownOn)
    <3>1. enabled' = enabled \ {u} /\ switchings' = switchings
      BY <2>2 DEF SetEnabled
    <3>2. QED
      BY <2>1, <3>1, NotArmedNow DEF Armed, Marking, Ticking, Of
  <2>3. CASE u \notin shownOn /\ SetEnabled(u, u \notin shownOn)
    <3>1. enabled' = enabled \cup {u} /\ switchings' = [switchings EXCEPT ![u] = @ + 1]
      BY <2>3 DEF SetEnabled
    <3>2. ASSUME NEW s \in OneShot \ disturbed
          PROVE  Cardinality(Fires(s)') + (IF Armed(s)' THEN 1 ELSE 0) <= switchings'[s]
      <4>1. Fires(s)' = Fires(s) /\ Cardinality(Fires(s)) \in Nat
        BY <2>1, FiresAreFinite DEF Fires
      <4>2. switchings[s] \in Nat /\ switchings'[s] = switchings[s] + (IF u = s THEN 1 ELSE 0)
        BY <3>1 DEF SchedulesTypeOK, Schedule
      <4>3. s # u => (Armed(s)' <=> Armed(s))
        BY <2>1, <3>1 DEF Armed, Marking, Ticking, Of
      <4>4. Cardinality(Fires(s)) + (IF Armed(s) THEN 1 ELSE 0) <= switchings[s]
        BY DEF ArmedOnce
      <4>5. QED
        BY <4>1, <4>2, <4>3, <4>4
    <3>3. QED
      BY <2>1, <3>2 DEF ArmedOnce
  <2>4. CASE UNCHANGED switchVars
    BY <2>1, <2>4, NotArmedNow DEF Armed, Marking, Ticking, Of, switchVars
  <2>5. QED
    BY <1>6, <2>2, <2>3, <2>4 DEF ToggleSchedule, setScheduleEnabled
<1>7. ASSUME UNCHANGED <<enabled, switchings, firedBy, tick, stage>>,
             disturbed \subseteq disturbed'
      PROVE  ArmedOnce'
  BY <1>7, NotArmedNow DEF Armed, Marking, Ticking, Of
<1>8. QED
  BY <1>1, <1>2, <1>3, <1>4, <1>5, <1>6, <1>7
     DEF SchedulesStep, ClockReaches, SchedulesArrive, RunEnds, RunRetried, tickerVars, switchVars

-----------------------------------------------------------------------------
(* What is switched on again counts from then. *)

LEMMA FreshStep ==
    ASSUME SchedulesTypeOK, TickIsCurrent, FreshIsAhead, SchedulesStep
    PROVE  FreshIsAhead'
<1>1. CASE TickStarts
  <2>1. \A i \in DOMAIN tick' : tick'[i].of \in due
    BY <1>1, NewTick
  <2>2. QED
    BY <1>1, <2>1 DEF TickStarts, FreshIsAhead, Ticking, switchVars
<1>2. CASE TickMarks
  <2>1. \A s : Ticking(s)' => Ticking(s)
    BY <1>2, RestOfTick DEF TickMarks, Ticking
  <2>2. QED
    BY <1>2, <2>1 DEF TickMarks, FreshIsAhead
<1>3. CASE TickDies
  BY <1>3 DEF TickDies, FreshIsAhead, Ticking, switchVars
<1>4. ASSUME NEW s \in Schedule, ClockReaches(s) \/ ToggleSchedule(s) PROVE FreshIsAhead'
  BY <1>4
     DEF ClockReaches, ToggleSchedule, setScheduleEnabled, SetEnabled, FreshIsAhead, Ticking, tickerVars, switchVars
<1>5. ASSUME UNCHANGED <<fresh, due, tick>> PROVE FreshIsAhead'
  BY <1>5 DEF FreshIsAhead, Ticking
<1>6. QED
  BY <1>1, <1>2, <1>3, <1>4, <1>5
     DEF SchedulesStep, TickChecks, TickFires, SchedulesArrive, RunEnds, RunRetried,
         tickerVars, switchVars

(* A step that fires fires what its tick has. *)
LEMMA FreshWaits ==
    ASSUME SchedulesTypeOK, TickIsCurrent, FreshIsAhead, SchedulesStep,
           NEW s \in fresh, Len(firedBy') > Len(firedBy)
    PROVE  Last(firedBy') # s
<1>1. Len(firedBy) \in Nat
  BY DEF SchedulesTypeOK
<1>2. TickFires
  BY <1>1 DEF SchedulesStep, TickStarts, TickChecks, TickMarks, TickDies, ClockReaches,
              ToggleSchedule, setScheduleEnabled, SchedulesArrive, RunEnds, RunRetried, tickerVars
<1>3. Of \in Schedule /\ Ticking(Of)
  BY <1>2, RestOfTick DEF TickFires
<1>4. Last(firedBy') = Of
  BY <1>2, <1>3 DEF TickFires, SchedulesTypeOK, Last
<1>5. QED
  BY <1>3, <1>4 DEF FreshIsAhead

LEMMA SchedulesMove == [Next]_vars => SchedulesStep \/ UNCHANGED scheduleVars
  BY DEF Next, vars, SchedulesStep,
         ToolsOwner, ToolsRun, ToolsFail, VersionsOwner, VersionsRun, VersionsFail,
         HeartbeatsRun, HeartbeatsFail, ItemsOwner, ItemsRun, ItemsFail,
         InTools, InVersions, InHeartbeats, InItems,
         WorkOwner, WorkRun, WorkFail, Ticks

SchedulesInv ==
    SchedulesTypeOK /\ TickIsCurrent /\ OnlyLastIsBusy /\ ArmedOnce /\ FreshIsAhead

LEMMA SchedulesKeep == SchedulesInv /\ [Next]_vars => SchedulesInv'
<1> SUFFICES ASSUME SchedulesInv, [Next]_vars PROVE SchedulesInv'
  OBVIOUS
<1>1. CASE SchedulesStep
  BY <1>1, SchedulesStepType, PileStep, ArmedStep, FreshStep DEF SchedulesInv
<1>2. CASE UNCHANGED scheduleVars
  BY <1>2 DEF scheduleVars, tickerVars, switchVars, shownVars, SchedulesInv, SchedulesTypeOK,
              TickIsCurrent, OnlyLastIsBusy, ArmedOnce, FreshIsAhead, Marking, Firing,
              Ticking, Armed, Fires, Of
<1>3. QED
  BY <1>1, <1>2, SchedulesMove

LEMMA SchedulesHold == Spec => []SchedulesInv
<1>1. Init => SchedulesInv
  BY SchedulesInitType, ArmedInit DEF Init, SchedulesInv
<1>2. QED
  BY <1>1, SchedulesKeep, PTL DEF Spec

(* The jobs of a schedule never pile up, for any schedules and any number of *)
(* fires, switchings, retries and deaths of the ticker.                    *)
THEOREM JobsDoNotPile == Spec => []NoPileUp
<1>1. SchedulesInv => NoPileUp
  BY NoPile DEF SchedulesInv
<1>2. QED
  BY <1>1, SchedulesHold, PTL

(* A one-shot schedule fires at most once for each time it is switched on. *)
THEOREM OneShotsPark == Spec => []OneShotOnce
<1>1. SchedulesInv => OneShotOnce
  BY OnceEach DEF SchedulesInv
<1>2. QED
  BY <1>1, SchedulesHold, PTL

(* A schedule that is switched on again does not fire before its next time. *)
THEOREM SwitchedOnWaits == Spec => CountsFromNow
<1>1. SchedulesInv /\ [Next]_vars
        => [\A s \in fresh : Len(firedBy') > Len(firedBy) => Last(firedBy') # s]_scheduleVars
  BY SchedulesMove, FreshWaits DEF SchedulesInv
<1>2. QED
  BY <1>1, SchedulesHold, PTL DEF Spec, CountsFromNow

-----------------------------------------------------------------------------
(* The Tools panel. *)

LEMMA ToolsMove == [Next]_vars => ToolsStep \/ UNCHANGED toolVars
  BY DEF Next, vars, ToolsStep, toolsPart,
         ToolsOwner, ToolsRun, ToolsFail, VersionsOwner, VersionsRun, VersionsFail,
         HeartbeatsRun, HeartbeatsFail, ItemsOwner, ItemsRun, ItemsFail,
         InVersions, InHeartbeats, InItems, InWork, WorkOwner, WorkRun, WorkFail

LEMMA ToolsHold == Spec => []ToolsInv
<1>1. Init => ToolsInv
  BY ToolsInitInv DEF Init
<1>2. ToolsInv /\ [Next]_vars => ToolsInv'
  BY ToolsMove, ToolsKeep
<1>3. QED
  BY <1>1, <1>2, PTL DEF Spec

(* A tool that is not active runs nothing once its handlers are through, for *)
(* any number of versions, of handlers that cross, and of restarts.        *)
THEOREM DraftsStayInert == Spec => []DraftIsInert
<1>1. ToolsInv => DraftIsInert
  BY InertAndApproved
<1>2. QED
  BY <1>1, ToolsHold, PTL

(* An approved tool runs its present script once its handlers are through. *)
THEOREM ApprovalTakesEffect == Spec => []ApprovedRuns
<1>1. ToolsInv => ApprovedRuns
  BY InertAndApproved
<1>2. QED
  BY <1>1, ToolsHold, PTL

-----------------------------------------------------------------------------
(* Memory. *)

LEMMA MemoryMove ==
    [Next]_vars => PanelStep \/ UNCHANGED <<memoryVars, itemVars, memoryPanelVars>>
<1>1. VersionsOwner => PanelStep
  BY DEF VersionsOwner, PanelStep
<1>2. VersionsRun => PanelStep
  BY DEF VersionsRun, InVersions, PanelStep, FileStep
<1>3. VersionsFail => PanelStep
  BY DEF VersionsFail, PanelStep
<1>4. HeartbeatsRun \/ HeartbeatsFail => PanelStep
  BY DEF HeartbeatsRun, HeartbeatsFail, InHeartbeats, PanelStep, FileStep
<1>5. ItemsOwner \/ ItemsRun \/ ItemsFail => PanelStep
  BY DEF ItemsOwner, ItemsRun, ItemsFail, PanelStep
<1>6. ToolsOwner \/ ToolsRun \/ ToolsFail => UNCHANGED <<memoryVars, itemVars, memoryPanelVars>>
  BY DEF ToolsOwner, ToolsRun, ToolsFail, InTools, memoryPart
<1>7. WorkOwner \/ WorkRun \/ WorkFail => UNCHANGED <<memoryVars, itemVars, memoryPanelVars>>
  BY DEF WorkOwner, WorkRun, WorkFail, InWork, memoryPart
<1>8. UNCHANGED vars => UNCHANGED <<memoryVars, itemVars, memoryPanelVars>>
  BY DEF vars, memoryPart
<1>9. QED
  BY <1>1, <1>2, <1>3, <1>4, <1>5, <1>6, <1>7, <1>8 DEF Next

LEMMA MemoryHolds == Spec => []MemoryInv
<1>1. Init => MemoryInv
  BY MemoryInitInv DEF Init
<1>2. MemoryInv /\ [Next]_vars => MemoryInv'
  BY MemoryMove, MemoryKeep
<1>3. QED
  BY <1>1, <1>2, PTL DEF Spec

(* Conversations run on the file as it is once every reflection and rollback *)
(* is through, however many of them overlapped.                            *)
THEOREM PromptCatchesUp == Spec => []PromptIsCurrent
<1>1. QED
  BY CurrentOnceThrough, MemoryHolds, PTL

(* No turn of any conversation counts as reflected on that was in no        *)
(* transcript.                                                             *)
THEOREM MarksFollowReading == Spec => []NothingUnread
<1>1. QED
  BY ReadBeforeMarked, MemoryHolds, PTL

(* A thing corrected one step at a time has one wording, after any number. *)
THEOREM CorrectionsTakeOver == Spec => []OneWording
<1>1. QED
  BY OneWordingLeft, MemoryHolds, PTL

(* No text leaves the file without a snapshot of it in some version. *)
THEOREM EveryTextIsKept == Spec => NothingLost
<1>1. MemoryInv /\ [Next]_vars
        => [file' # file /\ ~torn => \E v \in DOMAIN ledger : ledger[v] = file]_memoryVars
  BY MemoryMove, TextIsKept
<1>2. QED
  BY <1>1, MemoryHolds, PTL DEF Spec, NothingLost

(* Restoring brings back the text that was compared, for any number of      *)
(* versions added while the dialog was open.                               *)
THEOREM RestoresWhatWasCompared == Spec => RestoresAsPreviewed
<1>1. MemoryInv /\ [Next]_vars
        => [preview.text # -1 /\ preview' = NoPreview /\ memoryBusy' /\ ~memoryBusy
                => file' = preview.text]_<<memoryVars, memoryPanelVars>>
  BY MemoryMove, RestoredText
<1>2. QED
  BY <1>1, MemoryHolds, PTL DEF Spec, RestoresAsPreviewed

-----------------------------------------------------------------------------
(* Types.  The bounds on handlers, runs and answers under way hold because a *)
(* step adds one at a time, and only while there is room.                  *)

(* The handlers and the listings under way, and a tool that was proposed. *)
ToolsBound ==
    /\ Len(calls) <= MaxCalls /\ (status = "none" => Len(history) = 0)
    /\ ToolsPanelTypeOK /\ IsFiniteSet(listings)

LEMMA ToolIsListed ==
    ASSUME ToolShape, HasVersions, status = "none" => Len(history) = 0
    PROVE  ListTools \in ToolView \cup {NoTool}
<1>1. Len(history) \in Nat /\ MaxVersions \in Nat /\ Len(history) <= MaxVersions
  BY RegistryBounds, LenProperties DEF ToolShape
<1>2. CASE status = "none"
  BY <1>2 DEF ListTools, NoTool
<1>3. CASE status # "none"
  <2>1. Len(history) \in 1..MaxVersions
    BY <1>1, <1>3 DEF HasVersions
  <2>2. QED
    BY <1>3, <2>1 DEF ListTools, ToolView, ToolShape
<1>4. QED
  BY <1>2, <1>3

LEMMA HandlersBounded ==
    ASSUME ToolsInv, ToolsInv', Len(calls) <= MaxCalls, ToolsStep
    PROVE  Len(calls') <= MaxCalls
<1>1. /\ calls \in Seq(Call) /\ calls' \in Seq(Call) /\ Len(calls) \in Nat /\ Len(calls') \in Nat
      /\ MaxCalls \in Nat
  BY RegistryBounds, LenProperties DEF ToolsInv, ToolShape
<1>2. CASE ToolRow \/ Propose
  <2>1. PICK c \in Call : RowChanges(c)
    BY <1>2, RowStep DEF ToolsInv
  <2>2. Len(calls) < MaxCalls
    BY <1>2
       DEF ToolRow, Approve, Disable, RollBack, Press, Pressable, SetStatus, RollbackTool, Propose, Commit
  <2>3. Len(calls') = Len(calls) + 1
    BY <1>1, <2>1, AppendProperties DEF RowChanges
  <2>4. QED
    BY <1>1, <2>2, <2>3
<1>3. CASE MemoryRebuilds
  <2> DEFINE c == [at |-> "query", put |-> NoScript, rebuild |-> TRUE, seen |-> FALSE,
                   panel |-> FALSE]
  <2>1. c \in Call
    BY RegistryBounds DEF Call, NoScript
  <2>2. calls' = Append(calls, c) /\ Len(calls) < MaxCalls
    BY <1>3 DEF MemoryRebuilds
  <2> HIDE DEF c
  <2>3. Len(calls') = Len(calls) + 1
    BY <1>1, <2>1, <2>2, AppendProperties
  <2>4. QED
    BY <1>1, <2>2, <2>3
<1>4. ASSUME DOMAIN calls' = DOMAIN calls PROVE Len(calls') <= MaxCalls
  BY <1>1, <1>4, SameLength
<1>5. ASSUME NEW i \in DOMAIN calls, calls' = RemoveAt(calls, i) PROVE Len(calls') <= MaxCalls
  <2>1. Len(calls') = Len(calls) - 1
    BY <1>1, <1>5, RemovedAt
  <2>2. QED
    BY <1>1, <2>1
<1>6. CASE ReopenTools \/ \E i \in DOMAIN calls : RequestDies(i)
  BY <1>4, <1>6, Unheard DEF ToolsInv, SameHandlers
<1>7. ASSUME NEW i \in DOMAIN calls, HandlerStep(i) \/ HandlerFails(i)
      PROVE  Len(calls') <= MaxCalls
  <2>1. calls' = RemoveAt(calls, i) \/ DOMAIN calls' = DOMAIN calls
    BY <1>7 DEF HandlerStep, HandlerFails, MoveScript, ReadActive, BuildAgent, RebuildFails
  <2>2. QED
    BY <1>4, <1>5, <2>1
<1>8. CASE ToolServerRestarts
  BY <1>1, <1>8 DEF ToolServerRestarts, RestartTools
<1>9. ASSUME NEW l, ListingArrives(l) \/ ListingLost(l) PROVE Len(calls') <= MaxCalls
  BY <1>9 DEF ListingArrives, ListingLost, toolVars
<1>10. QED
  BY <1>2, <1>3, <1>6, <1>7, <1>8, <1>9 DEF ToolsStep

(* A tool keeps its versions: no step takes it back to before its proposal. *)
LEMMA ProposedOnce ==
    ASSUME ToolsInv, status = "none" => Len(history) = 0, ToolsStep
    PROVE  status' = "none" => Len(history') = 0
<1>1. CASE ToolRow \/ Propose
  BY <1>1, RowStep DEF ToolsInv, RowChanges
<1>2. CASE ~(ToolRow \/ Propose)
  <2>1. UNCHANGED <<status, history>>
    BY <1>2 DEF ToolsStep, ReopenTools, ToolServerRestarts, RestartTools, MemoryRebuilds, HandlerStep,
       MoveScript, ReadActive, BuildAgent, HandlerFails, RebuildFails, RequestDies,
       ListingArrives, ListingLost, toolVars
  <2>2. QED
    BY <2>1
<1>3. QED
  BY <1>1, <1>2

LEMMA ListingsBounded ==
    ASSUME ToolsInv, ToolsBound, ToolsStep
    PROVE  ToolsPanelTypeOK' /\ IsFiniteSet(listings')
<1>1. ListTools \in ToolView \cup {NoTool}
  BY ToolIsListed DEF ToolsInv, ToolsBound
<1>2. /\ tool \in ToolView \cup {NoTool} /\ listings \subseteq ToolView \cup {NoTool}
      /\ IsFiniteSet(listings) /\ Cardinality(listings) <= 2
      /\ toolBusy \in BOOLEAN /\ toolError \in BOOLEAN
  BY DEF ToolsBound, ToolsPanelTypeOK
<1>3. Cardinality(listings) \in Nat
  BY <1>2, FS_CardinalityType
<1> DEFINE Good(ls) == ls \subseteq ToolView \cup {NoTool} /\ IsFiniteSet(ls) /\ Cardinality(ls) <= 2
<1>4. Good({ListTools})
  <2>1. IsFiniteSet({ListTools}) /\ Cardinality({ListTools}) = 1
    BY FS_Singleton
  <2>2. QED
    BY <1>1, <2>1
<1>5. ASSUME NEW l PROVE Good(listings \ {l})
  BY <1>2, <1>3, FS_RemoveElement
<1>6. ASSUME LoadTools PROVE Good(listings')
  <2>1. CASE Cardinality(listings) < 2
    <3>1. listings' = listings \cup {ListTools}
      BY <1>6, <2>1 DEF LoadTools
    <3>2. QED
      BY <1>1, <1>2, <1>3, <2>1, <3>1, FS_AddElement
  <2>2. CASE ~(Cardinality(listings) < 2)
    BY <1>4, <1>6, <2>2 DEF LoadTools
  <2>3. QED
    BY <2>1, <2>2
<1>7. Good(listings)
  BY <1>2
<1> HIDE DEF Good
<1>8. ASSUME Good(listings'), tool' \in ToolView \cup {NoTool},
             toolBusy' \in BOOLEAN, toolError' \in BOOLEAN
      PROVE  ToolsPanelTypeOK' /\ IsFiniteSet(listings')
  BY <1>8 DEF Good, ToolsPanelTypeOK
<1>9. CASE UNCHANGED toolPanelVars
  BY <1>2, <1>7, <1>8, <1>9 DEF toolPanelVars
<1>10. CASE ToolRow
  <2>1. UNCHANGED <<tool, listings>> /\ toolBusy' = TRUE /\ toolError' = FALSE
    BY <1>10 DEF ToolRow, Approve, Disable, RollBack, Press, Pressable
  <2>2. QED
    BY <1>2, <1>7, <1>8, <2>1
<1>11. CASE ReopenTools
  BY <1>4, <1>8, <1>11 DEF ReopenTools
<1>12. CASE ToolServerRestarts
  BY <1>2, <1>7, <1>8, <1>12, Zenon DEF ToolServerRestarts
<1>13. ASSUME NEW i, NEW ok \in BOOLEAN, Answered(i, ok)
       PROVE  ToolsPanelTypeOK' /\ IsFiniteSet(listings')
  <2>1. CASE calls[i].panel /\ ok
    BY <1>2, <1>6, <1>8, <1>13, <2>1 DEF Answered
  <2>2. CASE calls[i].panel /\ ~ok
    BY <1>2, <1>7, <1>8, <1>13, <2>2 DEF Answered
  <2>3. CASE ~calls[i].panel
    BY <1>9, <1>13, <2>3 DEF Answered
  <2>4. QED
    BY <2>1, <2>2, <2>3
<1>14. ASSUME NEW i, RequestDies(i) PROVE ToolsPanelTypeOK' /\ IsFiniteSet(listings')
  BY <1>2, <1>7, <1>8, <1>14 DEF RequestDies
<1>15. ASSUME NEW l \in listings, ListingArrives(l) \/ ListingLost(l)
       PROVE  ToolsPanelTypeOK' /\ IsFiniteSet(listings')
  BY <1>2, <1>5, <1>8, <1>15 DEF ListingArrives, ListingLost
<1>16. QED
  BY <1>9, <1>10, <1>11, <1>12, <1>13, <1>14, <1>15 DEF ToolsStep, HandlerStep, HandlerFails

LEMMA ToolsMoveAll == [Next]_vars => ToolsStep \/ UNCHANGED toolsPart
  BY DEF Next, vars, ToolsStep,
         ToolsOwner, ToolsRun, ToolsFail, VersionsOwner, VersionsRun, VersionsFail,
         HeartbeatsRun, HeartbeatsFail, ItemsOwner, ItemsRun, ItemsFail,
         InVersions, InHeartbeats, InItems, InWork, WorkOwner, WorkRun, WorkFail

LEMMA ToolsStayBound == ToolsInv /\ ToolsInv' /\ ToolsBound /\ [Next]_vars => ToolsBound'
<1> SUFFICES ASSUME ToolsInv, ToolsInv', ToolsBound, [Next]_vars PROVE ToolsBound'
  OBVIOUS
<1>1. CASE ToolsStep
  BY <1>1, HandlersBounded, ProposedOnce, ListingsBounded DEF ToolsBound
<1>2. CASE UNCHANGED toolsPart
  BY <1>2 DEF toolsPart, toolVars, toolPanelVars, ToolsBound, ToolsPanelTypeOK
<1>3. QED
  BY <1>1, <1>2, ToolsMoveAll

(* Requests and rollbacks under way; a heartbeat has one run at most. *)
Requested == {i \in DOMAIN runs : ~ByBeat(runs[i])}
RequestsBound == Cardinality(Requested) <= MaxRuns

LEMMA RequestsAreFinite ==
    ASSUME MemoryShape
    PROVE  /\ IsFiniteSet(DOMAIN runs) /\ Cardinality(DOMAIN runs) = Len(runs)
           /\ IsFiniteSet(Requested) /\ Cardinality(Requested) \in Nat
<1>1. Len(runs) \in Nat /\ DOMAIN runs = 1..Len(runs)
  BY LenProperties DEF MemoryShape
<1>2. IsFiniteSet(1..Len(runs)) /\ Cardinality(1..Len(runs)) = IF 1 > Len(runs) THEN 0 ELSE Len(runs) - 1 + 1
  BY <1>1, FS_Interval
<1>3. IsFiniteSet(DOMAIN runs) /\ Cardinality(DOMAIN runs) = Len(runs)
  BY <1>1, <1>2
<1>4. IsFiniteSet(Requested)
  BY <1>3, FS_Subset DEF Requested
<1>5. QED
  BY <1>3, <1>4, FS_CardinalityType

LEMMA RunsBounded ==
    ASSUME MemoryShape, OneBeat, RequestsBound
    PROVE  Len(runs) <= MaxRuns + 1
<1>1. /\ IsFiniteSet(Requested) /\ Cardinality(Requested) \in Nat /\ MaxRuns \in Nat
      /\ Cardinality(DOMAIN runs) = Len(runs) /\ Cardinality(Requested) <= MaxRuns
  BY RequestsAreFinite, MemoryBounds DEF RequestsBound
<1>2. CASE \E i \in DOMAIN runs : ByBeat(runs[i])
  <2>1. PICK i \in DOMAIN runs : ByBeat(runs[i])
    BY <1>2
  <2>2. DOMAIN runs = Requested \cup {i} /\ i \notin Requested
    BY <2>1 DEF OneBeat, Requested
  <2>3. Cardinality(Requested \cup {i}) = Cardinality(Requested) + 1
    BY <1>1, <2>2, FS_AddElement
  <2>4. QED
    BY <1>1, <2>2, <2>3
<1>3. CASE ~ \E i \in DOMAIN runs : ByBeat(runs[i])
  <2>1. DOMAIN runs = Requested
    BY <1>3 DEF Requested
  <2>2. QED
    BY <1>1, <2>1
<1>4. QED
  BY <1>2, <1>3

LEMMA RequestsEnd ==
    ASSUME MemoryShape, RequestsBound, NEW i \in DOMAIN runs, NEW was, Ends(i, was)
    PROVE  RequestsBound'
<1> DEFINE f == [k \in Requested' |-> was[k]]
<1>1. \A k \in DOMAIN runs' : was[k] \in DOMAIN runs /\ runs'[k] = runs[was[k]]
  BY DEF Ends, Rest
<1>2. f \in Injection(Requested', Requested)
  <2>1. \A k \in Requested' : was[k] \in Requested
    BY <1>1 DEF Requested, ByBeat
  <2>2. \A k, l \in Requested' : was[k] = was[l] => k = l
    BY DEF Ends, Rest, Requested
  <2>3. QED
    BY <2>1, <2>2 DEF Injection, IsInjective
<1>3. Cardinality(Requested') <= Cardinality(Requested) /\ IsFiniteSet(Requested')
  BY <1>2, RequestsAreFinite, FS_Injection
<1>4. QED
  BY <1>3, RequestsAreFinite, FS_CardinalityType, MemoryBounds DEF RequestsBound

LEMMA RequestsGo ==
    ASSUME RequestsBound, NEW i \in DOMAIN runs, NEW step, Goes(i, step)
    PROVE  RequestsBound'
<1>1. Requested' = Requested
  BY DEF Goes, Requested, ByBeat
<1>2. QED
  BY <1>1 DEF RequestsBound

LEMMA RequestsCome ==
    ASSUME MemoryShape, RequestsBound, NEW r \in Run, Comes(r), ByBeat(r) \/ Room
    PROVE  RequestsBound'
<1> DEFINE n == Len(runs) + 1
<1>1. IsFiniteSet(Requested) /\ Cardinality(Requested) \in Nat /\ MaxRuns \in Nat
  BY RequestsAreFinite, MemoryBounds
<1>2. CASE ByBeat(r)
  <2>1. Requested' = Requested
    BY <1>2 DEF Comes, Requested, ByBeat
  <2>2. QED
    BY <2>1 DEF RequestsBound
<1>3. CASE ~ByBeat(r)
  <2>1. Requested' = Requested \cup {n} /\ n \notin Requested
    BY <1>3 DEF Comes, Requested, ByBeat
  <2>2. Cardinality(Requested) < MaxRuns
    BY <1>3 DEF Room, Requested
  <2>3. Cardinality(Requested') = Cardinality(Requested) + 1
    BY <1>1, <2>1, FS_AddElement
  <2>4. QED
    BY <1>1, <2>2, <2>3 DEF RequestsBound
<1>4. QED
  BY <1>2, <1>3

LEMMA RequestsKeep ==
    ASSUME RunsInv, RequestsBound, FileStep
    PROVE  RequestsBound'
<1>1. MemoryShape
  BY DEF RunsInv
<1>2. ASSUME runs' = runs PROVE RequestsBound'
  BY <1>2 DEF RequestsBound, Requested
<1>3. ASSUME NEW i \in DOMAIN runs, runs' = RemoveAt(runs, i) PROVE RequestsBound'
  BY <1>1, <1>3, Ended, RequestsEnd
<1>4. ASSUME NEW i \in DOMAIN runs, NEW step \in {"recording", "rebuilding", "looked"}, Put(i, step)
      PROVE  RequestsBound'
  BY <1>1, <1>4, Went, RequestsGo
<1>5. ASSUME NEW i \in DOMAIN runs, Done(i) PROVE RequestsBound'
  BY <1>3, <1>4, <1>5 DEF Done
<1>6. ASSUME NEW r \in Run, runs' = Append(runs, r), ByBeat(r) \/ Room PROVE RequestsBound'
  BY <1>1, <1>6, Came, RequestsCome
<1>7. CASE ReflectOnRequest \/ BeatReflects
  <2>1. PICK by \in {"heartbeat", "request"} : Reflect(by) /\ (by = "heartbeat" \/ Room)
    BY <1>7 DEF ReflectOnRequest, BeatReflects
  <2> DEFINE r == [by |-> by, at |-> "proposing"]
  <2>2. r \in Run /\ (by = "heartbeat" => ByBeat(r))
    BY DEF Run, ByBeat
  <2>3. runs' = Append(runs, r)
    BY <2>1 DEF Reflect
  <2> HIDE DEF r
  <2>4. QED
    BY <1>6, <2>1, <2>2, <2>3
<1>8. ASSUME NEW v \in DOMAIN ledger, RestoreFile(v) PROVE RequestsBound'
  <2> DEFINE r == [by |-> "rollback", at |-> "recording"]
  <2>1. r \in Run
    BY DEF Run
  <2>2. runs' = Append(runs, r) /\ Room
    BY <1>8 DEF RestoreFile
  <2> HIDE DEF r
  <2>3. QED
    BY <1>6, <2>1, <2>2
<1>9. CASE RestartMemory
  <2>1. Requested' = {}
    BY <1>9 DEF RestartMemory, Requested
  <2>2. QED
    BY <2>1, FS_EmptySet, MemoryBounds DEF RequestsBound
<1>10. CASE BeatStarts \/ \E t \in Conversations : Turn(t) \/ GoQuiet(t)
  BY <1>2, <1>10 DEF BeatStarts, Turn, GoQuiet, fileVars
<1>11. ASSUME NEW i \in DOMAIN runs, MemoryRunStep(i) PROVE RequestsBound'
  BY <1>3, <1>4, <1>5, <1>11
     DEF MemoryRunStep, KeepFile, WriteFile, Record, RebuildPrompt, BeatMarks
<1>12. ASSUME NEW i \in DOMAIN runs, RunFails(i) PROVE RequestsBound'
  BY <1>3, <1>12 DEF RunFails
<1>13. QED
  BY <1>7, <1>8, <1>9, <1>10, <1>11, <1>12 DEF FileStep

(* The texts that exist, and the turns that were seen. *)
TextsBound ==
    /\ file \in 0..MaxTexts /\ minted \in 0..MaxTexts /\ prompt \in 0..MaxTexts
    /\ ledger \in Seq(0..MaxTexts) /\ torn \in BOOLEAN /\ outdated \in BOOLEAN
TurnsBound ==
    /\ active \in [Conversations -> 0..MaxActivity]
    /\ \A k \in DOMAIN beat : beat[k].seen > 0

LEMMA TextsKeep ==
    ASSUME TextsBound, FileStep
    PROVE  TextsBound'
<1>1. /\ MaxTexts \in Nat /\ file \in 0..MaxTexts /\ minted \in 0..MaxTexts
      /\ prompt \in 0..MaxTexts /\ ledger \in Seq(0..MaxTexts)
      /\ torn \in BOOLEAN /\ outdated \in BOOLEAN
  BY MemoryBounds DEF TextsBound
<1>2. Append(ledger, file) \in Seq(0..MaxTexts) /\ <<file>> \in Seq(0..MaxTexts)
  BY <1>1, AppendProperties
<1>3. ASSUME NEW by, Reflect(by) PROVE TextsBound'
  BY <1>1, <1>2, <1>3 DEF Reflect, TextsBound
<1>4. ASSUME NEW i, WriteFile(i) PROVE TextsBound'
  <2>1. minted + 1 \in 0..MaxTexts
    BY <1>1, <1>4 DEF WriteFile
  <2>2. QED
    BY <1>1, <1>4, <2>1 DEF WriteFile, TextsBound
<1>5. ASSUME NEW v \in DOMAIN ledger, RestoreFile(v) PROVE TextsBound'
  <2>1. ledger[v] \in 0..MaxTexts
    BY <1>1, LenProperties
  <2>2. QED
    BY <1>1, <1>5, <2>1 DEF RestoreFile, TextsBound
<1>6. ASSUME NEW i, Record(i) PROVE TextsBound'
  BY <1>1, <1>2, <1>6 DEF Record, TextsBound
<1>7. ASSUME NEW i, KeepFile(i) \/ RebuildPrompt(i) \/ BeatMarks(i) PROVE TextsBound'
  BY <1>1, <1>7 DEF KeepFile, RebuildPrompt, BeatMarks, TextsBound
<1>8. ASSUME NEW i, RunFails(i) PROVE TextsBound'
  <2>1. outdated' \in BOOLEAN
    BY <1>8, Zenon DEF RunFails
  <2>2. QED
    BY <1>1, <1>8, <2>1 DEF RunFails, TextsBound
<1>9. CASE RestartMemory
  <2>1. torn' \in BOOLEAN
    BY <1>9, Zenon DEF RestartMemory
  <2>2. QED
    BY <1>1, <1>9, <2>1 DEF RestartMemory, TextsBound
<1>10. CASE BeatStarts \/ \E t \in Conversations : Turn(t) \/ GoQuiet(t)
  BY <1>1, <1>10 DEF BeatStarts, Turn, GoQuiet, fileVars, TextsBound
<1>11. QED
  BY <1>3, <1>4, <1>5, <1>6, <1>7, <1>8, <1>9, <1>10
     DEF FileStep, ReflectOnRequest, BeatReflects, MemoryRunStep

(* What a heartbeat saw of a worthy conversation is at least one turn. *)
LEMMA BeatStartsSeen ==
    ASSUME RunsInv, BeatStarts
    PROVE  \A k \in DOMAIN beat' : beat'[k].seen > 0
<1>1. PICK order \in SetToSeqs(Worthy) :
        beat' = [i \in 1..(IF Len(order) < PerRun THEN Len(order) ELSE PerRun) |->
                    [thread |-> order[i], seen |-> active[order[i]]]]
  BY DEF BeatStarts
<1>2. Worthy \subseteq Conversations /\ Worthy \subseteq 1..MaxThreads /\ MaxThreads \in Int
  <2>1. Worthy \subseteq Conversations
    BY DEF RunsInv, MemoryShape, Worthy
  <2>2. MaxThreads \in Nat \ {0}
    BY MemoryBounds
  <2>3. QED
    BY <2>1, <2>2 DEF Conversations
<1>3. IsFiniteSet(Worthy) /\ Cardinality(Worthy) \in Nat
  <2>1. IsFiniteSet(1..MaxThreads)
    BY <1>2, FS_Interval
  <2>2. IsFiniteSet(Worthy)
    BY <1>2, <2>1, FS_Subset
  <2>3. QED
    BY <2>2, FS_CardinalityType
<1>4. order \in [1..Cardinality(Worthy) -> Worthy] /\ Len(order) = Cardinality(Worthy)
  BY <1>3 DEF SetToSeqs
<1> DEFINE n == IF Len(order) < PerRun THEN Len(order) ELSE PerRun
           seen(k) == [thread |-> order[k], seen |-> active[order[k]]]
<1>5. n \in Nat /\ n <= Len(order)
  <2>1. PerRun \in Nat
    BY MemoryBounds
  <2>2. QED
    BY <1>3, <1>4, <2>1
<1>6. beat' = [k \in 1..n |-> seen(k)]
  BY <1>1
<1> HIDE DEF n
<1>7. ASSUME NEW k \in 1..n PROVE active[order[k]] > 0
  <2>1. order[k] \in Worthy
    BY <1>3, <1>4, <1>5
  <2>2. reflected[order[k]] < active[order[k]] /\ reflected[order[k]] \in Nat
        /\ active[order[k]] \in Nat
    BY <1>2, <2>1 DEF Worthy, RunsInv, MemoryShape
  <2>3. QED
    BY <2>2
<1>8. QED
  BY <1>6, <1>7

LEMMA TurnsKeep ==
    ASSUME RunsInv, TurnsBound, FileStep
    PROVE  TurnsBound'
<1>1. ASSUME UNCHANGED active, beat' = beat \/ beat' = <<>> PROVE TurnsBound'
  BY <1>1 DEF TurnsBound
<1>2. ASSUME NEW t \in Conversations, Turn(t) PROVE TurnsBound'
  <2>1. MaxActivity \in Nat /\ active[t] \in 0..MaxActivity /\ active[t] < MaxActivity
    BY <1>2, MemoryBounds DEF Turn, TurnsBound
  <2>2. QED
    BY <1>2, <2>1 DEF Turn, TurnsBound
<1>3. CASE BeatStarts
  BY <1>3, BeatStartsSeen DEF BeatStarts, TurnsBound
<1>4. ASSUME NEW i \in DOMAIN runs, BeatMarks(i) PROVE TurnsBound'
  <2>1. Len(beat) > 0
    BY <1>4 DEF BeatMarks, RunsInv, BeatInv, LookedIsBeat, Beating, BeatHasRead
  <2>2. beat' = Tail(beat) /\ UNCHANGED active
    BY <1>4 DEF BeatMarks
  <2>3. \A k \in DOMAIN Tail(beat) : k + 1 \in DOMAIN beat /\ Tail(beat)[k] = beat[k + 1]
    BY <2>1, RestOfBeat DEF RunsInv
  <2>4. QED
    BY <2>2, <2>3 DEF TurnsBound
<1>5. CASE FileStep /\ ~BeatStarts /\ ~(\E i \in DOMAIN runs : BeatMarks(i))
                    /\ ~(\E t \in Conversations : Turn(t))
  <2>1. UNCHANGED active /\ (beat' = beat \/ beat' = <<>>)
    BY <1>5 DEF FileStep, ReflectOnRequest, Reflect, BeatReflects, RestartMemory, MemoryRunStep,
       KeepFile, WriteFile, Record, RebuildPrompt, RunFails, RestoreFile, GoQuiet, beatVars
  <2>2. QED
    BY <1>1, <2>1
<1>6. QED
  BY <1>2, <1>3, <1>4, <1>5

LEMMA MemoryTyped ==
    ASSUME RunsInv, RequestsBound, TextsBound, TurnsBound
    PROVE  MemoryTypeOK
<1>1. Len(runs) <= MaxRuns + 1
  BY RunsBounded DEF RunsInv, BeatInv
<1>2. MaxActivity \in Nat
  BY MemoryBounds
<1>3. \A t \in Conversations : /\ reflected[t] \in 0..MaxActivity
                               /\ read[t] \in 0..MaxActivity
  <2> SUFFICES ASSUME NEW t \in Conversations
               PROVE  reflected[t] \in 0..MaxActivity /\ read[t] \in 0..MaxActivity
    OBVIOUS
  <2>1. reflected[t] <= read[t] /\ read[t] <= active[t]
    BY DEF RunsInv, BeatInv, ReadIsPast
  <2>2. reflected[t] \in Nat /\ read[t] \in Nat /\ active[t] \in 0..MaxActivity
    BY DEF RunsInv, MemoryShape, TurnsBound
  <2>3. QED
    BY <1>2, <2>1, <2>2
<1>4. {active, reflected, read} \subseteq [Conversations -> 0..MaxActivity]
  BY <1>3 DEF RunsInv, MemoryShape, TurnsBound
<1>5. beat \in Seq([thread : Conversations, seen : 1..MaxActivity])
  <2>1. /\ Len(beat) \in Nat /\ DOMAIN beat = 1..Len(beat)
        /\ beat \in [1..Len(beat) -> [thread : Conversations, seen : Nat]]
    BY LenProperties DEF RunsInv, MemoryShape
  <2>2. ASSUME NEW k \in 1..Len(beat)
        PROVE  beat[k] \in [thread : Conversations, seen : 1..MaxActivity]
    <3>1. beat[k] \in [thread : Conversations, seen : Nat] /\ beat[k].seen > 0
      BY <2>1 DEF TurnsBound
    <3>2. beat[k].seen <= active[beat[k].thread] /\ active[beat[k].thread] \in 0..MaxActivity
      BY <2>1, <3>1 DEF RunsInv, BeatInv, SeenIsPast, TurnsBound
    <3>3. beat[k].seen \in 1..MaxActivity
      BY <1>2, <3>1, <3>2
    <3>4. QED
      BY <3>1, <3>3
  <2>3. beat \in [1..Len(beat) -> [thread : Conversations, seen : 1..MaxActivity]]
    BY <2>1, <2>2
  <2>4. QED
    BY <2>1, <2>3, SeqDef
<1>6. QED
  BY <1>1, <1>4, <1>5 DEF MemoryTypeOK, RunsInv, MemoryShape, TextsBound

-----------------------------------------------------------------------------
(* The Memory panel. *)
OverviewsBound ==
    /\ IsFiniteSet(overviews) /\ Cardinality(overviews) <= 2
    /\ \A o \in overviews \cup {overview} : o.items \subseteq Wordings
    /\ corrections \subseteq [old : Wordings, new : Wordings]
    /\ hasty \in BOOLEAN /\ memoryBusy \in BOOLEAN /\ memoryError \in BOOLEAN

LEMMA OverviewsKeep ==
    ASSUME OverviewsBound, PanelStep
    PROVE  OverviewsBound'
<1> DEFINE Good(os) == /\ IsFiniteSet(os) /\ Cardinality(os) <= 2
                       /\ \A o \in os : o.items \subseteq Wordings
<1>1. /\ IsFiniteSet(overviews) /\ Cardinality(overviews) <= 2 /\ Cardinality(overviews) \in Nat
      /\ \A o \in overviews : o.items \subseteq Wordings
      /\ overview.items \subseteq Wordings /\ NoOverview.items \subseteq Wordings
      /\ hasty \in BOOLEAN /\ memoryBusy \in BOOLEAN /\ memoryError \in BOOLEAN
      /\ corrections \subseteq [old : Wordings, new : Wordings]
  BY FS_CardinalityType DEF OverviewsBound, NoOverview
<1>2. Overview.items \subseteq Wordings /\ Overview'.items \subseteq Wordings
  BY DEF Overview, LiveWordings
<1>3. ASSUME NEW o, o.items \subseteq Wordings PROVE Good({o})
  <2>1. IsFiniteSet({o}) /\ Cardinality({o}) = 1
    BY FS_Singleton
  <2>2. QED
    BY <1>3, <2>1
<1>4. Good(overviews)
  BY <1>1
<1>5. ASSUME NEW o PROVE Good(overviews \ {o})
  <2>1. /\ IsFiniteSet(overviews \ {o})
        /\ Cardinality(overviews \ {o}) = IF o \in overviews THEN Cardinality(overviews) - 1
                                                            ELSE Cardinality(overviews)
    BY <1>1, FS_RemoveElement
  <2>2. Cardinality(overviews \ {o}) <= 2
    BY <1>1, <2>1
  <2>3. QED
    BY <1>1, <2>1, <2>2
<1>6. ASSUME LoadOverview PROVE Good(overviews') /\ memoryError' = FALSE
  <2>1. CASE Cardinality(overviews) < 2
    <3>1. overviews' = overviews \cup {Overview'} /\ memoryError' = FALSE
      BY <1>6, <2>1 DEF LoadOverview
    <3>2. /\ IsFiniteSet(overviews \cup {Overview'})
          /\ Cardinality(overviews \cup {Overview'}) =
                IF Overview' \in overviews THEN Cardinality(overviews)
                                          ELSE Cardinality(overviews) + 1
      BY <1>1, FS_AddElement
    <3>3. Cardinality(overviews') <= 2
      BY <1>1, <2>1, <3>1, <3>2
    <3>4. QED
      BY <1>1, <1>2, <3>1, <3>2, <3>3
  <2>2. CASE ~(Cardinality(overviews) < 2)
    <3>1. overviews' = {Overview'} /\ memoryError' = FALSE
      BY <1>6, <2>2 DEF LoadOverview
    <3>2. QED
      BY <1>2, <1>3, <3>1
  <2>3. QED
    BY <2>1, <2>2
<1>7. ASSUME Good(overviews'), overview'.items \subseteq Wordings,
             hasty' \in BOOLEAN, memoryBusy' \in BOOLEAN, memoryError' \in BOOLEAN,
             corrections' \subseteq [old : Wordings, new : Wordings]
      PROVE  OverviewsBound'
  BY <1>7 DEF OverviewsBound
<1>8. \A o \in overviews : o.items \subseteq Wordings
  BY <1>1
<1> HIDE DEF Good
<1>9. CASE UNCHANGED <<itemVars, memoryPanelVars>>
  BY <1>1, <1>4, <1>7, <1>9 DEF itemVars, memoryPanelVars
<1>10. CASE ConfirmRestore \/ PreviewArrives \/ \E v \in DOMAIN ledger : OpenPreview(v)
  BY <1>1, <1>4, <1>7, <1>10 DEF ConfirmRestore, PreviewArrives, OpenPreview, itemVars
<1>11. CASE ReopenMemory
  <2>1. Good({Overview})
    BY <1>2, <1>3
  <2>2. QED
    BY <1>1, <1>7, <1>11, <2>1 DEF ReopenMemory, itemVars
<1>12. CASE MemoryServerRestarts
  <2>1. hasty' \in BOOLEAN /\ memoryError' \in BOOLEAN
    BY <1>12, Zenon DEF MemoryServerRestarts
  <2>2. QED
    BY <1>1, <1>4, <1>7, <1>12, <2>1 DEF MemoryServerRestarts
<1>13. CASE LinkCorrection
  <2>1. CASE LoadOverview
    BY <1>1, <1>6, <1>7, <1>13, <2>1 DEF LinkCorrection
  <2>2. CASE UNCHANGED <<overviews, memoryError>>
    BY <1>1, <1>4, <1>7, <1>13, <2>2 DEF LinkCorrection
  <2>3. QED
    BY <1>13, <2>1, <2>2 DEF LinkCorrection, ChangeAnswered
<1>14. ASSUME NEW i, MemoryServes(i) PROVE OverviewsBound'
  <2>1. CASE LoadOverview /\ memoryBusy' = FALSE
    BY <1>1, <1>6, <1>7, <1>14, <2>1 DEF MemoryServes, itemVars
  <2>2. CASE UNCHANGED <<overviews, memoryBusy, memoryError>>
    BY <1>1, <1>4, <1>7, <1>14, <2>2 DEF MemoryServes, itemVars
  <2>3. QED
    BY <1>14, <2>1, <2>2 DEF MemoryServes
<1>15. ASSUME NEW i, MemoryFails(i) PROVE OverviewsBound'
  BY <1>1, <1>4, <1>7, <1>15 DEF MemoryFails, itemVars
<1>16. ASSUME NEW o \in overviews, OverviewArrives(o) \/ OverviewLost(o) PROVE OverviewsBound'
  BY <1>1, <1>5, <1>7, <1>8, <1>16 DEF OverviewArrives, OverviewLost, itemVars
<1>17. ASSUME NEW w \in Wordings, ItemRow(w) PROVE OverviewsBound'
  <2>1. hasty' \in BOOLEAN
    BY <1>17, Zenon DEF ItemRow, Forget, forgetMemory, Correct, supersedeMemory, ActsOn
  <2>2. CASE Forget(w)
    <3>1. CASE LoadOverview
      BY <1>1, <1>6, <1>7, <2>1, <2>2, <3>1 DEF Forget, forgetMemory
    <3>2. CASE UNCHANGED <<overviews, memoryError>>
      BY <1>1, <1>4, <1>7, <2>1, <2>2, <3>2 DEF Forget, forgetMemory
    <3>3. QED
      BY <2>2, <3>1, <3>2 DEF Forget, forgetMemory, ChangeAnswered
  <2>3. CASE Correct(w)
    BY <1>1, <1>4, <1>7, <2>1, <2>3 DEF Correct, supersedeMemory, memoryPanelVars
  <2>4. QED
    BY <1>17, <2>2, <2>3 DEF ItemRow
<1>18. QED
  BY <1>9, <1>10, <1>11, <1>12, <1>13, <1>14, <1>15, <1>16, <1>17 DEF PanelStep

LEMMA MemoryPanelTyped ==
    ASSUME TextsBound, OnlyListed, OverviewsBound,
           wording \in [Wordings -> {"none", "live", "gone"}]
    PROVE  MemoryPanelTypeOK
<1>1. preview.version \in Nat /\ preview.text \in -1..MaxTexts
  <2>1. MaxTexts \in Nat
    BY MemoryBounds
  <2>2. CASE preview.text = -1
    BY <2>1, <2>2 DEF OnlyListed
  <2>3. CASE preview.text # -1
    <3>1. preview.version \in DOMAIN ledger /\ ledger[preview.version] = preview.text
      BY <2>3 DEF OnlyListed
    <3>2. preview.text \in 0..MaxTexts
      BY <3>1, LenProperties DEF TextsBound
    <3>3. QED
      BY <2>1, <3>2 DEF OnlyListed
  <2>4. QED
    BY <2>2, <2>3
<1>2. QED
  BY <1>1 DEF OverviewsBound, MemoryPanelTypeOK

MemoryBound == RequestsBound /\ TextsBound /\ TurnsBound /\ OverviewsBound

LEMMA MemoryStaysBound == MemoryInv /\ MemoryBound /\ [Next]_vars => MemoryBound'
<1> SUFFICES ASSUME MemoryInv, MemoryBound, [Next]_vars PROVE MemoryBound'
  OBVIOUS
<1>1. CASE PanelStep
  <2>1. RequestsBound' /\ TextsBound' /\ TurnsBound'
    <3>1. CASE FileStep
      BY <3>1, RequestsKeep, TextsKeep, TurnsKeep DEF MemoryInv, MemoryBound
    <3>2. CASE UNCHANGED memoryVars
      BY <3>2 DEF memoryVars, fileVars, beatVars, MemoryBound, RequestsBound, Requested,
                  TextsBound, TurnsBound
    <3>3. QED
      BY <1>1, <3>1, <3>2, PanelMovesFile
  <2>2. QED
    BY <1>1, <2>1, OverviewsKeep DEF MemoryBound
<1>2. CASE UNCHANGED <<memoryVars, itemVars, memoryPanelVars>>
  BY <1>2 DEF memoryVars, fileVars, beatVars, itemVars, memoryPanelVars, MemoryBound,
              RequestsBound, Requested, TextsBound, TurnsBound, OverviewsBound
<1>3. QED
  BY <1>1, <1>2, MemoryMove

-----------------------------------------------------------------------------
(* All together. *)
Spent == panel \in Parts /\ gestures \in 0..MaxGestures /\ faults \in 0..MaxFaults

LEMMA SpentKeeps == Spent /\ [Next]_vars => Spent'
<1> SUFFICES ASSUME Spent, [Next]_vars PROVE Spent'
  OBVIOUS
<1>1. CASE Calm
  BY <1>1 DEF Calm, Spent
<1>2. CASE Gesture \/ Fault
  BY <1>2, OwnerBounds DEF Gesture, Fault, Spent
<1>3. CASE UNCHANGED vars
  BY <1>3 DEF vars, Spent
<1>4. QED
  BY <1>1, <1>2, <1>3
     DEF Next, ToolsOwner, ToolsRun, ToolsFail, VersionsOwner, VersionsRun, VersionsFail,
         HeartbeatsRun, HeartbeatsFail, ItemsOwner, ItemsRun, ItemsFail,
         WorkOwner, WorkRun, WorkFail

LEMMA BoundAtFirst == Init => ToolsBound /\ MemoryBound /\ Spent
<1> SUFFICES ASSUME Init PROVE ToolsBound /\ MemoryBound /\ Spent
  OBVIOUS
<1>1. calls = <<>> /\ runs = <<>> /\ beat = <<>> /\ ledger = <<>>
  BY DEF Init, RegistryInit, MemoryInit
<1>2. status = "none" => Len(history) = 0
  BY DEF Init, RegistryInit
<1>3. ToolsBound
  <2>1. ListTools \in ToolView \cup {NoTool}
    BY <1>2, ToolIsListed, ToolsInitInv DEF Init, ToolsInv
  <2>2. IsFiniteSet({ListTools}) /\ Cardinality({ListTools}) = 1
    BY FS_Singleton
  <2>3. Len(calls) <= MaxCalls
    BY <1>1, RegistryBounds
  <2>4. tool = NoTool /\ listings = {ListTools} /\ toolBusy = FALSE /\ toolError = FALSE
    BY DEF Init, ToolsPanelInit
  <2>5. Cardinality({ListTools}) <= 2
    BY <2>2
  <2>6. listings \subseteq ToolView \cup {NoTool}
    BY <2>1, <2>4, Zenon
  <2>7. IsFiniteSet(listings) /\ Cardinality(listings) <= 2
    BY <2>2, <2>4, <2>5, Zenon
  <2>8. QED
    BY <1>2, <2>3, <2>4, <2>6, <2>7 DEF ToolsBound, ToolsPanelTypeOK
<1>4. RequestsBound
  <2>1. Requested = {}
    BY <1>1 DEF Requested
  <2>2. QED
    BY <2>1, FS_EmptySet, MemoryBounds DEF RequestsBound
<1>5. TextsBound /\ TurnsBound
  <2>1. MaxTexts \in Nat /\ MaxActivity \in Nat
    BY MemoryBounds
  <2>2. ledger \in Seq(0..MaxTexts) /\ DOMAIN beat = {}
    BY <1>1
  <2>3. /\ file = 0 /\ minted = 0 /\ prompt = 0 /\ torn = FALSE /\ outdated = FALSE
        /\ active = [t \in Conversations |-> 0]
    BY DEF Init, MemoryInit
  <2>4. TextsBound
    <3>1. 0 \in 0..MaxTexts /\ FALSE \in BOOLEAN
      BY <2>1
    <3>2. QED
      BY <2>2, <2>3, <3>1, Zenon DEF TextsBound
  <2>5. active \in [Conversations -> 0..MaxActivity]
    BY <2>1, <2>3
  <2>6. QED
    BY <2>2, <2>4, <2>5 DEF TurnsBound
<1>6. OverviewsBound
  <2>1. IsFiniteSet({Overview}) /\ Cardinality({Overview}) = 1
    BY FS_Singleton
  <2>2. Cardinality({Overview}) <= 2
    BY <2>1
  <2>3. Overview.items \subseteq Wordings /\ NoOverview.items \subseteq Wordings
    BY DEF Overview, LiveWordings, NoOverview
  <2>4. QED
    BY <2>1, <2>2, <2>3 DEF Init, MemoryPanelInit, OverviewsBound
<1>7. Spent
  BY OwnerBounds DEF Init, Spent
<1>8. QED
  BY <1>3, <1>4, <1>5, <1>6, <1>7 DEF MemoryBound

(* Every variable of the panels has its type, and no list of handlers, runs  *)
(* or answers under way grows past its bound.                              *)
THEOREM PanelsTyped == Spec => []TypeOK
<1>1. /\ ToolsInv /\ ToolsInv' /\ MemoryInv /\ ToolsBound /\ MemoryBound /\ Spent /\ [Next]_vars
      => ToolsBound' /\ MemoryBound' /\ Spent'
  BY ToolsStayBound, MemoryStaysBound, SpentKeeps
<1>2. Spec => [](ToolsBound /\ MemoryBound /\ Spent)
  BY <1>1, BoundAtFirst, ToolsHold, MemoryHolds, PTL DEF Spec
<1>3. /\ ToolsInv /\ MemoryInv /\ SchedulesInv /\ ToolsBound /\ MemoryBound /\ Spent => TypeOK
  <2> SUFFICES ASSUME ToolsInv, MemoryInv, SchedulesInv, ToolsBound, MemoryBound, Spent
               PROVE  TypeOK
    OBVIOUS
  <2>1. RegistryTypeOK /\ ToolsPanelTypeOK
    BY DEF ToolsInv, ToolShape, ToolsBound, RegistryTypeOK
  <2>2. MemoryTypeOK /\ MemoryPanelTypeOK
    BY MemoryTyped, MemoryPanelTyped DEF MemoryInv, MemoryBound
  <2>3. QED
    BY <2>1, <2>2 DEF SchedulesInv, Spent, TypeOK
<1>4. QED
  BY <1>2, <1>3, ToolsHold, MemoryHolds, SchedulesHold, PTL
=============================================================================
