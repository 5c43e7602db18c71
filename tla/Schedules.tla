----------------------------- MODULE Schedules -----------------------------
(***************************************************************************)
(* User schedules (src/server/src/saaya/jobs/schedules.py): the ticker that *)
(* turns due schedules into jobs one transaction at a time, against the    *)
(* owner who switches them in the Work panel, the jobs that end or are     *)
(* retried, and crashes.  Time is that a next_fire_at is reached.          *)
(***************************************************************************)
EXTENDS Integers, SequencesExt

CONSTANTS
    Every, OneShot,  \* the schedules of each kind
    MaxFires         \* jobs that schedules create

ASSUME SchedulesAssumption ==
    /\ IsFiniteSet(Every) /\ IsFiniteSet(OneShot) /\ Every \cap OneShot = {}
    /\ MaxFires \in Nat \ {0}

VARIABLES
    enabled,    \* schedules that are switched on
    due,        \* schedules with next_fire_at <= now
    lastJob,    \* last_job_id, or NoRun
    firedBy,    \* the schedule of every job created, in their order
    busyRuns,   \* the jobs in BUSY_STATES
    tick,       \* the views of due() that this tick has not dealt with
    stage,      \* what the tick does next for the first of them
    switchings, \* how often each was switched on
    disturbed,  \* history: schedules with a fire that was not recorded or a
                \* job that was retried
    fresh,      \* history: switched on outside a tick and not reached since
    shownOn,    \* the schedules that the panel shows as on
    listingsOn  \* listings on their way to the panel

tickerVars == <<lastJob, firedBy, busyRuns, tick, stage, disturbed>>
switchVars == <<enabled, due, switchings, fresh>>
shownVars == <<shownOn, listingsOn>>
scheduleVars == <<tickerVars, switchVars, shownVars>>

Schedule == Every \cup OneShot
NoRun == 0

SchedulesTypeOK ==
    /\ {enabled, due, shownOn, disturbed} \subseteq SUBSET Schedule
    /\ fresh \subseteq Every /\ listingsOn \subseteq SUBSET Schedule
    /\ lastJob \in [Schedule -> 0..MaxFires] /\ switchings \in [Schedule -> Nat]
    /\ firedBy \in Seq(Schedule) /\ Len(firedBy) <= MaxFires
    /\ busyRuns \subseteq DOMAIN firedBy
    /\ tick \in Seq([of : Schedule, last : 0..MaxFires])
    /\ stage \in {"check", "fire", "skip", "mark"}

(* GET /api/schedules, of which the panel shows the switches. *)
listSchedules == enabled

(* Schedules that are all off, as they ship, or were all switched on. *)
SchedulesInit ==
    /\ enabled \in {{}, Schedule} /\ due = {}
    /\ lastJob = [s \in Schedule |-> NoRun]
    /\ firedBy = <<>> /\ busyRuns = {} /\ tick = <<>> /\ stage = "check"
    /\ switchings = [s \in Schedule |-> IF s \in enabled THEN 1 ELSE 0]
    /\ disturbed = {} /\ fresh = {} /\ shownOn = {} /\ listingsOn = {listSchedules}

ClockReaches(s) ==
    /\ s \notin due /\ due' = due \cup {s} /\ fresh' = fresh \ {s}
    /\ UNCHANGED <<tickerVars, shownVars, enabled, switchings>>

(* due(): a list of views, by the time they were due. *)
TickStarts ==
    /\ tick = <<>> /\ due \cap enabled # {}
    /\ \E order \in SetToSeqs(due \cap enabled) :
        tick' = [i \in DOMAIN order |-> [of |-> order[i], last |-> lastJob[order[i]]]]
    /\ stage' = "check"
    /\ UNCHANGED <<lastJob, firedBy, busyRuns, disturbed, switchVars, shownVars>>

Of == Head(tick).of

\* Mutant: a fire does not ask for the previous job.
TickChecksNothing ==
    /\ tick # <<>> /\ stage = "check" /\ stage' = "fire"
    /\ UNCHANGED <<lastJob, firedBy, busyRuns, tick, disturbed, switchVars, shownVars>>

(* _busy: on the job that the view names. *)
TickChecks ==
    /\ tick # <<>> /\ stage = "check"
    /\ stage' = IF Head(tick).last \in busyRuns THEN "skip" ELSE "fire"
    /\ UNCHANGED <<lastJob, firedBy, busyRuns, tick, disturbed, switchVars, shownVars>>

(* Bound: MaxFires. *)
TickFires ==
    /\ tick # <<>> /\ stage = "fire" /\ Len(firedBy) < MaxFires
    /\ firedBy' = Append(firedBy, Of) /\ busyRuns' = busyRuns \cup {Len(firedBy) + 1}
    /\ stage' = "mark"
    /\ UNCHANGED <<lastJob, tick, disturbed, switchVars, shownVars>>

\* Mutant: a one-shot schedule stays switched on.
TickMarksOn ==
    /\ tick # <<>> /\ stage \in {"skip", "mark"}
    /\ lastJob' = IF stage = "mark" THEN [lastJob EXCEPT ![Of] = Len(firedBy)]
                                    ELSE lastJob
    /\ due' = due \ (Every \cap {Of})
    /\ tick' = Tail(tick) /\ stage' = "check"
    /\ UNCHANGED <<enabled, firedBy, busyRuns, disturbed, switchings, fresh, shownVars>>

\* Mutant: a fire that was skipped stays due.
TickMarksFired ==
    /\ tick # <<>> /\ stage \in {"skip", "mark"}
    /\ lastJob' = IF stage = "mark" THEN [lastJob EXCEPT ![Of] = Len(firedBy)]
                                    ELSE lastJob
    /\ enabled' = IF stage = "mark" THEN enabled \ (OneShot \cap {Of}) ELSE enabled
    /\ due' = IF stage = "mark" THEN due \ (Every \cap {Of}) ELSE due
    /\ tick' = Tail(tick) /\ stage' = "check"
    /\ UNCHANGED <<firedBy, busyRuns, disturbed, switchings, fresh, shownVars>>

(* mark_fired: an every schedule advances from the start of the tick, a    *)
(* one-shot is switched off; a skip keeps the last job.                    *)
TickMarks ==
    /\ tick # <<>> /\ stage \in {"skip", "mark"}
    /\ lastJob' = IF stage = "mark" THEN [lastJob EXCEPT ![Of] = Len(firedBy)]
                                    ELSE lastJob
    /\ enabled' = enabled \ (OneShot \cap {Of})
    /\ due' = due \ (Every \cap {Of})
    /\ tick' = Tail(tick) /\ stage' = "check"
    /\ UNCHANGED <<firedBy, busyRuns, disturbed, switchings, fresh, shownVars>>

(* The tick ends where it is, by an exception or with the process. *)
TickDies ==
    /\ tick # <<>> /\ tick' = <<>> /\ stage' = "check"
    /\ disturbed' = disturbed \cup (IF stage = "mark" THEN {Of} ELSE {})
    /\ UNCHANGED <<lastJob, firedBy, busyRuns, switchVars, shownVars>>

(* set_enabled: an every schedule that is switched on counts from now. *)
SetEnabled(s, on) ==
    /\ enabled' = IF on THEN enabled \cup {s} ELSE enabled \ {s}
    /\ due' = IF on THEN due \ (Every \cap {s}) ELSE due
    /\ switchings' = IF on THEN [switchings EXCEPT ![s] = @ + 1] ELSE switchings
    /\ LET ticking == \E i \in DOMAIN tick : tick[i].of = s IN
        fresh' = IF on /\ s \in Every /\ ~ticking THEN fresh \cup {s} ELSE fresh \ {s}

(* PATCH /api/schedules/{id}, or a request that fails. *)
setScheduleEnabled(s, on) == SetEnabled(s, on) \/ UNCHANGED switchVars

(* The switch as shown, turned; then loadSchedules either way. *)
ToggleSchedule(s) ==
    /\ setScheduleEnabled(s, s \notin shownOn)
    /\ listingsOn' = IF Cardinality(listingsOn) < 2 THEN listingsOn \cup {listSchedules'}
                                                    ELSE {listSchedules'}
    /\ UNCHANGED <<tickerVars, shownOn>>

SchedulesArrive(l) ==
    /\ l \in listingsOn /\ listingsOn' = listingsOn \ {l} /\ shownOn' = l
    /\ UNCHANGED <<tickerVars, switchVars>>

(* A job leaves BUSY_STATES, or is retried: the job system's business. *)
RunEnds(j) ==
    /\ j \in busyRuns /\ busyRuns' = busyRuns \ {j}
    /\ UNCHANGED <<lastJob, firedBy, tick, stage, disturbed, switchVars, shownVars>>

RunRetried(j) ==
    /\ j \in DOMAIN firedBy \ busyRuns /\ busyRuns' = busyRuns \cup {j}
    /\ disturbed' = disturbed \cup {firedBy[j]}
    /\ UNCHANGED <<lastJob, firedBy, tick, stage, switchVars, shownVars>>

-----------------------------------------------------------------------------
(* "While a schedule's previous job is still live, the fire is skipped":    *)
(* the jobs of a schedule never pile up, whatever the owner switches while  *)
(* the ticker works, as long as every fire was recorded and none of its    *)
(* jobs was retried.                                                       *)
NoPileUp ==
    \A s \in Schedule \ disturbed : Cardinality({j \in busyRuns : firedBy[j] = s}) <= 1

(* "One-shot schedules park themselves by disabling": a one-shot schedule   *)
(* fires at most once for each time it is switched on, also when it is     *)
(* switched off and on around its own fire.                                *)
OneShotOnce ==
    \A s \in OneShot \ disturbed :
        Cardinality({j \in DOMAIN firedBy : firedBy[j] = s}) <= switchings[s]

(* "Re-enabling an every schedule counts from now, so a long-disabled      *)
(* schedule cannot fire immediately": unless the tick under way had it.    *)
CountsFromNow ==
    [][\A s \in fresh : Len(firedBy') > Len(firedBy) => Last(firedBy') # s]_scheduleVars

(* "A past-due schedule fires once and advances from now", "next tick      *)
(* retries": what is due is fired or skipped, or switched off, although a  *)
(* tick that dies leaves the schedules after it for the next.  Up to the   *)
(* bound MaxFires.                                                         *)
DueIsServed ==
    \A s \in Schedule :
        s \in due \cap enabled ~> (s \notin due \cap enabled \/ Len(firedBy) = MaxFires)
=============================================================================
