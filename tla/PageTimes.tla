----------------------------- MODULE PageTimes -----------------------------
(***************************************************************************)
(* How the page tells times (src/web/lib/threads-api.ts, jobs-api.ts): the *)
(* conversations of the sidebar by calendar day, ages, and the rhythm and  *)
(* the next fire of a schedule.  Days begin at local midnight; one of them *)
(* may be an hour short or long, as clocks are set.  Times the server      *)
(* sends always parse: what the code does with one that does not is left   *)
(* out.                                                                    *)
(***************************************************************************)
EXTENDS Integers

CONSTANTS
    Days,   \* the days that pass
    Spans   \* lengths of time that are told, in seconds

ASSUME TimesAssumption == Days \in Nat \ {0} /\ Spans \subseteq Nat

VARIABLES
    today,
    spokeOn,      \* the day of the conversation's last activity
    shifted, by,  \* the day on which clocks are set, and the hours it gains
    grouped       \* the group under which the sidebar lists the conversation,
                  \* with its days as they were: [group, spokeOn, today]
timeVars == <<today, spokeOn, shifted, by, grouped>>

Groups == {"Today", "Yesterday", "Previous 7 days", "Older"}

TimesTypeOK ==
    /\ {today, spokeOn, shifted} \subseteq 1..Days /\ by \in {-1, 0, 1}
    /\ grouped \in [group : Groups, spokeOn : 1..Days, today : 1..Days]

(* Hours from the first midnight to that of a day. *)
StartOfDay(d) ==
    24 * (d - 1) + (IF shifted < d THEN by ELSE 0)

GroupOf(dayDiff) ==
    CASE dayDiff <= 0 -> "Today"
      [] dayDiff = 1 -> "Yesterday"
      [] dayDiff \in 2..7 -> "Previous 7 days"
      [] OTHER -> "Older"

\* Mutant: the quotient is cut off instead of rounded.
groupForDayCut(then, now) == GroupOf((StartOfDay(now) - StartOfDay(then)) \div 24)

(* groupForTimestamp: Math.round, half up. *)
groupForDay(then, now) == GroupOf((StartOfDay(now) - StartOfDay(then) + 12) \div 24)

Listing(then, now) == [group |-> groupForDay(then, now), spokeOn |-> then, today |-> now]

TimesInit ==
    /\ today = 1 /\ spokeOn = 1 /\ shifted \in 1..Days /\ by \in {-1, 0, 1}
    /\ grouped = Listing(1, 1)

Midnight ==
    /\ today < Days /\ today' = today + 1
    /\ UNCHANGED <<spokeOn, shifted, by, grouped>>

Speaks ==
    /\ spokeOn # today /\ spokeOn' = today
    /\ UNCHANGED <<today, shifted, by, grouped>>

(* The groups are worked out when the list changes, not when the day does. *)
ListGrouped ==
    /\ grouped' = Listing(spokeOn, today)
    /\ UNCHANGED <<today, spokeOn, shifted, by>>

TimesNext == Midnight \/ Speaks \/ ListGrouped

-----------------------------------------------------------------------------
Amount(n, unit) == [n |-> n, unit |-> unit]
Second == 1
Minute == 60
Hour == 3600
Day == 86400

relativeTime(seconds) ==
    CASE seconds < 90 -> Amount(0, Second)
      [] seconds \in 90..(Hour - 1) -> Amount(seconds \div Minute, Minute)
      [] seconds \in Hour..(Day - 1) -> Amount((seconds \div Minute) \div 60, Hour)
      [] OTHER -> Amount(((seconds \div Minute) \div 60) \div 24, Day)

(* In hours and the minutes that remain. *)
untilTime(seconds) ==
    LET minutes == seconds \div 60 IN [hours |-> minutes \div 60, minutes |-> minutes % 60]

cadenceSentence(seconds) ==
    CASE seconds % Hour = 0 /\ seconds >= Hour -> Amount(seconds \div Hour, Hour)
      [] seconds % Minute = 0 /\ ~(seconds % Hour = 0 /\ seconds >= Hour) ->
            Amount(seconds \div Minute, Minute)
      [] OTHER -> Amount(seconds, Second)

-----------------------------------------------------------------------------
(* "Calendar-day comparison ...; DST-safe because it never does hour       *)
(* arithmetic across day boundaries" (threads-api.ts): a conversation was  *)
(* listed under the group that counting midnights gives, whichever days in *)
(* between was short or long.                                              *)
GroupsCountMidnights ==
    grouped.group = GroupOf(grouped.today - grouped.spokeOn)

(* An age and a wait are told in whole units and never more than they are, *)
(* and a rhythm is told exactly.                                           *)
SpansAreTold ==
    \A s \in Spans :
        /\ LET age == relativeTime(s) IN
            age.n > 0 => age.n * age.unit <= s /\ s < (age.n + 1) * age.unit
        /\ LET wait == untilTime(s).hours * Hour + untilTime(s).minutes * Minute IN
            wait <= s /\ s < wait + Minute
        /\ cadenceSentence(s).n * cadenceSentence(s).unit = s

TimesAreTold == GroupsCountMidnights /\ SpansAreTold
=============================================================================
