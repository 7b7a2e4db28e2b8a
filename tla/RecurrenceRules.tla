---------------------------- MODULE RecurrenceRules ----------------------------
(***************************************************************************)
(* A recurring template from the arguments of create_recurrence to the     *)
(* dates and instants of its occurrences (recurrence.py): the arguments    *)
(* are validated and their defaults resolved, the generator _candidates    *)
(* produces dates period by period, occurrence_dates takes them up to a    *)
(* limit, and occurrence_window turns each date into instants.             *)
(*                                                                         *)
(* A date is the number of days since 1 January of FirstYear, a month the  *)
(* number of months since then, and an instant or a wall-clock reading a   *)
(* number of hours since that midnight (DayLength hours a day).            *)
(***************************************************************************)
EXTENDS Integers, Sequences, FiniteSets, FiniteSetsExt

CONSTANTS
    Requests,        \* the arguments clients may give
    Zones,           \* the known timezones, of one transition each: [at, before, after]
    FirstYear,
    FirstWeekday,    \* the weekday of day 0; 0 is Monday
    DayLength,       \* hours in a day
    Through,         \* the last date asked for
    MaxCandidates    \* MAX_CANDIDATES

None == -1           \* an argument that is not given, a bound that is not set

Frequencies == {"daily", "weekly", "monthly"}

(***************************************************************************)
(* month_days and weekdays are {} when they are not given; duration is in  *)
(* hours, and a zone is one transition of its clock with the offsets from  *)
(* UTC before and after it, each of less than a day.  The title is left    *)
(* out.                                                                    *)
(***************************************************************************)
Arguments ==
    [frequency : STRING, interval : Int, weekdays : SUBSET Int, monthDays : SUBSET Int,
     first : Nat \cup {None}, startTime : 0 .. DayLength - 1, duration : Int, until : Int, count : Int,
     zone : [at : Int, before : Int, after : Int]]

ASSUME CalendarAssumption ==
    FirstYear \in Int /\ FirstWeekday \in 0 .. 6 /\ Through \in Int /\ MaxCandidates \in Nat
ASSUME RequestsAssumption == Requests \subseteq Arguments
ASSUME ZonesAssumption ==
    /\ DayLength \in Nat
    /\ \A zone \in Zones : {zone.before, zone.after} \subseteq 1 - DayLength .. DayLength - 1

VARIABLES
    request,   \* the arguments of create_recurrence
    rule,      \* the Recurrence built from them
    status,    \* "given", "refused", "expanding", "expanded" or "raised"
    period,    \* _candidates: the next k, week or step
    ahead,     \* _candidates: the dates of the current period not yielded yet
    examined,  \* occurrence_dates: the dates yielded so far
    dates      \* occurrence_dates: its result so far

rulesVars == <<request, rule, status, period, ahead, examined, dates>>

-----------------------------------------------------------------------------
(* The calendar                                                             *)

IsLeap(year) == year % 4 = 0 /\ (year % 100 # 0 \/ year % 400 = 0)

MonthLength(m) ==
    LET month == (m % 12) + 1
    IN  IF month = 2 THEN (IF IsLeap(FirstYear + (m \div 12)) THEN 29 ELSE 28)
        ELSE IF month \in {4, 6, 9, 11} THEN 30 ELSE 31

FirstOfMonth[m \in Nat] ==
    IF m = 0 THEN 0 ELSE FirstOfMonth[m - 1] + MonthLength(m - 1)

MonthOf(date) ==
    CHOOSE m \in 0 .. date \div 28 :
        FirstOfMonth[m] <= date /\ date < FirstOfMonth[m] + MonthLength(m)

DayOfMonth(date) == date - FirstOfMonth[MonthOf(date)] + 1
Weekday(date) == (date + FirstWeekday) % 7
WeekOf(date) == (date + FirstWeekday) \div 7

-----------------------------------------------------------------------------
(* build_recurrence                                                         *)

BoundsAreValid(r) ==
    /\ r.duration = None \/ r.duration \in 1 .. DayLength
    /\ ~(r.until # None /\ r.count # None)
    /\ r.until # None => r.until >= r.first
    /\ r.count # None => r.count >= 1

Acceptable(r) ==
    /\ r.frequency \in Frequencies
    /\ r.zone \in Zones
    /\ r.interval \in 1 .. 366
    /\ r.first # None
    /\ r.weekdays # {} => r.frequency = "weekly" /\ r.weekdays \subseteq 0 .. 6
    /\ r.monthDays # {} => r.frequency = "monthly" /\ r.monthDays \subseteq 1 .. 31
    /\ BoundsAreValid(r)

\* The defaults are resolved once, from the anchor, and recorded.
Built(r) ==
    [r EXCEPT
        !.weekdays = IF r.frequency = "weekly" /\ @ = {} THEN {Weekday(r.first)} ELSE @,
        !.monthDays = IF r.frequency = "monthly" /\ @ = {} THEN {DayOfMonth(r.first)} ELSE @]

Build ==
    /\ status = "given"
    /\ \/ /\ Acceptable(request)
          /\ rule' = Built(request)
          /\ status' = "expanding"
       \/ /\ ~Acceptable(request)
          /\ status' = "refused"
          /\ UNCHANGED rule
    /\ UNCHANGED <<request, period, ahead, examined, dates>>

-----------------------------------------------------------------------------
(* _candidates                                                              *)

\* Mutant: weeks are counted from the anchor, not from its Monday.
WeekDates_FromAnchor(week) ==
    {rule.first + 7 * week * rule.interval + day : day \in rule.weekdays}

WeekDates(week) ==
    {rule.first - Weekday(rule.first) + 7 * week * rule.interval + day : day \in rule.weekdays}

\* A day the month does not have is skipped, not clamped.
MonthDates(k) ==
    LET m == MonthOf(rule.first) + k * rule.interval
    IN  {FirstOfMonth[m] + day - 1 : day \in {d \in rule.monthDays : d <= MonthLength(m)}}

PeriodDates(k) ==
    CASE rule.frequency = "daily"   -> {rule.first + k * rule.interval}
      [] rule.frequency = "weekly"  -> {d \in WeekDates(k) : d >= rule.first}
      [] rule.frequency = "monthly" -> {d \in MonthDates(k) : d >= rule.first}

\* The `while True` of the generator: it looks at no limit.
NextPeriod ==
    /\ status = "expanding" /\ ahead = {}
    /\ ahead' = PeriodDates(period)
    /\ period' = period + 1
    /\ UNCHANGED <<request, rule, status, examined, dates>>

-----------------------------------------------------------------------------
(* occurrence_dates                                                         *)

Limit == IF rule.until # None THEN Min({Through, rule.until}) ELSE Through

CountReached == rule.count # None /\ Len(dates') >= rule.count

\* One turn of the for loop, on the next date the generator yields.
Examine ==
    /\ status = "expanding" /\ ahead # {}
    /\ LET current == Min(ahead) IN
       /\ ahead' = ahead \ {current}
       /\ examined' = examined + 1
       /\ \/ current > Limit /\ status' = "expanded" /\ UNCHANGED dates
          \/ /\ current <= Limit /\ examined' > MaxCandidates
             /\ status' = "raised" /\ UNCHANGED dates
          \/ /\ current <= Limit /\ examined' <= MaxCandidates
             /\ dates' = Append(dates, current)
             /\ status' = IF CountReached THEN "expanded" ELSE "expanding"
    /\ UNCHANGED <<request, rule, period>>

RulesInit ==
    /\ request \in Requests
    /\ rule = request
    /\ status = "given"
    /\ period = 0 /\ ahead = {} /\ examined = 0 /\ dates = <<>>

RulesNext == Build \/ NextPeriod \/ Examine

RulesSpec == RulesInit /\ [][RulesNext]_rulesVars

-----------------------------------------------------------------------------
(* occurrence_window                                                        *)

\* What zoneinfo does with a wall-clock reading whose fold is 0, and with an instant.
OffsetOfReading(reading) ==
    IF reading < rule.zone.at + Max({rule.zone.before, rule.zone.after}) THEN rule.zone.before ELSE rule.zone.after
OffsetAt(instant) == IF instant < rule.zone.at THEN rule.zone.before ELSE rule.zone.after

Reading(on) == on * DayLength + rule.startTime

\* Mutant: the end is the wall-clock start plus the duration, read as a wall clock.
Window_WallEnd(on) ==
    LET start == Reading(on) - OffsetOfReading(Reading(on))
        last == Reading(on) + rule.duration
    IN  [start |-> start, shown |-> start + OffsetAt(start),
         end |-> IF rule.duration = None THEN None ELSE last - OffsetOfReading(last)]

\* start and end are instants; shown is what the zone's clock reads at the start.
Window(on) ==
    LET start == Reading(on) - OffsetOfReading(Reading(on))
    IN  [start |-> start, shown |-> start + OffsetAt(start),
         end |-> IF rule.duration = None THEN None ELSE start + rule.duration]

-----------------------------------------------------------------------------
(* Properties                                                               *)

\* The arguments read as a condition on a date, with no generation (the module
\* docstring of recurrence.py): weeks start on Monday, the anchor's week or
\* month is number 0, a day a month does not have is no occurrence.
Occurs(date) ==
    CASE request.frequency = "daily" -> (date - request.first) % request.interval = 0
      [] request.frequency = "weekly" ->
            /\ \/ Weekday(date) \in request.weekdays
               \/ request.weekdays = {} /\ Weekday(date) = Weekday(request.first)
            /\ (WeekOf(date) - WeekOf(request.first)) % request.interval = 0
      [] request.frequency = "monthly" ->
            /\ \/ DayOfMonth(date) \in request.monthDays
               \/ request.monthDays = {} /\ DayOfMonth(date) = DayOfMonth(request.first)
            /\ (MonthOf(date) - MonthOf(request.first)) % request.interval = 0

Due == {date \in request.first .. Limit : Occurs(date)}

IsFirst(date, n) == Cardinality({d \in Due : d <= date}) <= n

\* The expansion yields every date of the rule up to the limit, once and in
\* order, or the first `count` of them, also when it is rebuilt from the log with
\* its defaults resolved (from_payload builds it again); and it gives up only on a
\* rule that has more dates than MAX_CANDIDATES (occurrence_dates: never truncate
\* silently).
DatesAreTheRule ==
    /\ \A i \in 1 .. Len(dates) - 1 : dates[i] < dates[i + 1]
    /\ status = "expanded" =>
          {dates[i] : i \in DOMAIN dates} =
              {date \in Due : rule.count # None => IsFirst(date, rule.count)}
    /\ status = "raised" => Cardinality(Due) > MaxCandidates
    /\ status \in {"expanding", "expanded", "raised"} => Acceptable(rule) /\ Built(rule) = rule

\* An occurrence starts when the zone's clock first shows the start time; if
\* the clock never shows it that day, it starts at that reading of the clock
\* before the transition, which the clock shows as a later time.  The duration
\* is absolute.
WindowReadsTheClock ==
    \A i \in DOMAIN dates :
        LET window == Window(dates[i])
            reading == Reading(dates[i])
            shows == {u \in reading - 2 * DayLength .. reading + 2 * DayLength :
                        u + OffsetAt(u) = reading}
        IN  /\ shows # {} => window.start = Min(shows) /\ window.shown = reading
            /\ shows = {} =>
                  /\ window.start = reading - rule.zone.before
                  /\ window.shown = reading + rule.zone.after - rule.zone.before
            /\ rule.duration # None => window.end = window.start + rule.duration

\* Claimed by recurrence.py (MAX_CANDIDATES, "safety bound on expansion"): the
\* generator is bounded, whatever the rule.
ExpansionIsBounded == period <= MaxCandidates + 1

=============================================================================
