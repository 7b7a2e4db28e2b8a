------------------------------- MODULE MCRecurrence ----------------------------
(***************************************************************************)
(* The rules of templates and the tasks made from them, side by side: in a *)
(* behaviour one of the two moves and the other stays as it began.         *)
(***************************************************************************)
EXTENDS RecurrenceRules, Occurrences, TLC

CONSTANTS t1, t2

VARIABLE side     \* the one that moves

allVars == <<rulesVars, vars, side>>

Rules(action) == side = "rules" /\ action /\ UNCHANGED <<vars, side>>
Tasks(action) == side = "tasks" /\ action /\ UNCHANGED <<rulesVars, side>>

IdleRequest == CHOOSE r \in Requests : TRUE

MCInit ==
    /\ side \in {"rules", "tasks"}
    /\ RulesInit
    /\ side = "tasks" => request = IdleRequest
    /\ Init

MCNext == Rules(RulesNext) \/ Tasks(Next)

\* The fairness of FairSpec.
MCSpec ==
    /\ MCInit /\ [][MCNext]_allVars
    /\ SF_allVars(Tasks(Pass)) /\ WF_allVars(Tasks(Creation)) /\ WF_allVars(Tasks(ClockAdvances))

-----------------------------------------------------------------------------
(* Rules: 2027 begins on a Friday and the year after it is a leap year; a   *)
(* day has 24 hours, and the zones move their clock on the fourth day.      *)

Forward == [at |-> 3 * 24 + 2, before |-> 0, after |-> 1]
Back == [at |-> 3 * 24 + 1, before |-> -4, after |-> -5]
Midnight == [at |-> 3 * 24 + 4, before |-> -4, after |-> -3]
MCZones == {Forward, Back, Midnight}

Plain ==
    [frequency |-> "daily", interval |-> 1, weekdays |-> {}, monthDays |-> {}, first |-> 1,
     startTime |-> 2, duration |-> None, until |-> None, count |-> None, zone |-> Forward]

Bounds ==
    {<<None, None>>, <<40, None>>, <<0, None>>, <<None, 1>>, <<None, 3>>, <<None, 0>>, <<40, 3>>}

Bounded(r) == {[r EXCEPT !.until = b[1], !.count = b[2]] : b \in Bounds}

DailyRules ==
    UNION {Bounded([Plain EXCEPT !.interval = n, !.first = d]) : n \in {0, 1, 3, 90}, d \in {2, 57}}

WeeklyRules ==
    UNION {Bounded([Plain EXCEPT !.frequency = "weekly", !.interval = n, !.first = d, !.weekdays = w]) :
              n \in 1 .. 3, d \in 2 .. 8, w \in {{}, {0}, {6}, {0, 2, 6}, {1, 7}}}

MonthlyRules ==
    UNION {Bounded([Plain EXCEPT !.frequency = "monthly", !.interval = n, !.first = d, !.monthDays = m]) :
              n \in {1, 2, 5}, d \in {0, 27, 30, 31, 58, 89}, m \in {{}, {1}, {31}, {1, 29, 30}, {0}}}

Misplaced ==
    {[Plain EXCEPT !.weekdays = {1}], [Plain EXCEPT !.monthDays = {1}],
     [Plain EXCEPT !.frequency = "yearly"], [Plain EXCEPT !.first = None],
     [Plain EXCEPT !.duration = 25], [Plain EXCEPT !.zone = [Forward EXCEPT !.at = None]]}

ClockChanges ==
    {[Plain EXCEPT !.zone = z, !.startTime = t, !.duration = d, !.count = 5] :
        z \in MCZones, t \in 0 .. 23, d \in {None, 1, 2, 24}}

MCRequests == DailyRules \cup WeeklyRules \cup MonthlyRules \cup Misplaced \cup ClockChanges

\* The 30th of every twelfth month from a February on.
MCNeverRequests ==
    {[Plain EXCEPT !.frequency = "monthly", !.interval = n, !.first = 40, !.monthDays = {30}] :
        n \in {1, 12}}

-----------------------------------------------------------------------------
(* Tasks: days of two hours; t1 has an occurrence on each day, and t2 on    *)
(* some days until it cannot be generated any further.                      *)

MCTemplate == {t1, t2}
MCDatesOf == (t1 :> 1 .. 3) @@ (t2 :> {0, 2, 4})
MCDayBegins == [t \in MCTemplate |-> [d \in 0 .. 4 |-> 2 * d]]
MCStartAt == [t \in MCTemplate |-> [d \in 0 .. 4 |-> IF t = t1 THEN 2 * d + 1 ELSE 2 * d]]
MCBreaksFrom == (t1 :> 9) @@ (t2 :> 4)
MCFirstDay == (t1 :> 2) @@ (t2 :> 0)

=============================================================================
