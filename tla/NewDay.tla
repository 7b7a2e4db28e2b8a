------------------------------- MODULE NewDay -------------------------------
(***************************************************************************)
(* The NEW_DAY announcements of the processes that share a log: the        *)
(* scheduler's DayTracker (engine.py), seeded from the log when a process  *)
(* becomes the scheduler and after a failed pass (Runtime.run_pass,        *)
(* Store.day_seed), composed with the lock that elects the scheduler.      *)
(*                                                                         *)
(* A day is the local date in the day-boundary timezone, which the         *)
(* processes share.  It may move in either direction: the clock can be     *)
(* stepped back and the timezone setting moved west.                       *)
(***************************************************************************)
EXTENDS SchedulerLock, Sequences

CONSTANT LastDay       \* bound: days are 1 .. LastDay

ASSUME DayAssumption == LastDay \in Nat \ {0}

NoDay == 0             \* DayTracker(None), or a log without events
NoTracker == LastDay + 1   \* Runtime._tracker is None

Day == 1 .. LastDay

VARIABLES
    today,       \* the local date
    began,       \* View.first_event_at, as a date
    announced,   \* the new_date of the NEW_DAY events in the log
    tracker      \* Runtime._tracker of each process

dayVars == <<phase, file, pidRead, today, began, announced, tracker>>

DayInit ==
    /\ LockInit
    /\ today \in Day
    /\ began = NoDay
    /\ announced = <<>>
    /\ tracker = [p \in Proc |-> NoTracker]

-----------------------------------------------------------------------------
LastAnnounced == announced[Len(announced)]

\* The date a new scheduler assumes was announced last.
DaySeed == IF announced # <<>> THEN LastAnnounced ELSE began

\* run_pass reads the log before the transaction that ticks.
Seed(p) ==
    /\ IsScheduler(p) /\ tracker[p] = NoTracker
    /\ tracker' = [tracker EXCEPT ![p] = DaySeed]
    /\ UNCHANGED <<lockVars, today, began, announced>>

\* Mutant: any other date is a new day.
IsNewDay_AnyOther(seen) == seen # NoDay /\ today # seen

\* Mutant: only the next date is a new day.
IsNewDay_NextOnly(seen) == seen # NoDay /\ today = seen + 1

\* DayTracker.check announces a date later than the one it remembers.
IsNewDay(seen) == seen # NoDay /\ today > seen

Announcement(p) == IF IsNewDay(tracker[p]) THEN <<today>> ELSE <<>>

\* One pass that commits.
Pass(p) ==
    /\ IsScheduler(p) /\ tracker[p] # NoTracker
    /\ announced' = announced \o Announcement(p)
    /\ began' = IF began = NoDay /\ IsNewDay(tracker[p]) THEN today ELSE began
    /\ tracker' = IF tracker[p] = NoDay \/ IsNewDay(tracker[p])
                  THEN [tracker EXCEPT ![p] = today] ELSE tracker
    /\ UNCHANGED <<lockVars, today>>

\* Mutant: the tracker keeps a date whose announcement was rolled back.
FailedPass_Remembers(p) ==
    /\ IsScheduler(p) /\ tracker[p] # NoTracker
    /\ tracker' = IF IsNewDay(tracker[p]) THEN [tracker EXCEPT ![p] = today] ELSE tracker
    /\ UNCHANGED <<lockVars, today, began, announced>>

\* A pass that fails anywhere rolls back and forgets the tracker.
FailedPass(p) ==
    /\ IsScheduler(p)
    /\ tracker' = [tracker EXCEPT ![p] = NoTracker]
    /\ UNCHANGED <<lockVars, today, began, announced>>

\* The first event of a client; it read the clock before it got the write lock.
FirstEvent ==
    /\ began = NoDay
    /\ began' \in Day
    /\ UNCHANGED <<lockVars, today, announced, tracker>>

\* Midnight, a step of the clock, or another timezone, in which the log began
\* on another date.
ChangeDate ==
    /\ today' \in Day \ {today}
    /\ began' \in IF began = NoDay THEN {NoDay} ELSE Day
    /\ UNCHANGED <<lockVars, announced, tracker>>

Elect(lockStep) == lockStep /\ UNCHANGED <<today, began, announced, tracker>>

DayNext ==
    \/ \E p \in Proc :
          \/ Elect(LockStep(p))
          \/ Seed(p)
          \/ Pass(p)
          \/ FailedPass(p)
    \/ FirstEvent
    \/ ChangeDate

\* The lock is taken for granted only where it works: see NoOverlap.
DaySpec == DayInit /\ [][DayNext /\ NoOverlap']_dayVars

\* The loop runs in every process, and not every pass fails: a pass that is
\* possible again and again is made (run_forever backs off and tries again).
Fairness ==
    \A p \in Proc :
        /\ WF_dayVars(Elect(Acquire(p)) /\ NoOverlap')
        /\ WF_dayVars(Seed(p))
        /\ SF_dayVars(Pass(p))

FairDaySpec == DaySpec /\ Fairness

-----------------------------------------------------------------------------
(* Properties                                                               *)

TypeOK ==
    /\ LockTypeOK
    /\ today \in Day
    /\ began \in Day \cup {NoDay}
    /\ announced \in Seq(Day)
    /\ tracker \in [Proc -> Day \cup {NoDay, NoTracker}]

\* NEW_DAY only goes forward: no date is announced twice and none after a later
\* one, across handovers, crashes, failed passes and clocks stepped back
\* (SPEC.md sections 2 and 7).
NewDayForward == \A i, j \in DOMAIN announced : i < j => announced[i] < announced[j]

\* The scheduler and a process that takes over from it now agree about which
\* days have been reported (Store.day_seed), so none is repeated and none dropped.
HandoverAgrees ==
    \A p \in Proc :
        IsScheduler(p) /\ tracker[p] # NoTracker /\ announced # <<>> =>
            tracker[p] = LastAnnounced

\* The date d is still to be announced by whoever is the scheduler: it is later
\* than what the log tells a new one to assume, and no tracker has it for the date
\* of its first pass.
IsAhead(d) ==
    /\ DaySeed # NoDay /\ d > DaySeed
    /\ \A q \in Proc : tracker[q] = NoTracker \/ (tracker[q] # NoDay /\ tracker[q] < d)

\* A date that has come is announced if it stays and some process keeps
\* running, whatever crashes, fails or closes meanwhile (SPEC.md section 7); so
\* is the first one after the day the log began.
DayIsAnnounced ==
    \A p \in Proc, d \in Day :
        (IsRunning(p) /\ today = d /\ (announced # <<>> \/ IsAhead(d)))
            ~> (~IsRunning(p) \/ today # d \/ \E k \in DOMAIN announced : announced[k] >= d)

=============================================================================
