------------------------------ MODULE WakeLoop ------------------------------
(***************************************************************************)
(* When the scheduler's loop wakes up (runtime.py run_forever and          *)
(* next_delay, scheduler.py next_wake_time): a pass reads the clock and    *)
(* ticks what is due, the delay is taken from a second reading, and the    *)
(* loop waits for the delay or for the wake event, which an action of this *)
(* process sets.  Other processes commit tasks that the view shows from    *)
(* the next pass on.  A pass may fail and is tried again after a backoff.  *)
(*                                                                         *)
(* Instants are numbers; the loop's timer runs only while the machine is   *)
(* awake.  A boundary is a scheduled start, a scheduled end or a deadline  *)
(* of a task, ticked when it is reached; tasks that finish before are left *)
(* out.  The clock does not go back (NewDay, Occurrences).                 *)
(***************************************************************************)
EXTENDS Integers, FiniteSets, FiniteSetsExt

CONSTANTS
    DayLength,      \* the instants from one midnight to the next
    Refresh,        \* refresh_interval
    BackoffBase,    \* BACKOFF_BASE_SECONDS
    BackoffMax,     \* MAX_BACKOFF_SECONDS
    FloatExponent,  \* the largest n for which 2.0 ** n is a number
    Horizon,        \* bound: the last instant
    MaxBoundaries,  \* bound: the boundaries of tasks
    MaxErrors,      \* bound: passes that fail in a row
    MaxAdvance      \* bound: the clock's advance during a pass

ASSUME PeriodsAssumption ==
    /\ DayLength \in Nat \ {0} /\ Refresh \in Nat \ {0} /\ FloatExponent \in Nat
    /\ BackoffBase \in Nat \ {0} /\ BackoffMax \in Nat \ {0}
ASSUME WakeBoundsAssumption ==
    /\ Horizon \in Nat /\ MaxBoundaries \in Nat /\ MaxErrors \in Nat /\ MaxAdvance \in Nat

Instants == 0 .. Horizon

VARIABLES
    now,
    log,         \* the boundaries of the tasks of the log
    view,        \* ... of the tasks of this process's view
    ticked,      \* those that were ticked
    lastSeenDate,   \* DayTracker.last_seen_date
    stage,       \* "pass": about to run; "delay": run; "wait"; or "dead": the loop raised
    timer,       \* what is left of the wait
    wakeEvent,
    errors,      \* health.consecutive_errors
    \* history
    slept,       \* the machine was suspended since the last pass
    waited       \* how long a boundary is due, the machine awake and no pass failing

wakeVars == <<now, log, view, ticked, lastSeenDate, stage, timer, wakeEvent, errors, slept, waited>>

WakeInit ==
    /\ now = 0 /\ log = {} /\ view = {} /\ ticked = {} /\ lastSeenDate = 0
    /\ stage = "pass" /\ timer = 0 /\ wakeEvent = FALSE /\ errors = 0
    /\ slept = FALSE /\ waited = [b \in Instants |-> 0]

-----------------------------------------------------------------------------
(* The pass                                                                 *)

DateOf(t) == t \div DayLength

NextLocalMidnight(t) == (DateOf(t) + 1) * DayLength

\* tick: what is due at t.
Due(boundaries, t) == {b \in boundaries : b <= t}

\* The clock may advance while a pass runs, or the machine waits for its lock.
Advances == {t \in now .. now + MaxAdvance : t <= Horizon}

RunPass ==
    /\ stage = "pass"
    /\ wakeEvent' = FALSE
    /\ view' = log
    /\ ticked' = ticked \cup Due(log, now)
    /\ lastSeenDate' = DateOf(now)
    /\ errors' = 0 /\ slept' = FALSE
    /\ waited' = [b \in Instants |-> IF b \in ticked' THEN 0 ELSE waited[b]]
    /\ now' \in Advances
    /\ stage' = "delay"
    /\ UNCHANGED <<log, timer>>

Backoff == Min({BackoffMax, BackoffBase * 2 ^ errors'})

\* The transaction is rolled back.  An exponent without a number ends the loop.
PassFails ==
    /\ stage = "pass" /\ errors < MaxErrors
    /\ wakeEvent' = FALSE
    /\ errors' = errors + 1
    /\ IF errors' <= FloatExponent
       THEN stage' = "wait" /\ timer' = Backoff
       ELSE stage' = "dead" /\ timer' = 0
    /\ UNCHANGED <<now, log, view, ticked, lastSeenDate, slept, waited>>

\* Mutant: the ends of a window are not looked at.
NextWakeTime_Midnight == NextLocalMidnight(now)

\* next_wake_time: the boundaries of the view in the future, or midnight.
NextWakeTime == Min({NextLocalMidnight(now)} \cup {b \in view : b > now})

NextDelay == Max({0, Min({NextWakeTime - now, Refresh})})

SetTimer ==
    /\ stage = "delay"
    /\ timer' = NextDelay
    /\ stage' = "wait"
    /\ UNCHANGED <<now, log, view, ticked, lastSeenDate, wakeEvent, errors, slept, waited>>

\* Mutant: only the event ends a wait.
Wake_NoTimeout ==
    /\ stage = "wait" /\ wakeEvent
    /\ stage' = "pass"
    /\ UNCHANGED <<now, log, view, ticked, lastSeenDate, timer, wakeEvent, errors, slept, waited>>

\* The wait ends: the timer ran out or the event is set.
Wake ==
    /\ stage = "wait" /\ (timer = 0 \/ wakeEvent)
    /\ stage' = "pass"
    /\ UNCHANGED <<now, log, view, ticked, lastSeenDate, timer, wakeEvent, errors, slept, waited>>

-----------------------------------------------------------------------------
(* While the loop waits                                                     *)

\* Runtime.execute, in this process: its transaction refreshes the view.
Execute ==
    /\ stage = "wait" /\ Cardinality(log) < MaxBoundaries
    /\ \E b \in Instants \ log : log' = log \cup {b}
    /\ view' = log'
    /\ wakeEvent' = TRUE
    /\ UNCHANGED <<now, ticked, lastSeenDate, stage, timer, errors, slept, waited>>

OthersExecute ==
    /\ stage = "wait" /\ Cardinality(log) < MaxBoundaries
    /\ \E b \in Instants \ log : log' = log \cup {b}
    /\ UNCHANGED <<now, view, ticked, lastSeenDate, stage, timer, wakeEvent, errors, slept, waited>>

Unticked == {b \in log : b <= now /\ b \notin ticked}

\* Time passes, the machine awake (at the horizon, the timer's alone).
Pause ==
    /\ stage = "wait" /\ timer > 0 /\ ~wakeEvent
    /\ now' = Min({now + 1, Horizon})
    /\ timer' = timer - 1
    /\ waited' = [b \in Instants |->
                     IF b \in Unticked /\ errors = 0 THEN waited[b] + 1 ELSE waited[b]]
    /\ UNCHANGED <<log, view, ticked, lastSeenDate, stage, wakeEvent, errors, slept>>

\* The machine is suspended: the timer stands still.
Suspend ==
    /\ stage = "wait" /\ now < Horizon
    /\ \E t \in now + 1 .. Horizon : now' = t
    /\ slept' = TRUE
    /\ UNCHANGED <<log, view, ticked, lastSeenDate, stage, timer, wakeEvent, errors, waited>>

WakeNext ==
    \/ RunPass \/ PassFails \/ SetTimer \/ Wake
    \/ Execute \/ OthersExecute \/ Pause \/ Suspend

WakeSpec == WakeInit /\ [][WakeNext]_wakeVars

\* The loop runs, its timer runs out, and passes do not fail for ever (MaxErrors).
WakeFairSpec ==
    /\ WakeSpec
    /\ WF_wakeVars(RunPass \/ PassFails) /\ WF_wakeVars(SetTimer) /\ WF_wakeVars(Wake) /\ WF_wakeVars(Pause)

-----------------------------------------------------------------------------
(* Properties                                                               *)

\* However a boundary came into the log and whenever the machine slept, a
\* loop whose passes succeed is late for it by at most the refresh interval
\* of waking time (runtime.py: "bounds how late a boundary can be noticed").
\* And while the loop waits, no pass failed and the machine was not suspended,
\* a boundary its process knows, or midnight, that is in the future is not
\* slept through at all: the timer or the event ends the wait by then
\* (runtime.py: "Cleared before the pass so a signal raised during it isn't
\* lost").
WokenInTime ==
    /\ \A b \in log : waited[b] <= Refresh
    /\ stage = "wait" /\ errors = 0 /\ ~slept /\ ~wakeEvent =>
          \A b \in view \cup {NextLocalMidnight(now)} :
              b > now => now + timer <= b

\* Every boundary is ticked in the end, and so is every midnight.
EveryBoundaryTicked ==
    /\ \A b \in Instants : (b \in log /\ b <= now) ~> b \in ticked
    /\ \A d \in 0 .. DateOf(Horizon) : DateOf(now) >= d ~> lastSeenDate >= d

=============================================================================
