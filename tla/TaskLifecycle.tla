---------------------------- MODULE TaskLifecycle ----------------------------
(***************************************************************************)
(* The life of one task: the transition table and the validation of        *)
(* task.py, and what one tick of engine.py does to one task.  Everything   *)
(* here is an operator on a task record; the modules that have state use   *)
(* it (TaskEngine, CatchUp, EventStore).                                   *)
(*                                                                         *)
(* An instant is a natural number, in a unit that does not matter.  An     *)
(* optional datetime that is None is NoTime.                               *)
(***************************************************************************)
EXTENDS Integers, Sequences

NoTime == -1
NoTask == 0           \* carried_from = None; tasks are numbered from 1
NoKey == "no key"     \* a task no create_task call made

Instant == Nat
OptionalInstant == Nat \cup {NoTime}

-----------------------------------------------------------------------------
(* Statuses and the transition table                                        *)

TerminalStatuses ==
    {"COMPLETED", "COMPLETED_LATE", "RESCHEDULED", "CARRIED_FORWARD",
     "DROPPED", "CANCELLED"}

LiveStatuses == {"CREATED", "SCHEDULED", "ACTIVE", "WINDOW_ENDED", "OVERDUE"}

Statuses == LiveStatuses \cup TerminalStatuses

\* What a decision may do to a live task that is not late.
EarlyExits ==
    {"OVERDUE", "COMPLETED", "RESCHEDULED", "CARRIED_FORWARD", "DROPPED", "CANCELLED"}

\* ... and to one that is.
LateExits ==
    {"COMPLETED_LATE", "RESCHEDULED", "CARRIED_FORWARD", "DROPPED", "CANCELLED"}

Transitions ==
    [s \in Statuses |->
        CASE s = "CREATED"      -> {"SCHEDULED"} \cup EarlyExits
          [] s = "SCHEDULED"    -> {"ACTIVE"} \cup EarlyExits
          [] s = "ACTIVE"       -> {"WINDOW_ENDED"} \cup EarlyExits
          [] s = "WINDOW_ENDED" -> {"OVERDUE"} \cup LateExits
          [] s = "OVERDUE"      -> LateExits
          [] OTHER              -> {}]

CanTransition(from, to) == to \in Transitions[from]

IsTerminal(task) == task.status \in TerminalStatuses

-----------------------------------------------------------------------------
(* Task records                                                             *)

(***************************************************************************)
(* createdAt is the recorded_at of the task's TASK_CREATED event and key   *)
(* that event's idempotency_key: count_creations_since and created_by_key  *)
(* read both from the log.  Title, timezone, estimate and dependencies are *)
(* left out: no rule of these modules reads them.                          *)
(***************************************************************************)
TaskRecord(Key) ==
    [status : Statuses,
     start : OptionalInstant, end : OptionalInstant, deadline : OptionalInstant,
     carriedFrom : Nat,
     lastTransitionAt : OptionalInstant, actualStart : OptionalInstant,
     createdAt : Instant, key : Key \cup {NoKey}]

ValidSchedule(start, end, deadline) ==
    /\ end # NoTime => start # NoTime
    /\ start # NoTime /\ end # NoTime => start < end
    /\ start # NoTime /\ deadline # NoTime => start < deadline

InitialStatus(start) == IF start # NoTime THEN "SCHEDULED" ELSE "CREATED"

\* Mutant: the creation is not dated.
NewTask_Undated(start, end, deadline, carriedFrom, now, key) ==
    [status |-> InitialStatus(start),
     start |-> start, end |-> end, deadline |-> deadline,
     carriedFrom |-> carriedFrom,
     lastTransitionAt |-> NoTime, actualStart |-> NoTime,
     createdAt |-> NoTime, key |-> key]

NewTask(start, end, deadline, carriedFrom, now, key) ==
    [status |-> InitialStatus(start),
     start |-> start, end |-> end, deadline |-> deadline,
     carriedFrom |-> carriedFrom,
     lastTransitionAt |-> NoTime, actualStart |-> NoTime,
     createdAt |-> now, key |-> key]

\* Task.apply_transition, for a transition the table allows.
WithStatus(task, to, now) ==
    [task EXCEPT !.status = to, !.lastTransitionAt = now]

-----------------------------------------------------------------------------
(* One tick of one task                                                     *)

Reached(boundary, now) == boundary # NoTime /\ now >= boundary

WindowOpens(task, now) == task.status = "SCHEDULED" /\ Reached(task.start, now)
\* Mutant: the window ends one instant early.
WindowEnds_Early(task, now) == task.status = "ACTIVE" /\ Reached(task.end, now + 1)

WindowEnds(task, now) == task.status = "ACTIVE" /\ Reached(task.end, now)
DeadlineBreaks(task, now) ==
    /\ task.status \in {"CREATED", "SCHEDULED", "ACTIVE", "WINDOW_ENDED"}
    /\ Reached(task.deadline, now)

\* The three `if`s of tick, in their order: each looks at what the one before left.
Opened(task, now) ==
    IF WindowOpens(task, now) THEN WithStatus(task, "ACTIVE", now) ELSE task
Ended(task, now) ==
    IF WindowEnds(task, now) THEN WithStatus(task, "WINDOW_ENDED", now) ELSE task
Breached(task, now) ==
    IF DeadlineBreaks(task, now) THEN WithStatus(task, "OVERDUE", now) ELSE task

Ticked(task, now) == Breached(Ended(Opened(task, now), now), now)

\* Mutant: an event is dated when the boundary was noticed.
TickEvents_DatedNow(task, now) ==
    LET opened == Opened(task, now)
        ended == Ended(opened, now)
        event(type) == <<[type |-> type, occurred |-> now]>>
    IN  (IF WindowOpens(task, now) THEN event("TASK_STARTED") ELSE <<>>)
        \o (IF WindowEnds(opened, now) THEN event("TASK_WINDOW_ENDED") ELSE <<>>)
        \o (IF DeadlineBreaks(ended, now) THEN event("TASK_DEADLINE_BREACHED") ELSE <<>>)

\* The events the tick appends for the task; occurred is the boundary itself.
TickEvents(task, now) ==
    LET opened == Opened(task, now)
        ended == Ended(opened, now)
        started == [type |-> "TASK_STARTED", occurred |-> task.start]
        windowEnded == [type |-> "TASK_WINDOW_ENDED", occurred |-> task.end]
        deadlineBreached == [type |-> "TASK_DEADLINE_BREACHED", occurred |-> task.deadline]
    IN  (IF WindowOpens(task, now) THEN <<started>> ELSE <<>>)
        \o (IF WindowEnds(opened, now) THEN <<windowEnded>> ELSE <<>>)
        \o (IF DeadlineBreaks(ended, now) THEN <<deadlineBreached>> ELSE <<>>)

=============================================================================
