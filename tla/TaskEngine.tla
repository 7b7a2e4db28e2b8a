------------------------------ MODULE TaskEngine ------------------------------
(***************************************************************************)
(* The deterministic engine as its callers see it: a task list, the keys   *)
(* of the actions applied so far and the actions held for a human, changed *)
(* by whole transactions only (mutators.py, actions.py, and the action     *)
(* half of runtime.py).                                                    *)
(*                                                                         *)
(* Every action carries the `now` it works with.  Runtime.execute reads    *)
(* the clock BEFORE it waits for the write lock, several processes share   *)
(* the log, and the system clock may be stepped back, so the values of now *)
(* in log order need not be in order: each action takes any instant.       *)
(*                                                                         *)
(* A task's id is its position in tasks, which is also its place in the    *)
(* dict's insertion order.  MaxTasks and MaxInstant bound the model.       *)
(***************************************************************************)
EXTENDS TaskLifecycle, FiniteSets

CONSTANTS
    Key,             \* idempotency keys
    Calls,           \* the ActionCalls that clients may propose
    MaxMoves,        \* DEFAULT_MAX_MOVES
    MoveWindow,      \* DEFAULT_MOVE_WINDOW
    MaxCreations,    \* Runtime.max_creations_per_day
    CreationWindow,  \* the 24 hours over which creations are counted
    MaxTasks,        \* bound: the tasks ever made
    MaxInstant       \* bound: the last instant

Actions ==
    {"create_task", "start_task", "complete_task", "reschedule_task",
     "carry_forward_task", "cancel_task", "drop_task", "unparseable_tool_call"}

(***************************************************************************)
(* start, end and deadline are scheduled_start ... of a create_task and    *)
(* new_start ... of a move.  drop_task is cancel_task with mode "drop".    *)
(* holds is requires_confirmation; oversized says that the arguments       *)
(* exceed MAX_HELD_ARGS_REPR.                                              *)
(***************************************************************************)
ActionCall ==
    [key : Key, action : Actions, task : Nat,
     start : OptionalInstant, end : OptionalInstant, deadline : OptionalInstant,
     holds : BOOLEAN, oversized : BOOLEAN]

ASSUME KeyAssumption == NoKey \notin Key
ASSUME CallsAssumption == Calls \subseteq ActionCall
ASSUME MovesAssumption == MaxMoves \in Nat /\ MoveWindow \in Nat
ASSUME CreationsAssumption == MaxCreations \in Nat /\ CreationWindow \in Nat
ASSUME BoundsAssumption == MaxTasks \in Nat /\ MaxInstant \in Nat

VARIABLES
    tasks,    \* View.tasks
    seen,     \* View.seen_keys: the keys of applied calls
    pending   \* View.pending: the held calls, one per key

vars == <<tasks, seen, pending>>

Init ==
    /\ tasks = <<>>
    /\ seen = {}
    /\ pending = {}

-----------------------------------------------------------------------------
(* The move rate limit                                                      *)

(***************************************************************************)
(* The tasks a walk along carried_from visits after i: the least set that  *)
(* is closed under carried_from and holds the parent of i.                 *)
(***************************************************************************)
Ancestors(ts, i) ==
    {j \in DOMAIN ts :
        \A S \in SUBSET DOMAIN ts :
            (\A k \in S \cup {i} : ts[k].carriedFrom \in S \cup {NoTask}) => j \in S}

MovesWithin(ts, i, from, to) ==
    {j \in Ancestors(ts, i) : ts[j].lastTransitionAt \in from .. to}

\* Mutant: a move dated after a stale now is not recent.
RecentMoves_PastOnly(i, now) ==
    {j \in Ancestors(tasks, i) :
        /\ tasks[j].lastTransitionAt # NoTime
        /\ now - tasks[j].lastTransitionAt \in 0 .. MoveWindow}

\* The ancestors superseded at most MoveWindow before now (or after it: now may be stale).
RecentMoves(i, now) ==
    {j \in Ancestors(tasks, i) :
        /\ tasks[j].lastTransitionAt # NoTime
        /\ now - tasks[j].lastTransitionAt <= MoveWindow}

-----------------------------------------------------------------------------
(* What each mutator accepts and does                                       *)

Known(call) == call.task \in DOMAIN tasks

CanCreate(call) ==
    /\ call.action = "create_task"
    /\ ValidSchedule(call.start, call.end, call.deadline)

CreateTask(call, now) ==
    /\ CanCreate(call)
    /\ Len(tasks) < MaxTasks
    /\ tasks' = Append(tasks,
                  NewTask(call.start, call.end, call.deadline, NoTask, now, call.key))

CanStart(call) ==
    /\ call.action = "start_task"
    /\ Known(call)
    /\ ~IsTerminal(tasks[call.task])
    /\ tasks[call.task].actualStart = NoTime

StartTask(call, now) ==
    /\ CanStart(call)
    /\ tasks' = [tasks EXCEPT ![call.task].actualStart = now]

\* Lateness is judged by the status, not by now.
CompletionStatus(task) ==
    IF task.status \in {"WINDOW_ENDED", "OVERDUE"} THEN "COMPLETED_LATE" ELSE "COMPLETED"

CanComplete(call) ==
    /\ call.action = "complete_task"
    /\ Known(call)
    /\ CanTransition(tasks[call.task].status, CompletionStatus(tasks[call.task]))

CompleteTask(call, now) ==
    /\ CanComplete(call)
    /\ tasks' = [tasks EXCEPT
                  ![call.task] = WithStatus(@, CompletionStatus(@), now)]

MovedStatus(call) ==
    IF call.action = "reschedule_task" THEN "RESCHEDULED" ELSE "CARRIED_FORWARD"

\* A move keeps the deadline unless the call names a new one.
DeadlineAfter(call) ==
    IF call.deadline # NoTime THEN call.deadline ELSE tasks[call.task].deadline

\* Mutant: the transition table is not asked.
CanMove_Finished(call, now) ==
    /\ call.action \in {"reschedule_task", "carry_forward_task"}
    /\ Known(call)
    /\ call.start # NoTime /\ call.end # NoTime
    /\ ValidSchedule(call.start, call.end, DeadlineAfter(call))
    /\ Cardinality(RecentMoves(call.task, now)) < MaxMoves

CanMove(call, now) ==
    /\ call.action \in {"reschedule_task", "carry_forward_task"}
    /\ Known(call)
    /\ call.start # NoTime /\ call.end # NoTime
    /\ ValidSchedule(call.start, call.end, DeadlineAfter(call))
    /\ Cardinality(RecentMoves(call.task, now)) < MaxMoves
    /\ CanTransition(tasks[call.task].status, MovedStatus(call))

\* The task is superseded by a new one; the new one has no idempotency key.
MoveTask(call, now) ==
    /\ CanMove(call, now)
    /\ Len(tasks) < MaxTasks
    /\ tasks' = Append([tasks EXCEPT ![call.task] = WithStatus(@, MovedStatus(call), now)],
                       NewTask(call.start, call.end, DeadlineAfter(call), call.task, now, NoKey))

CancelledStatus(call) == IF call.action = "drop_task" THEN "DROPPED" ELSE "CANCELLED"

CanCancel(call) ==
    /\ call.action \in {"cancel_task", "drop_task"}
    /\ Known(call)
    /\ CanTransition(tasks[call.task].status, CancelledStatus(call))

CancelTask(call, now) ==
    /\ CanCancel(call)
    /\ tasks' = [tasks EXCEPT ![call.task] = WithStatus(@, CancelledStatus(call), now)]

Accepted(call, now) ==
    \/ CanCreate(call)
    \/ CanStart(call)
    \/ CanComplete(call)
    \/ CanMove(call, now)
    \/ CanCancel(call)

-----------------------------------------------------------------------------
(* The decision: Runtime._apply and apply_action                            *)

\* Mutant: a hold is not cleared.
Released_Never(key) == pending

\* The log entry of any outcome but pending_confirmation clears the hold on its key.
Released(key) == {c \in pending : c.key # key}

CreationsSince(since) ==
    {i \in DOMAIN tasks : tasks[i].key # NoKey /\ tasks[i].createdAt >= since}

\* Mutant: a confirmed creation is not limited.
OverLimit_UnheldOnly(call, now, confirmed) ==
    /\ call.action = "create_task"
    /\ call.key \notin seen
    /\ ~call.holds
    /\ Cardinality(CreationsSince(now - CreationWindow)) >= MaxCreations

OverLimit(call, now, confirmed) ==
    /\ call.action = "create_task"
    /\ call.key \notin seen
    /\ confirmed \/ ~call.holds
    /\ Cardinality(CreationsSince(now - CreationWindow)) >= MaxCreations

\* Mutant: an applied key is applied again.
Runs_Again(call, now, confirmed) ==
    /\ confirmed \/ ~call.holds
    /\ ~OverLimit(call, now, confirmed)

Runs(call, now, confirmed) ==
    /\ call.key \notin seen
    /\ confirmed \/ ~call.holds
    /\ ~OverLimit(call, now, confirmed)

\* Outcome applied.
Apply(call, now, confirmed) ==
    /\ Runs(call, now, confirmed)
    /\ \/ CreateTask(call, now)
       \/ StartTask(call, now)
       \/ CompleteTask(call, now)
       \/ MoveTask(call, now)
       \/ CancelTask(call, now)
    /\ seen' = seen \cup {call.key}
    /\ pending' = Released(call.key)

\* Outcome superseded: the key was applied before.
Supersede(call) ==
    /\ call.key \in seen
    /\ pending' = Released(call.key)
    /\ UNCHANGED <<tasks, seen>>

\* Outcome rejected: by the creation limit, the size of a hold, or the validators.
Refuse(call, now, confirmed) ==
    /\ call.key \notin seen
    /\ \/ OverLimit(call, now, confirmed)
       \/ call.holds /\ ~confirmed /\ call.oversized
       \/ Runs(call, now, confirmed) /\ ~Accepted(call, now)
    /\ pending' = Released(call.key)
    /\ UNCHANGED <<tasks, seen>>

\* Outcome pending_confirmation; a call already held under the key is replaced.
Hold(call, confirmed) ==
    /\ call.key \notin seen
    /\ call.holds /\ ~confirmed /\ ~call.oversized
    /\ pending' = Released(call.key) \cup {call}
    /\ UNCHANGED <<tasks, seen>>

Decide(call, now, confirmed) ==
    \/ Apply(call, now, confirmed)
    \/ Supersede(call)
    \/ Refuse(call, now, confirmed)
    \/ Hold(call, confirmed)

Execute(call, now) == Decide(call, now, FALSE)

\* confirm and decline find the held call inside the transaction.
Confirm(call, now) == call \in pending /\ Decide(call, now, TRUE)

Decline(call) ==
    /\ call \in pending
    /\ pending' = Released(call.key)
    /\ UNCHANGED <<tasks, seen>>

\* Runtime.reject: a caller's own limit (the agent's budget) refuses the call.
Reject(call) ==
    /\ pending' = Released(call.key)
    /\ UNCHANGED <<tasks, seen>>

\* One scheduler pass over every task, at the time it holds the write lock.
Tick(now) ==
    /\ tasks' = [i \in DOMAIN tasks |-> Ticked(tasks[i], now)]
    /\ UNCHANGED <<seen, pending>>

Next ==
    \/ \E now \in 0 .. MaxInstant :
          \/ Tick(now)
          \/ \E call \in Calls : Execute(call, now)
          \/ \E call \in pending : Confirm(call, now)
    \/ \E call \in pending : Decline(call)
    \/ \E call \in Calls : Reject(call)

Spec == Init /\ [][Next]_vars

-----------------------------------------------------------------------------
(* Properties                                                               *)

TypeOK ==
    /\ tasks \in Seq(TaskRecord(Key))
    /\ seen \subseteq Key
    /\ pending \subseteq Calls

\* The move rate limit (SPEC.md section 7): whatever the order in which stale
\* values of now reach the log, no stretch of MoveWindow holds more than
\* MaxMoves moves of one lineage.
MoveCap ==
    \A i \in DOMAIN tasks : \A from \in 0 .. MaxInstant :
        Cardinality(MovesWithin(tasks, i, from, from + MoveWindow)) <= MaxMoves

\* The creation limit: no stretch of CreationWindow holds more than
\* MaxCreations tasks made by create_task calls, held ones included.
CreatedWithin(ts, from, to) ==
    {i \in DOMAIN ts : ts[i].key # NoKey /\ ts[i].createdAt \in from .. to}

CreationLimit ==
    \A from \in 0 .. MaxInstant :
        Cardinality(CreatedWithin(tasks, from, from + CreationWindow)) <= MaxCreations

\* A moved task is never lost and never doubled: a task has exactly one
\* replacement if its status says it was moved, and none otherwise; the
\* replacement is younger, so a lineage is a chain that ends (_relocate).
IsMoved(task) == task.status \in {"RESCHEDULED", "CARRIED_FORWARD"}

LineageIsAChain ==
    /\ \A i \in DOMAIN tasks : tasks[i].carriedFrom < i
    /\ \A i \in DOMAIN tasks :
          IsMoved(tasks[i]) <=> \E j \in DOMAIN tasks : tasks[j].carriedFrom = i
    /\ \A j, k \in DOMAIN tasks :
          tasks[j].carriedFrom = tasks[k].carriedFrom /\ tasks[j].carriedFrom # NoTask
              => j = k

\* A create_task key makes at most one task, ever, and is remembered
\* (SPEC.md section 3: a retried create_task never makes a duplicate).
OneTaskPerKey ==
    /\ \A i \in DOMAIN tasks : tasks[i].key \in seen \cup {NoKey}
    /\ \A i, j \in DOMAIN tasks :
          tasks[i].key = tasks[j].key /\ tasks[i].key # NoKey => i = j

\* What is held for a human has not been applied, and there is one thing to
\* confirm under a key (View.pending).
HeldNotApplied ==
    /\ \A call \in pending : call.key \notin seen
    /\ \A c, d \in pending : c.key = d.key => c = d

\* A status that claims a boundary has passed is dated at or after that
\* boundary, although the boundaries may come from a move that inherited the
\* deadline and now may be stale (tick and _relocate).
StatusIsJustified ==
    \A i \in DOMAIN tasks :
        LET task == tasks[i] IN
        /\ task.status = "ACTIVE" => Reached(task.start, task.lastTransitionAt)
        /\ task.status = "WINDOW_ENDED" => Reached(task.end, task.lastTransitionAt)
        /\ task.status = "OVERDUE" => Reached(task.deadline, task.lastTransitionAt)
        /\ task.status \in LiveStatuses =>
              ValidSchedule(task.start, task.end, task.deadline)

\* A finished task never changes again, in any field (task.py: "once a task
\* reaches one of these, it never transitions again").
FinishedIsFinal ==
    [][\A i \in DOMAIN tasks :
          IsTerminal(tasks[i]) => i \in DOMAIN tasks' /\ tasks'[i] = tasks[i]]_vars

=============================================================================
