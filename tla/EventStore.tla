------------------------------ MODULE EventStore ------------------------------
(***************************************************************************)
(* The event log and the processes that share it (storage.py, and the way  *)
(* runtime.py uses it).  A transaction takes the write lock, brings the    *)
(* process's view up to the log, changes that view, appends the events     *)
(* that stand for the change, and commits; it may fail, or the process may *)
(* die, between any two of these.  A view is the fold of the log, so what  *)
(* the mutators do to it live and what a replay of their events does must  *)
(* agree.  The log implements TaskEngine: every commit is one of its steps.*)
(*                                                                         *)
(* SQLite, as the code uses it: one writer at a time (BEGIN IMMEDIATE), a  *)
(* reader sees exactly the committed events, seq is the place in the log.  *)
(* A process that has no store open has the empty view; opening is a       *)
(* Refresh.  MaxLog and MaxRefusals bound the log.                         *)
(***************************************************************************)
EXTENDS TaskLifecycle, FiniteSets, SequencesExt

CONSTANTS
    Key, Calls, MaxMoves, MoveWindow, MaxCreations, CreationWindow,
    MaxTasks, MaxInstant,   \* as in TaskEngine
    Proc,     \* the processes
    NoProc,   \* nobody holds the write lock
    MaxLog,      \* bound: the events of the log
    MaxRefusals  \* bound: the rejected and superseded decisions in it

ASSUME ProcAssumption == NoProc \notin Proc
ASSUME LogBoundsAssumption == MaxLog \in Nat /\ MaxRefusals \in Nat

VARIABLES
    log,    \* the committed rows of the events table
    view,   \* per process, Store.view
    txn,    \* the write transaction: whose, how far, and its uncommitted rows
    truth   \* history: what the log replays to; nobody reads it to decide

vars == <<log, view, txn, truth>>

NoTxn == [by |-> NoProc, stage |-> "none", events |-> <<>>]
EmptyView == [tasks |-> <<>>, seen |-> {}, pending |-> {}, quarantined |-> {}, seq |-> 0]

Init ==
    /\ log = <<>>
    /\ view = [p \in Proc |-> EmptyView]
    /\ txn = NoTxn
    /\ truth = EmptyView

-----------------------------------------------------------------------------
(* Events.  at is recorded_at; occurred is occurred_at.                     *)

DecisionEvent(call, now, outcome) ==
    [type |-> "ACTION_PROPOSED", at |-> now, call |-> call, outcome |-> outcome]

CreatedEvent(task, now) ==
    [type |-> "TASK_CREATED", at |-> now, status |-> task.status,
     start |-> task.start, end |-> task.end, deadline |-> task.deadline,
     carriedFrom |-> task.carriedFrom, key |-> task.key]

TaskEvent(type, task, occurred, now, late) ==
    [type |-> type, at |-> now, task |-> task, occurred |-> occurred, late |-> late]

-----------------------------------------------------------------------------
(* Replay                                                                   *)

StatusAfter(event) ==
    CASE event.type = "TASK_STARTED"           -> "ACTIVE"
      [] event.type = "TASK_WINDOW_ENDED"      -> "WINDOW_ENDED"
      [] event.type = "TASK_DEADLINE_BREACHED" -> "OVERDUE"
      [] event.type = "TASK_COMPLETED"         -> IF event.late THEN "COMPLETED_LATE" ELSE "COMPLETED"
      [] event.type = "TASK_RESCHEDULED"       -> "RESCHEDULED"
      [] event.type = "TASK_CARRIED_FORWARD"   -> "CARRIED_FORWARD"
      [] event.type = "TASK_DROPPED"           -> "DROPPED"
      [] event.type = "TASK_CANCELLED"         -> "CANCELLED"

\* An event that does not fit raises ValueError or KeyError, and is quarantined.
Fits(ts, event) ==
    \/ event.type \in {"TASK_CREATED", "ACTION_PROPOSED"}
    \/ /\ event.task \in DOMAIN ts
       /\ \/ event.type = "TASK_WORK_STARTED"
          \/ CanTransition(ts[event.task].status, StatusAfter(event))

\* _apply_to_tasks, for an event that fits.
TasksAfter(ts, event) ==
    CASE event.type = "TASK_CREATED" ->
            Append(ts, [NewTask(event.start, event.end, event.deadline,
                                event.carriedFrom, event.at, event.key)
                          EXCEPT !.status = event.status])
      [] event.type = "ACTION_PROPOSED" -> ts
      [] event.type = "TASK_WORK_STARTED" ->
            [ts EXCEPT ![event.task].actualStart = event.occurred]
      [] OTHER -> [ts EXCEPT ![event.task] = WithStatus(@, StatusAfter(event), event.at)]

\* _index: only a decision changes the indexes that are modelled.
Indexed(v, event) ==
    IF event.type # "ACTION_PROPOSED" THEN v
    ELSE LET others == {c \in v.pending : c.key # event.call.key}
         IN  CASE event.outcome = "pending_confirmation" ->
                     [v EXCEPT !.pending = others \cup {event.call}]
               [] event.outcome = "applied" ->
                     [v EXCEPT !.pending = others, !.seen = @ \cup {event.call.key}]
               [] OTHER -> [v EXCEPT !.pending = others]

\* The indexes after the process's own events, which its tasks show already.
IndexedAll(v, events) ==
    LET after[n \in 0 .. Len(events)] ==
            IF n = 0 THEN v ELSE Indexed(after[n - 1], events[n])
    IN  after[Len(events)]

ApplyEvent(v, event) ==
    LET next == [v EXCEPT !.seq = @ + 1] IN
    IF Fits(v.tasks, event)
    THEN Indexed([next EXCEPT !.tasks = TasksAfter(@, event)], event)
    ELSE [next EXCEPT !.quarantined = @ \cup {next.seq}]

\* The view after the events, applied to v in their order.
Folded(v, events) ==
    LET after[n \in 0 .. Len(events)] ==
            IF n = 0 THEN v ELSE ApplyEvent(after[n - 1], events[n])
    IN  after[Len(events)]

Replay(events) == Folded(EmptyView, events)

\* refresh_view: the events after the view's last.
Refreshed(v) == Folded(v, SubSeq(log, v.seq + 1, Len(log)))

-----------------------------------------------------------------------------
(* What a decision does, on the view of the process in the transaction      *)

Engine == INSTANCE TaskEngine WITH
    tasks <- truth.tasks, seen <- truth.seen, pending <- truth.pending

Mine == INSTANCE TaskEngine WITH
    tasks <- view[txn.by].tasks, seen <- view[txn.by].seen, pending <- view[txn.by].pending

\* As in TaskEngine.
ASSUME EngineAssumption ==
    /\ NoKey \notin Key /\ Calls \subseteq Engine!ActionCall
    /\ MaxMoves \in Nat /\ MoveWindow \in Nat /\ MaxCreations \in Nat /\ CreationWindow \in Nat
    /\ MaxTasks \in Nat /\ MaxInstant \in Nat

\* The event that stands for a transition to a status.
EventTypeOf(status) ==
    CASE status = "RESCHEDULED"     -> "TASK_RESCHEDULED"
      [] status = "CARRIED_FORWARD" -> "TASK_CARRIED_FORWARD"
      [] status = "DROPPED"         -> "TASK_DROPPED"
      [] status = "CANCELLED"       -> "TASK_CANCELLED"

\* The live change of an accepted call, and the events the mutator returns for it.
Effect(ts, call, now) ==
    LET old == ts[call.task]
        created == NewTask(call.start, call.end, call.deadline, NoTask, now, call.key)
        deadline == IF call.deadline # NoTime THEN call.deadline ELSE old.deadline
        moved == NewTask(call.start, call.end, deadline, call.task, now, NoKey)
        changed(status) == [ts EXCEPT ![call.task] = WithStatus(@, status, now)]
        event(type, late) == TaskEvent(type, call.task, now, now, late)
    IN  CASE call.action = "create_task" ->
                [tasks |-> Append(ts, created), events |-> <<CreatedEvent(created, now)>>]
          [] call.action = "start_task" ->
                [tasks |-> [ts EXCEPT ![call.task].actualStart = now],
                 events |-> <<event("TASK_WORK_STARTED", FALSE)>>]
          [] call.action = "complete_task" ->
                [tasks |-> changed(Mine!CompletionStatus(old)),
                 events |-> <<event("TASK_COMPLETED",
                                    Mine!CompletionStatus(old) = "COMPLETED_LATE")>>]
          [] call.action \in {"reschedule_task", "carry_forward_task"} ->
                [tasks |-> Append(changed(Mine!MovedStatus(call)), moved),
                 events |-> <<event(EventTypeOf(Mine!MovedStatus(call)), FALSE),
                              CreatedEvent(moved, now)>>]
          [] call.action \in {"cancel_task", "drop_task"} ->
                [tasks |-> changed(Mine!CancelledStatus(call)),
                 events |-> <<event(EventTypeOf(Mine!CancelledStatus(call)), FALSE)>>]

\* Mutant: a creation that is exactly a window old is not counted.
OverLimit_Exclusive(call, now, confirmed) ==
    /\ call.action = "create_task"
    /\ call.key \notin view[txn.by].seen
    /\ confirmed \/ ~call.holds
    /\ Cardinality({n \in DOMAIN log :
            /\ log[n].type = "TASK_CREATED"
            /\ log[n].key # NoKey
            /\ log[n].at > now - CreationWindow}) >= MaxCreations

\* count_creations_since reads the log, not the view.
OverLimit(call, now, confirmed) ==
    /\ call.action = "create_task"
    /\ call.key \notin view[txn.by].seen
    /\ confirmed \/ ~call.holds
    /\ Cardinality({n \in DOMAIN log :
            /\ log[n].type = "TASK_CREATED"
            /\ log[n].key # NoKey
            /\ log[n].at >= now - CreationWindow}) >= MaxCreations

\* The outcome of a decision, in the order in which the code looks.
Outcome(call, now, confirmed) ==
    CASE OverLimit(call, now, confirmed)  -> "rejected"
      [] OTHER ->
         CASE call.key \in view[txn.by].seen -> "superseded"
           [] OTHER ->
              CASE call.holds /\ ~confirmed ->
                      IF call.oversized THEN "rejected" ELSE "pending_confirmation"
                [] OTHER -> IF Mine!Accepted(call, now) THEN "applied" ELSE "rejected"

-----------------------------------------------------------------------------
(* Transactions                                                             *)

Refresh(p) ==
    /\ txn.by # p
    /\ view' = [view EXCEPT ![p] = Refreshed(@)]
    /\ UNCHANGED <<log, txn, truth>>

Begin(p) ==
    /\ txn = NoTxn
    /\ txn' = [NoTxn EXCEPT !.by = p, !.stage = "began"]
    /\ view' = [view EXCEPT ![p] = Refreshed(@)]
    /\ UNCHANGED <<log, truth>>

IsRefusal(event) ==
    event.type = "ACTION_PROPOSED" /\ event.outcome \in {"rejected", "superseded"}

WithinBounds(ts, events) ==
    /\ Len(ts) <= MaxTasks
    /\ Len(log) + Len(events) <= MaxLog
    /\ Len(SelectSeq(log \o events, IsRefusal)) <= MaxRefusals

Deciding(p) == txn.by = p /\ txn.stage = "began"

\* The view changes now, the log does not yet.
Decided(p, ts, keys, events) ==
    /\ WithinBounds(ts, events)
    /\ view' = [view EXCEPT ![p].tasks = ts, ![p].seen = @ \cup keys]
    /\ txn' = [txn EXCEPT !.stage = "decided", !.events = events]
    /\ UNCHANGED <<log, truth>>

Decide(p, call, now, confirmed) ==
    LET outcome == Outcome(call, now, confirmed)
        decision == DecisionEvent(call, now, outcome)
    IN  \/ /\ outcome = "applied"
           /\ LET effect == Effect(view[p].tasks, call, now)
              IN  Decided(p, effect.tasks, {call.key}, <<decision>> \o effect.events)
        \/ /\ outcome # "applied"
           /\ Decided(p, view[p].tasks, {}, <<decision>>)

Execute(p, call, now) == Deciding(p) /\ Decide(p, call, now, FALSE)

\* Not held any more: a ValueError, and so a Fail.
Confirm(p, call, now) ==
    Deciding(p) /\ call \in view[p].pending /\ Decide(p, call, now, TRUE)

Decline(p, call, now) ==
    /\ Deciding(p) /\ call \in view[p].pending
    /\ Decided(p, view[p].tasks, {}, <<DecisionEvent(call, now, "rejected")>>)

\* Runtime.reject does not look at the view.
Reject(p, call, now) ==
    /\ Deciding(p)
    /\ Decided(p, view[p].tasks, {}, <<DecisionEvent(call, now, "rejected")>>)

\* The ticks of all tasks, in the order of the dict.
TickLog(ts, now) ==
    FlattenSeq([i \in DOMAIN ts |->
        [n \in DOMAIN TickEvents(ts[i], now) |->
            TaskEvent(TickEvents(ts[i], now)[n].type, i,
                      TickEvents(ts[i], now)[n].occurred, now, FALSE)]])

Tick(p, now) ==
    /\ Deciding(p)
    /\ Decided(p, [i \in DOMAIN view[p].tasks |-> Ticked(view[p].tasks[i], now)], {},
               TickLog(view[p].tasks, now))

\* Store.append: the rows are inserted, the indexes updated for the process's own events.
AppendEvents(p) ==
    /\ txn.by = p /\ txn.stage = "decided"
    /\ view' = [view EXCEPT ![p] =
                  [IndexedAll(@, txn.events) EXCEPT !.seq = Len(log) + Len(txn.events)]]
    /\ txn' = [txn EXCEPT !.stage = "appended"]
    /\ UNCHANGED <<log, truth>>

Commit(p) ==
    /\ txn.by = p /\ txn.stage = "appended"
    /\ log' = log \o txn.events
    /\ truth' = Folded(truth, txn.events)
    /\ txn' = NoTxn
    /\ UNCHANGED view

\* Mutant: the view is kept when the transaction failed.
Fail_KeepView(p) ==
    /\ txn.by = p
    /\ txn' = NoTxn
    /\ UNCHANGED <<log, view, truth>>

\* Any step of a transaction raises: rollback, and reload, which may fail as well.
Fail(p) ==
    /\ txn.by = p
    /\ txn' = NoTxn
    /\ \E v \in {Replay(log), EmptyView} : view' = [view EXCEPT ![p] = v]
    /\ UNCHANGED <<log, truth>>

\* SQLite forgets the uncommitted rows of a process that died.
Crash(p) ==
    /\ view' = [view EXCEPT ![p] = EmptyView]
    /\ txn' = IF txn.by = p THEN NoTxn ELSE txn
    /\ UNCHANGED <<log, truth>>

Next ==
    \E p \in Proc :
        \/ Refresh(p)
        \/ Begin(p)
        \/ \E now \in 0 .. MaxInstant :
              \/ Tick(p, now)
              \/ \E call \in Calls :
                    Execute(p, call, now) \/ Confirm(p, call, now)
                    \/ Decline(p, call, now) \/ Reject(p, call, now)
        \/ AppendEvents(p)
        \/ Commit(p)
        \/ Fail(p)
        \/ Crash(p)

Spec == Init /\ [][Next]_vars

-----------------------------------------------------------------------------
(* Properties                                                               *)

\* A view is never ahead of the log and never beside it: outside a transaction
\* it is the replay of the log up to its last_seq, and what the process appended
\* in a transaction replays to what its mutators did live (Store.transaction:
\* "memory can never end up ahead of the log").  And the log is a legal history:
\* decisions of concurrent processes leave no event that a replay quarantines.
ViewIsLogPrefix ==
    /\ truth = Replay(log) /\ truth.quarantined = {}
    /\ \A p \in Proc :
        \/ /\ txn.by # p
           /\ view[p] = Replay(SubSeq(log, 1, view[p].seq))
        \/ txn.by = p /\ txn.stage = "began" /\ view[p] = truth
        \/ txn.by = p /\ txn.stage = "decided"
        \/ txn.by = p /\ txn.stage = "appended" /\ view[p] = Folded(truth, txn.events)

\* The store makes transactions atomic: seen through a replay, the log changes
\* only by the whole transactions of TaskEngine.  So a decision and its effects are
\* committed together (append_events), decisions of two processes do not undo one
\* another, and a key that any process applied, before or after a crash, is never
\* applied again (View.seen_keys).
EngineImplemented == Engine!Spec

=============================================================================
