--------------------------- MODULE StateQuestions ---------------------------
(***************************************************************************)
(* The state question benchmark (state_qa.py): a script of creations,      *)
(* moves, completions and cancellations is run through the real engine, a  *)
(* pass before each step, and the status the engine reports for a title -- *)
(* with the dependencies of planning.py -- must be the one that            *)
(* derive_status, "an independent statement of the semantics", gives for   *)
(* the facts of the script.  The module composes TaskEngine with the log   *)
(* its events are replayed from (storage.py view_as_of), the reports over  *)
(* dependencies and the reports over overlaps (overlap.py), all of which   *)
(* read the same tasks.                                                    *)
(*                                                                         *)
(* The clock is SimulatedClock: it only moves forward.  Recurring steps    *)
(* are Occurrences' subject.                                               *)
(***************************************************************************)
EXTENDS TaskEngine, SequencesExt

CONSTANTS
    Title,
    NoTitle,
    Shapes       \* the <<start, end, deadline>> a script gives to creations and moves

ASSUME TitleAssumption == NoTitle \notin Title
ASSUME ShapesAssumption == Shapes \subseteq OptionalInstant \X OptionalInstant \X OptionalInstant

VARIABLES
    dependsOn,   \* Task.depends_on, by task
    log,         \* the events of the tasks
    clock,
    passed,      \* nothing happened since the last pass
    \* the script's own knowledge of each title
    fact,        \* its newest window and deadline, when it was done, whether it was cancelled
    depends      \* the title it depends on

qaVars == <<tasks, seen, pending, dependsOn, log, clock, passed, fact, depends>>

Unknown == [start |-> NoTime, end |-> NoTime, deadline |-> NoTime, doneAt |-> NoTime,
            cancelled |-> FALSE, versions |-> <<>>]

QAInit ==
    /\ Init
    /\ dependsOn = <<>> /\ log = <<>> /\ clock = 0 /\ passed = FALSE
    /\ fact = [t \in Title |-> Unknown]
    /\ depends = [t \in Title |-> NoTitle]

Made == {t \in Title : fact[t].versions # <<>>}
Current(t) == Last(fact[t].versions)

-----------------------------------------------------------------------------
(* The log and the state as of an instant                                   *)

Event(type, i, status) == [type |-> type, task |-> i, status |-> status, at |-> clock]

Created(i, record) == [type |-> "TASK_CREATED", task |-> i, record |-> record, at |-> clock]

Noticed ==
    [type \in {"TASK_STARTED", "TASK_WINDOW_ENDED", "TASK_DEADLINE_BREACHED"} |->
        CASE type = "TASK_STARTED"      -> "ACTIVE"
          [] type = "TASK_WINDOW_ENDED" -> "WINDOW_ENDED"
          [] OTHER                      -> "OVERDUE"]

\* The events of a tick, task by task in the order of the dict.
PassEvents ==
    LET events(i) == [n \in DOMAIN TickEvents(tasks[i], clock) |->
                         LET e == TickEvents(tasks[i], clock)[n]
                         IN  Event(e.type, i, Noticed[e.type])]
    IN  FlattenSeq([i \in DOMAIN tasks |-> events(i)])

\* _apply_to_tasks: a transition is dated by the event's recorded_at.
ApplyToTasks(ts, e) ==
    IF e.type = "TASK_CREATED" THEN Append(ts, e.record)
    ELSE [ts EXCEPT ![e.task] = WithStatus(@, e.status, e.at)]

\* The tasks ts after the events that were recorded by then.
Replayed(ts, events, at) ==
    LET view[n \in 0 .. Len(events)] ==
            IF n = 0 THEN ts
            ELSE IF events[n].at <= at THEN ApplyToTasks(view[n - 1], events[n])
            ELSE view[n - 1]
    IN  view[Len(events)]

\* Mutant: every event is replayed.
ViewAsOf_All(events, at) == Replayed(<<>>, events, MaxInstant)

ViewAsOf(events, at) == Replayed(<<>>, events, at)

\* Runtime.state_as_of: what was recorded by then, brought to the instant.
StateAsOf(events, at) ==
    LET view == ViewAsOf(events, at)
    IN  [i \in DOMAIN view |-> Ticked(view[i], at)]

-----------------------------------------------------------------------------
(* planning.py: dependencies follow a task through its moves                *)

Successors(i) == {j \in DOMAIN tasks : tasks[j].carriedFrom = i}

\* Mutant: moves are not followed.
LineageHeads_Itself(i) == {i}

\* The end(s) of the lineage of i.
LineageHeads(i) ==
    {j \in {i} \cup {k \in DOMAIN tasks : i \in Ancestors(tasks, k)} :
        ~IsMoved(tasks[j]) \/ Successors(j) = {}}

Done == {"COMPLETED", "COMPLETED_LATE"}
Abandoned == {"DROPPED", "CANCELLED"}

\* dependency_state: a dependency blocks until its lineage is done or given up.
BlockedBy(i) ==
    {d \in dependsOn[i] :
        LET statuses == {tasks[h].status : h \in LineageHeads(d)}
        IN  ~(statuses \subseteq Done) /\ ~(statuses \subseteq Abandoned)}

\* schedule_order_problems
ScheduledBefore(i) ==
    {d \in dependsOn[i] :
        /\ tasks[i].start # NoTime
        /\ \E h \in LineageHeads(d) :
              LET head == tasks[h]
                  finish == IF head.end # NoTime THEN head.end ELSE head.deadline
              IN  head.status \notin Done \cup Abandoned /\ finish > tasks[i].start}

-----------------------------------------------------------------------------
(* overlap.py                                                               *)

HasWindow(task) == task.start # NoTime /\ task.end # NoTime

WindowsOverlap(a, b) == a.start < b.end /\ b.start < a.end

FindOverlapping(i) ==
    {j \in DOMAIN tasks \ {i} :
        ~IsTerminal(tasks[j]) /\ HasWindow(tasks[j]) /\ WindowsOverlap(tasks[i], tasks[j])}

Windowed == {i \in DOMAIN tasks : ~IsTerminal(tasks[i]) /\ HasWindow(tasks[i])}

\* The order of sorted(): by start, ties in the order of the dict.
Before(i, j) ==
    tasks[i].start < tasks[j].start \/ (tasks[i].start = tasks[j].start /\ i < j)

\* Mutant: windows that touch are a conflict.
FindConflicts_Touching ==
    {pair \in Windowed \X Windowed :
        /\ Before(pair[1], pair[2])
        /\ \A k \in Windowed :
              Before(pair[1], k) /\ ~Before(pair[2], k) => tasks[k].start <= tasks[pair[1]].end}

\* The sweep: from each window on, until one starts too late.
FindConflicts ==
    {pair \in Windowed \X Windowed :
        /\ Before(pair[1], pair[2])
        /\ \A k \in Windowed :
              Before(pair[1], k) /\ ~Before(pair[2], k) => tasks[k].start < tasks[pair[1]].end}

-----------------------------------------------------------------------------
(* The script (execute_case)                                                *)

FreshKey == CHOOSE k \in Key : k \notin seen

Call(action, i, shape) ==
    [key |-> FreshKey, action |-> action, task |-> i,
     start |-> shape[1], end |-> shape[2], deadline |-> shape[3],
     holds |-> FALSE, oversized |-> FALSE]

Shapeless == <<NoTime, NoTime, NoTime>>

\* The call must be applied: execute_case asserts it.
Act(call) == passed /\ seen # Key /\ passed' = FALSE /\ Apply(call, clock, FALSE) /\ UNCHANGED clock

Create(t) ==
    \E shape \in Shapes, d \in {NoTitle} \cup (Made \ {t}) :
        /\ t \notin Made
        /\ Act(Call("create_task", NoTask, shape))
        /\ dependsOn' = Append(dependsOn, IF d = NoTitle THEN {} ELSE {Current(d)})
        /\ log' = Append(log, Created(Len(tasks'), Last(tasks')))
        /\ fact' = [fact EXCEPT ![t] = [Unknown EXCEPT !.start = shape[1], !.end = shape[2],
                                           !.deadline = shape[3], !.versions = <<Len(tasks')>>]]
        /\ depends' = [depends EXCEPT ![t] = d]

\* A move keeps the deadline and the dependencies.
Move(t) ==
    \E shape \in Shapes, action \in {"reschedule_task", "carry_forward_task"} :
        LET call == Call(action, Current(t), <<shape[1], shape[2], NoTime>>) IN
        /\ t \in Made
        /\ Act(call)
        /\ dependsOn' = Append(dependsOn, dependsOn[Current(t)])
        /\ log' = log \o <<Event("TASK_MOVED", Current(t), MovedStatus(call)),
                           Created(Len(tasks'), Last(tasks'))>>
        /\ fact' = [fact EXCEPT ![t].start = shape[1], ![t].end = shape[2],
                                ![t].versions = Append(@, Len(tasks'))]
        /\ UNCHANGED depends

Complete(t) ==
    LET call == Call("complete_task", Current(t), Shapeless) IN
    /\ t \in Made
    /\ Act(call)
    /\ log' = Append(log, Event("TASK_COMPLETED", Current(t), CompletionStatus(tasks[Current(t)])))
    /\ fact' = [fact EXCEPT ![t].doneAt = clock]
    /\ UNCHANGED <<dependsOn, depends>>

Cancel(t) ==
    LET call == Call("cancel_task", Current(t), Shapeless) IN
    /\ t \in Made
    /\ Act(call)
    /\ log' = Append(log, Event("TASK_CANCELLED", Current(t), "CANCELLED"))
    /\ fact' = [fact EXCEPT ![t].cancelled = TRUE]
    /\ UNCHANGED <<dependsOn, depends>>

\* runtime.run_pass
Pass ==
    /\ ~passed
    /\ Tick(clock)
    /\ log' = log \o PassEvents
    /\ passed' = TRUE
    /\ UNCHANGED <<dependsOn, clock, fact, depends>>

\* clock.set: the next step, or the question, is later.
Advance ==
    /\ passed
    /\ \E t \in clock + 1 .. MaxInstant : clock' = t
    /\ passed' = FALSE
    /\ UNCHANGED <<tasks, seen, pending, dependsOn, log, fact, depends>>

QANext ==
    \/ Pass \/ Advance
    \/ \E t \in Title : Create(t) \/ Move(t) \/ Complete(t) \/ Cancel(t)

QASpec == QAInit /\ [][QANext]_qaVars

-----------------------------------------------------------------------------
(* The rules, once more                                                     *)

Finished(t) == fact[t].doneAt # NoTime \/ fact[t].cancelled

\* "worked out from the script alone"
IsBlocked(t) == ~Finished(t) /\ depends[t] # NoTitle /\ ~Finished(depends[t])

DeriveStatus(t) ==
    LET f == fact[t]
        late == Reached(f.end, f.doneAt) \/ Reached(f.deadline, f.doneAt)
    IN  CASE f.cancelled                                    -> "CANCELLED"
          [] ~f.cancelled /\ f.doneAt # NoTime              ->
                IF late THEN "COMPLETED_LATE" ELSE "COMPLETED"
          [] ~Finished(t) /\ IsBlocked(t)                   -> "BLOCKED"
          [] ~Finished(t) /\ ~IsBlocked(t)                  ->
                IF Reached(f.deadline, clock) THEN "OVERDUE"
                ELSE IF f.start = NoTime THEN "CREATED"
                ELSE IF Reached(f.end, clock) THEN "WINDOW_ENDED"
                ELSE IF clock >= f.start THEN "ACTIVE" ELSE "SCHEDULED"

\* What the engine reports: the status, or that something unfinished blocks it.
Reported(t) ==
    LET i == Current(t)
    IN  IF ~IsTerminal(tasks[i]) /\ BlockedBy(i) # {} THEN "BLOCKED" ELSE tasks[i].status

-----------------------------------------------------------------------------
(* Properties                                                               *)

\* After a pass, whatever was created, moved, finished and given up in
\* whatever order and however many boundaries one pass jumped over, every
\* title has the status the rules give for its facts, blocked ones included; and
\* the state as of now, replayed from the log, is the live state in status, dates
\* and lineage (storage.py: "agree on last_transition_at").
OracleAgrees ==
    passed =>
        /\ \A t \in Made : Reported(t) = DeriveStatus(t)
        /\ StateAsOf(log, clock) = tasks

\* What the engine says about an earlier instant never changes, whatever is
\* recorded or noticed later (state_qa.py: "must not leak into the answer").
PastIsSettled ==
    [][\A at \in 0 .. clock' - 1 : StateAsOf(log', at) = StateAsOf(log, at)]_qaVars

\* A plan that contradicts its dependencies is reported, through all moves:
\* the dependency's newest window, or else its deadline, is over after the
\* task's start.  And the sweep over all windows finds the pairs that a look at
\* each task finds, each pair once.
ReportsAreComplete ==
    /\ \A t \in Made :
          LET d == depends[t]
              due == IF fact[d].end # NoTime THEN fact[d].end ELSE fact[d].deadline
          IN  ScheduledBefore(Current(t)) # {} <=>
                  d # NoTitle /\ ~Finished(d) /\ fact[t].start # NoTime /\ due > fact[t].start
    /\ \A pair \in FindConflicts : <<pair[2], pair[1]>> \notin FindConflicts
    /\ \A i, j \in Windowed :
          i # j => (j \in FindOverlapping(i)
                        <=> {<<i, j>>, <<j, i>>} \cap FindConflicts # {})

=============================================================================
