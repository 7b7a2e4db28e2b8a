# A specification of temporal-engine

temporal-engine keeps a task list whose statuses follow the clock. All state is derived from an append-only
SQLite event log, several processes share one log, one of them runs the scheduler, and language models only
*propose* actions, which a deterministic layer validates. This directory holds TLA+ modules translated from that
code, TLC configurations that model-check them, and theorems about them that TLAPS checks.

## 1. The system

| part | code | state it keeps | operations | module |
|---|---|---|---|---|
| Task lifecycle | `task.py`, `events.py` | the fields of a `Task` | `Task.new`, `apply_transition`, `validate_schedule` | `TaskLifecycle` |
| Clock-driven engine | `engine.py` | `DayTracker._last_seen_date` | `tick`, `DayTracker.check` | `TaskLifecycle`, `CatchUp`, `NewDay` |
| Decisions and mutators | `actions.py`, `mutators.py` | none: they change the view they are given | `apply_action`, `create_task`, `start_task`, `complete_task`, `_relocate`, `cancel_task`, `create_recurrence`, `end_recurrence`, `materialize` | `TaskEngine`, `Occurrences` |
| Event store | `storage.py` | the log; per process a `View` (tasks, applied keys, holds, last seq, last `NEW_DAY`, recurrences) | `transaction`, `append`, `refresh`, `reload`, `events`, `view_as_of`, `day_seed`, `count_creations_since` | `EventStore`, `LogReaders`, `StateQuestions` |
| Runtime | `runtime.py`, `scheduler.py` | the tracker, `is_scheduler`, the wake event | `run_pass`, `run_forever`, `execute`, `confirm`, `decline`, `reject`, `close` | `TaskEngine`, `NewDay`, `WakeLoop` |
| Scheduler lock | `lock.py` | the lock file | `acquire`, `release` | `SchedulerLock` |
| Agent loop | `agent.py` | the cursor (in the log), failures, backoff | `step`, `run_forever` | `AgentLoop` |
| Recurrence rules | `recurrence.py` | none | `build_recurrence`, `occurrence_dates`, `occurrence_window` | `RecurrenceRules` |
| Planning, overlap | `planning.py`, `overlap.py` | none | lineage heads, dependency state, order problems, overlaps | `StateQuestions` |
| Calendar import | `calendar_import.py` | none | `parse_ics`, `import_calendar` | `CalendarImport` |
| Moving the log | `storage.py`, `cli.py` | a file | `export_jsonl`, `import_jsonl`, `backup` | `LogTransfer` |
| Hosts | `mcp_server.py`, `cli.py` | a client's cursor, the watch's `seen` | `get_temporal_context`, `cmd_watch`, argument parsing, formatting | `LogReaders` |
| Providers | `providers.py`, `provider_common.py`, `*_provider.py`, `text_completion.py` | none | the heuristic, wire formats | `DayPlan` |
| Benchmarks | `state_qa.py`, `scenarios.py` | none | the script executor and its oracle, demonstrations | `StateQuestions` |

**How they interact.** A client (an MCP tool, the command line, or the agent) makes an `ActionCall` and gives it
to `Runtime.execute`. The runtime reads the clock, waits for SQLite's write lock, brings its view up to the log,
lets `apply_action` decide (applied, rejected, superseded, held), appends the decision and the events it caused
in the same transaction, and sets the wake event. Every process also runs `run_forever`: each pass tries to become
the scheduler by the lock file; the scheduler generates recurring occurrences, ticks every task and announces new
days, in one transaction; the others only refresh. The agent runs in the scheduler's process, reads trigger events
after its cursor, asks a provider on another thread, and executes what comes back under keys derived from the
trigger events.

**What is hard.** Each line is a hazard in `PROJECT.json`, with the line of code where it bites.

- *Time out of order.* `now` is read before the wait for the write lock, processes have their own clocks' readings
  and the system clock can be stepped back, so decisions reach the log with times out of order, and rate limits
  over "the last 24 hours" are judged with them.
- *Holds and keys.* A key may be held, retried, confirmed, declined, rejected and retried again, by several processes.
- *Lineages.* A move supersedes a task by a new one; limits, dependencies and recurrences walk that chain.
- *Downtime.* One late tick has to stand for all the ticks that were missed.
- *The lock file.* Creating it, writing the pid, reading it, asking whether that pid lives and unlinking it are
  separate system calls, between any two of which another process may run or this one may be killed.
- *Handover.* The next scheduler must announce the days its predecessor did not, and no other.
- *Failed transactions.* A view changed before a failed write is ahead of the log; a tracker may remember a day
  whose announcement was rolled back.
- *The agent.* Its batch, and so its idempotency keys, may differ after a crash; the world moves while it thinks.
- *Waking up.* The clock is read again between a pass and the delay; the wake event is cleared before the pass.
- *Recurrence.* Local times that do not exist or exist twice, gaps, templates that cannot be generated, a pass that
  generates all of them in one transaction.
- *Readers.* Answers are two reads with commits between them, and pages are cut.
- *Import and export.* Checks made before the lock is taken, files that are still being written, repetition.
- *Plans.* The heuristic's proposals come late and may end at once, and with them the next.

**What makes each part correct.** Lifecycle: a status that claims a boundary has passed is right, finished tasks
never change. Mutators: the move cap and the creation limit hold in every window, lineages are chains. Decisions:
a key creates at most one task, a hold is never something already applied. Engine: catching up equals never having
slept. Lock: at most one scheduler, never wedged. Days: each announced once, in order, none lost. Store: a view is
always the replay of a prefix of the log. Agent: no trigger is lost, none is decided twice in a run, the budget holds.
Scheduler's loop: no boundary is slept past, and each is ticked. Recurrence: the dates are the rule's, and each
occurrence exists exactly once. Import: one live task per event of a calendar, and what an undisturbed import leaves is
what the file says. Readers: nothing is skipped that the cursor covers. Transfer: all of a log or nothing, never merged. Planning: reports agree
with what they stand for.

## 2. Modules

| module | models | composed from |
|---|---|---|
| `TaskLifecycle` | one task: statuses, transition table, schedule rules, creation, one tick | |
| `TaskEngine` | the task list, applied keys and holds under whole transactions | `TaskLifecycle` |
| `CatchUp` | one task under an engine that never sleeps and one that does | `TaskLifecycle` |
| `EventStore` | the log, a view per process, transactions that refresh, decide, append, commit, fail, crash; refines `TaskEngine` | `TaskLifecycle`, instances of `TaskEngine` |
| `SchedulerLock` | the lock file, system call by system call | |
| `NewDay` | elections, day trackers, passes that commit or fail | `SchedulerLock` |
| `WakeLoop` | the scheduler's loop: passes, delays, the wake event, suspension, backoff | |
| `RecurrenceRules` | a template from its arguments to the dates and instants of its occurrences | |
| `Occurrences` | templates and the tasks made from them, passes and creations that generate, gaps | what `RecurrenceRules` computes, as constants |
| `AgentLoop` | the agent's cursor, batches, provider calls, keys, budget, crashes | |
| `DayPlan` | the built-in heuristic and the context it is shown, its moves carried out late | `TaskEngine` |
| `StateQuestions` | scripts with dependencies, replay as of an instant, the reports of planning and overlap, the benchmark's oracle | `TaskEngine` |
| `CalendarImport` | imports of calendar files, event by event, beside users and the scheduler | `TaskEngine` |
| `LogReaders` | writers, the watch, and a client that pages through the log | |
| `LogTransfer` | an export line by line, imports, and servers on both databases | |
| `MC...` | values for TLC; `MCTaskEngine`, `MCRecurrence`, `MCLoops` and `MCLogs` put components side by side in one run | |
| `TaskEngine_proofs`, `EventStore_proofs`, `StateQuestions_proofs` | theorems about the module of that name | |
| `Recurrence_proofs` | theorems about `RecurrenceRules` and `Occurrences` | |
| `Clients_proofs` | theorems about `CalendarImport` and `DayPlan`, the engine's clients | |
| `Loops_proofs` | theorems about `CatchUp`, `SchedulerLock`, `NewDay`, `AgentLoop` and `WakeLoop` | |
| `Logs_proofs` | theorems about `LogReaders` and `LogTransfer` | |
| `SetInduction` | induction with a set in the place of the predicate, and what it gives about recursive functions | |

**TaskLifecycle.** `Transitions` is `_TRANSITIONS`, `NewTask` is `Task.new` (with `ValidSchedule` as its guard),
`WithStatus` is `apply_transition`. `Opened`, `Ended` and `Breached` are the three `if`s of `tick` in their order,
each on what the one before left, and `Ticked` is their composition. An instant is a natural number and `None` is
`NoTime`; naive datetimes and bad types, which the validators refuse, have no instant and so are not inputs.

**TaskEngine.** `tasks`, `seen` and `pending` are the fields of `View` with the same names (`seen_keys`, for the
second). A task's id is its position in `tasks`. Each action is one transaction of `Runtime`: `Execute`, `Confirm`,
`Decline`, `Reject`, `Tick`. `Decide` has one disjunct per outcome of `apply_action`, with the creation limit of
`Runtime._apply` in front: `Apply`, `Supersede`, `Refuse`, `Hold`. `Accepted` says what the mutators accept, so
that `Refuse` is exactly the refusal of the rest; `MaxTasks` bounds only `CreateTask` and `MoveTask`. A task
record also carries the time and key of its `TASK_CREATED` event, which is what `count_creations_since` counts.
Every action takes *any* instant as its `now`: this stands for the clock read before the lock, several processes
and clock steps alike, and is what makes the rate limits worth checking.

**CatchUp.** `live` is ticked at every instant, `lagging` only in `LatePass`; both keep the events they wrote.

**EventStore.** `log` is the `events` table (a row's seq is its place), `view` the `Store.view` of each process, `txn`
the one write transaction there can be: whose it is, how far it got (`began`, `decided`, `appended`), and its
uncommitted rows. `Begin` is `BEGIN IMMEDIATE` with the refresh, `Execute` ... `Tick` change the view as the mutators
do (`Effect`), `AppendEvents` is `Store.append`, then `Commit`. `Fail` is an exception anywhere in between: rollback and
reload, which may fail as well and leave the empty view. `Crash` may come at any time. `ApplyEvent` is replay, with
`_apply_to_tasks`, `_index` and the quarantine. The live effect of a decision and the replay of its events are written
separately, as they are in the code, so that their agreement is something to check. What the mutators *accept* is taken
from `TaskEngine`, instantiated on the view of the process in the transaction; the creation limit counts rows of the
log, as `count_creations_since` does. `truth` is a history variable: what the log replays to (`ViewIsLogPrefix`
checks that); it is there so that the mapping to `TaskEngine` can be evaluated cheaply, and only the refinement and the
properties read it.

**SchedulerLock.** `phase` is where a process is in `run_pass` and `acquire`; `file` is the lock file (its creator
and whether the pid is in it), `pidRead` the pid a process has read and not yet judged. `O_CREAT | O_EXCL` is one
step, and so are the write, the read, the test of the pid, and the unlink. `Crash` is possible in every phase and
leaves the file. `WritePid` writes the file that was opened, even when the name is another's by then. A process
is a pid and pids are not reused: the code accepts a reused pid as a lock that looks held.

**NewDay.** Composes the lock with `tracker` (`Runtime._tracker`, one per process), the local date, and the
`NEW_DAY` events of the log. `Seed` reads the log before the transaction, as `run_pass` does; `Pass` is
`DayTracker.check` in a pass that commits; `FailedPass` forgets the tracker. The date may be changed to any other.

**WakeLoop.** A boundary is an instant at which some task has something to tick; `log` holds those of all tasks, `view`
those this process knows. `RunPass` clears the event, refreshes and ticks, and the clock may advance while it does;
`SetTimer` is `next_delay` with its own reading of the clock; `Wake` ends the wait by the timer or the event, which
`Execute` sets. `Pause` is time that the loop's timer counts and `Suspend` time that it does not. `PassFails` is the
`except` clause, in which the power that computes the backoff has no value beyond `FloatExponent` and ends the loop.

**RecurrenceRules.** One template is built from its arguments (`Build`), expanded by a generator (`NextPeriod`) and a
loop over what it yields (`Examine`), and its dates are turned into instants (`Window`). The generator and the loop
are separate actions because the bounds are checked only in the loop. A zone has one transition, forward or back.
`Occurs` states the rule as a condition on a date, with no generation, and `DatesAreTheRule` compares the two.

**Occurrences.** `templates`, `decision`, `materialized` and `gapThrough` are the log, by what it replays to; `view` is
the `View` of the process, which generates from it. A template's dates, the midnights and starts of its occurrences,
and the date from which it raises are constants, whatever rule gave them. `Pass` generates all live templates at the
clock. A creation works at an older reading of it and changes the view piece by piece, as `Runtime._apply` does:
`Create` puts the template and its key into the view, `CreateGenerates` the tasks of the other templates, and then
either `CreateCommits`, or `CreateRaises` because the new template, which is the last of the dict, cannot be generated:
SQLite rolls back, and the view is `ViewAfterFailure`, the reload in `Store.transaction`. `Killed` is a crash inside the
transaction. What the rollback must undo is thus in the view when it happens. `Finish` is anything that ends an
occurrence's task. The clock may be stepped back (`ClockSteppedBack`). `asOf` is the latest time a template was
generated at.

**AgentLoop.** `cursor` and `applied` are what the log shows, `at`, `batch`, `calls`, `slot`, `budget` and
`failures` the agent's memory, which `Killed` loses. `Ask` takes the batch and calls the provider; `Answered`,
`ProviderFails`, each of the actions of `Doing` and `Checkpoint` are steps of their own, with users and other
processes between them. A key is the batch and the slot, as the code derives it from the batch's hash. A creation may
be refused by the validator or by the limit that counts everybody's creations; it takes from the budget all the same.

**DayPlan.** `Pass` is the scheduler's, `Ask` builds `_context` with its limit on tasks and asks the heuristic
(`HandleWindowEnded`, `HandleNewDay`), and `ExecuteNext` carries out one of the moves it proposed, at a later time;
`UserActs` is everybody else's call in between. The code's sorts are `InOrder`, the members of a set in an order that is
given as a set of pairs. `EndingNow` are the windows a pass ends, `Handled` the tasks of the events that are still
unfinished, and `StackOf` the loop over yesterday's work, each piece after the one before. `asked`, `fresh` and
`unmoved` are history. Days have `DayLength` equal instants.

**StateQuestions.** The script of `execute_case` is one action per step, with a pass before each; `dependsOn` adds
dependencies to the tasks and `log` the events from which `ViewAsOf` replays. `DeriveStatus` is the benchmark's own
oracle and is compared with what the engine and `planning.py` report. `FindConflicts` is the set of pairs the sweep
reports: from each window on, in the order of `sorted()`, until one starts too late.

**CalendarImport.** An import refreshes its view and chooses a call (`Look`), then executes it (`Run`): between the
two, and between events, others act. The keys are the ones the code forms; the file's text is left out. `Parsed` is the
filter of `_finish_event` written as a recursive function, and `ImportCalls` and `CallsOfUsers` are the calls that
imports and users can come to make, which `ClientsAssumption` makes part of the engine's `Calls`.

**LogReaders.** `Execute` commits with a time read earlier (`ReadClock`), `Pass` with the current one. The watch polls
pages after `seen`; a client passes on the last seq, the cursor or the time of the last answer, and its call is two
reads (`Ask`, `Answer`).

**LogTransfer.** The export is written line by line and may be read or stop at any of them; an import looks whether
its database is empty, takes the lock, inserts rows one by one and commits or rolls back; servers commit to either.

## 3. What the runs check

| run | bounds | shows |
|---|---|---|
| `engine` | engine: 3 keys, 3 tasks, instants 0..2, cap 1 in a window of 1, limit 2 in a window of 1; one task: instants 0..5, every valid schedule | `TypeOK`, `StatusIsJustified`, `MoveCap`, `LineageIsAChain`, `CreationLimit`, `OneTaskPerKey`, `HeldNotApplied`; `CatchUpAgrees` |
| `event_store` | 2 processes, 2 keys, 2 tasks, instants 0..1, 6 events, 1 refusal | `ViewIsLogPrefix`, `EngineImplemented` |
| `new_day` | 2 processes, 4 days, acquisitions that do not overlap | `OneScheduler`, `NewDayForward`, `HandoverAgrees`, `DayIsAnnounced` |
| `recurrence` | rules: some 1500 templates over 14 months with two Februaries, one of them of a leap year, 3 zones; tasks: 2 templates, 5 dates, instants 0..6, the clock stepped back once | `DatesAreTheRule`, `WindowReadsTheClock`; `MadeOnce`, `MadeOrReported`, `EventuallyMadeOrReported` |
| `loops` | agent: 1 task and the new day, 3 triggers, answers of 3 calls, 1 failure, 1 crash; loop: instants 0..5, days of 4, 2 boundaries, 2 failures; lock: 3 processes, every interleaving | `NoTriggerLost`, `DecidedOnce`, `BudgetHolds`, `EveryTriggerHandled`; `WokenInTime`, `EveryBoundaryTicked`; `TakeOver` |
| `logs` | readers: pages of 2, 4 events, instants 0..1; transfer: 2 imports, 3 rows | `WatchTellsEach`, `ClientMissesOnlyWhatIsCut`, `EveryEventTold`; `ImportIsWhole`, `NewRowsComeAfter` |
| `state_questions` | 3 titles, 4 tasks, instants 0..2, 3 schedules | `OracleAgrees`, `ReportsAreComplete`, `PastIsSettled` |
| `calendar_import` | 2 importers, 3 files, 3 imports, 1 call of the user, instants 0..1 | `OneTaskPerEvent`, `SettledIsFollowed` |
| `day_plan` | 4 tasks of 2 schedules, instants 0..5, days of 4 | `EndedIsReplanned`, `MorningIsStacked`, `NoRunaway`, `PlansAreAccepted` |
| `lock_free`, `recurrence_never`, `agent_twice` | as above; two tasks and two triggers for the last | disagreements, section 6 |

**Components that share a run.** In `engine`, `recurrence`, `loops` and `logs` two or three components that share no
variable are checked in one run: a variable `side`, chosen at the start, says which of them moves, and the others keep
their initial state. The reachable states of each are exactly its own, so an invariant of one is checked as if it ran
alone, and the fairness conditions are those of its own specification, restricted to the behaviours in which it moves.
Where components interact they are composed instead: `NewDay` with the lock, and `EventStore`, `DayPlan`,
`StateQuestions` and `CalendarImport` with `TaskEngine`.

**Why the bounds are enough for the cases to happen.** Engine: two moves of one lineage when one is allowed, within
and across the window and with times out of order, and three creations of a window of two, some of them held; a task
that is moved, ticked, completed and held under three keys; three boundaries in any order with any number of missed
ticks between. Event store: six events, enough for a task that is created, ticked and moved, or created, held and
confirmed, with one refusal, by either of two processes with views of any age. Lock: three processes, which is what
it takes for one to reclaim, one to exit and one to create (`loops`, `lock_free`); in `new_day` two are enough for a
handover, and `OneScheduler` is proved for any number. Days: four, so that one can be skipped. Rules: every weekday as
an anchor, months of 28 to 31 days, sets of days that some months lack, a zone whose clock skips two o'clock, one
whose clock repeats it, and one whose clock skips midnight. Occurrences: downtime longer than lookback and horizon, a
template that starts before the other and one that stops being generated, a clock that jumps over all dates and back.
Agent: more triggers than a batch, more calls than are carried out, a creation over the budget, a crash between any
two steps. Wake loop: a delay cut by the refresh interval, by midnight and by a boundary, a power beyond the largest.
Creations: one that raises, refused ones and crashes, while the other template has tasks that only the view has yet.
Logs: twice the page's length, which is what it takes to be a page behind. Questions: a chain of two moves of a task
on which another depends, a deadline after the window's end, and three live windows, of which the sweep's first one
overlaps the second and ends where the third starts. (One window inside another does not occur; `ReportsCorrect` is
about any.) Imports: one event that moves and comes back, one that is cancelled, some that are skipped.
Plans: two windows that end together, more open tasks than the context shows, a midnight.

Keys are interchangeable in `engine`, processes in `event_store`, titles in `state_questions` and importers in
`calendar_import`: these runs use symmetry, and check invariants and action properties only. Runs with liveness
properties use none. Deadlock is not checked where the bounds end a behaviour, or everybody may exit.

Each property has a mutant of the code in the modules (`..._DatedNow`, `..._Again`, ...) that refutes it.

**Fairness.** Nothing makes anybody start, close or crash, or a client act. Beyond that:

- `TakeOver` and `DayIsAnnounced` assume that every running process keeps making passes, which is `run_forever`: an
  endless loop whose every iteration calls `run_pass`, with a bounded delay after a failure. That is weak fairness on
  the steps of `acquire` and on seeding. `DayIsAnnounced` also assumes strong fairness of `Pass`: a pass may fail, but
  not every one for ever. It covers the first `NEW_DAY` of a log too, unless a process has taken the day for the one
  its own first pass was on (`IsAhead`), which the code does not announce.
- `EveryBoundaryTicked`: weak fairness of the loop's own steps and of its timer; passes fail finitely often in a row.
- `EveryTriggerHandled`: weak fairness of the agent's steps, and of the provider, which answers or fails (its call has
  a timeout).
- `EventuallyMadeOrReported`: an open transaction ends, time goes on, and the clock is not set back for ever: weak
  fairness. Strong fairness of `Pass`: clients that create templates again and again do not keep the scheduler's loop
  from the write lock for ever (each waits for it at most five seconds, and the loop tries again).
- `EveryEventTold`: a watch that is running polls and sleeps.

## 4. What is proved

For all values of the constants, from the named `ASSUME`s of each module only:

- **TaskEngine** (`TaskEngine_proofs`). `TypeCorrect` is inductive by itself. `ChainCorrect`: `LineageIsAChain` is
  inductive with the type invariant, because a task can be moved only from a live status and the move makes that
  status terminal in the same step. `FinalCorrect` is an action property from the type invariant.
  `MoveCapCorrect` is the interesting one: `now` may be older than moves that are already in the log. The cap still
  holds for every window, because `recent_moves` counts an ancestor whose transition lies *after* `now` as recent;
  the proof bounds each window by the move that would be the last to fill it. `CreationLimitCorrect` has the
  same shape. `OneTaskPerKeyCorrect` and `HeldNotAppliedCorrect` are inductive with `TypeOK`.
  `StatusJustifiedCorrect`: each of the three parts of a tick sets a status only at a boundary that is not after its
  `now`, which is what `lastTransitionAt` then shows; moves and creations start a task anew.
- **EventStore** (`EventStore_proofs`). `ViewsFollowTheLog`, and `StoreImplementsEngine`, the refinement that
  `EngineImplemented` states. Replay is a fold over the log, so the proofs rest on an induction over its rows
  (`SetInduction`): a replay of `n + 1` rows is the replay of `n` rows and one row more. The inductive invariant
  (`StoreInv`) says that `truth` is the replay of the committed log, in which no row fails to fit; that the view of a
  process outside the transaction is the replay of a prefix of it; and that inside the transaction, what was decided on
  a view that was up to date is a transaction of the engine, whose rows, replayed, have its live effect. A commit then
  makes exactly the step of `TaskEngine` that was decided, and everything else leaves what the log replays to as it is.
  `LogKeepsTheRules` and `LogFinishedIsFinal` compose this with the theorems of `TaskEngine_proofs`: the rules hold of
  the log of several processes that fail and crash.
- **CatchUp** (`Loops_proofs`). `TickComposes`: `Ticked(Ticked(t, m), n)` and `Ticked(t, n)` agree in status and
  boundaries for all `m <= n`. From it `CatchUpCorrect`, with the invariant that the lagging task is always one tick
  away from the live one, and that what the live engine wrote is in the lagging one's events or would be written by
  that tick. A tick of a task that was ticked before notices only what it would have noticed without that
  (`NoticesGrow`), and the status is past every event that was written, so none is written twice.
- **SchedulerLock** (`Loops_proofs`). `OneSchedulerCorrect`, for any number of processes under
  `NoOverlap`. The invariant `LockInv` says whose file is in place in each phase; its key part is that between
  reading a pid and judging it, the only scheduler there can be is the one whose pid was read.
- **NewDay** (`Loops_proofs`). `NewDayForwardCorrect` and `HandoverCorrect`, reusing the lock's step lemma.
- **RecurrenceRules** (`Recurrence_proofs`). First the calendar: `FirstOfMonth` has a solution and only one, months
  follow each other without a gap (`MonthsFollow`), so that a date has one month and day (`MonthAndDay`), as it has one
  week and weekday. Then the generator: a period yields exactly the dates that are on one of the rule's days and whose
  index (days, weeks or months from the anchor) is that multiple of the interval (`Period`, one lemma per frequency),
  and the index grows with the date. `DatesAreTheRuleCorrect` follows with the invariant that what was yielded, together
  with what lies ahead in the current period, is everything the rule has in the periods generated so far, and that all
  of the one comes before all of the other; the end of the expansion is one lemma per reason (`PastTheLimit`,
  `CountIsReached`, `TooManyCandidates`). `WindowReadsTheClockCorrect` is arithmetic about a clock that moves once, by
  any two offsets of less than a day (`ReadingResolved`).
- **Occurrences** (`Recurrence_proofs`). The invariant `OnceInv` behind all four theorems says what the view is: the
  log (`ViewIsTheLog`), or, inside a creation, the log with the template, its key and, at the second stage, the tasks of
  the other templates in front of it (`ViewIsAhead`), while its indexes change only when the log does. `TypeCorrect`
  follows. `OccurrencesMadeOnce`: what is counted as made is in the index, what is in the index is not considered again,
  and a commit records at least what the view had before it (`NewOfMore`), so that afterwards the two agree; a failure
  or a crash makes the view a replay of what was committed (`RolledBack`). `OccurrencesMadeOrReported`
  needs more than it says: the invariant is that the gap never reaches a date that was
  not due to be skipped at the latest time the template was generated at, and that every earlier date was made
  or is within the gap. Nothing is assumed of the clock, which may be stepped back, nor of the order of the readings.
  `RefusalLeavesNothing` is about the log and the view: the log has nothing of a template whose creation is not in it
  (`RefusedIsNotInTheLog`, which needs that no template is generated in a pass before it was committed), and what a
  creation had put into the view before it raised or died is gone when the next transaction begins. What is assumed of a template's
  starts is true of the templates that `RecurrenceRules` builds (`StartsAreInOrder`), for a zone whose clock moves by at
  most a day.
- **CalendarImport** (`Clients_proofs`). An import is a client of the engine (`ImportIsClient`), so the engine's
  invariants hold whatever imports do. `OneTaskPerEventCorrect`: a lineage is ordered by age (`LineageIsOrdered`), so
  every task of an event but the newest was moved, and moved tasks are finished. `SettledIsFollowedCorrect` needs two
  invariants: `KeyInv`, what a used key stands for (the event has its task, or one of its tasks is cancelled, or the
  task the key names is moved), from which a call that is executed in the state it was chosen for has a new key, and so
  is never taken for done; and `AloneInv`, that an import nobody disturbs has left the events it is past as the file
  says, which every call for another event keeps (`OtherEventsKeep`).
- **DayPlan** (`Clients_proofs`). Every step of the loop is a step of the engine, so `TypeOK`, `StatusIsJustified` and
  `LineageIsAChain` hold. `LoopInvariant` adds, in named parts: `EndedInv`, the events that wait are about windows that
  ended, each once; `PlanInv`, what is planned are moves of windows that had ended when the heuristic was asked, to
  windows not begun by then, no task twice, and of unfinished tasks while nobody else acts; `AccountInv`, a window that
  ended is in a waiting event, in the plan, or among those that were not moved; `InMorningOrder` of the work carried
  into a day; and `DatesHold`. The last is what `NoRunawayCorrect` needs, and says more than that property does:
  a task is moved only when its window has ended, the replacement is created at the instant of the move, and if the
  replaced task had itself been created at that instant, the replacement ends later. A task that is moved now and
  whose parent was moved now therefore has a parent that was created before now, and nothing older was moved now, so
  one instant makes two moves of a lineage at most. `EndedReplannedCorrect` and `MorningStackedCorrect` are parts of the
  invariant; `PlansAcceptedCorrect` says that the engine refuses no move of a plan that is still fresh
  (`FreshRefusal`). The lemmas below are about the heuristic: a finite set has one enumeration in a strict total order
  (`OrderExists`, `InOrderShape`), which every sort stands for; each call of the stack begins where the one before
  ended (`StackShape`); and what an answer consists of (`AnswerShape`).
- **StateQuestions** (`StateQuestions_proofs`). `ScriptCorrect`: the versions of a title are one lineage in the order of
  their age, and every task is a version of one title; the tasks' dependencies are those of their titles; the facts the
  script keeps are true of the newest version; no task is dated after the clock, and after a pass none has a boundary
  that is past and not noticed; and the log, replayed, is the live list of tasks. From these parts follow
  `OracleCorrect` (the engine's status is the one that `derive_status` gives for the facts alone, blocked titles
  included, because a dependency's lineage ends in exactly the newest version of its title) and `ReportsCorrect` (the
  sweep finds exactly the overlaps, since windows are visited by start: after one that starts too late, all do).
  `PastCorrect` is an action property: a step appends events dated at the clock, which a replay as of an earlier instant
  does not reach.
- **AgentLoop** (`Loops_proofs`). `NoTriggerLostCorrect`: the invariant ties `batch` and `through` to the cursor in
  each stage, so that a checkpoint moves the cursor over exactly the triggers that are decided, or were dismissed.
  `BudgetCorrect`: while a batch is carried out, what was counted when the answer came and what was created since add
  up to at most the limit, as long as the query sees all proposals of the day. `DecidedOnceCorrect`: a
  batch lies ahead of everything that was checkpointed, so no decided trigger comes back, not after a crash either; a
  batch that is decided again after one finds the slots it used seen, whatever the new answer says; a task that was
  finished is not finished again by another batch that shows it; and without a crash the batches are disjoint stretches
  of the log and the slots of one are used in order. What a crash does permit is in section 6.
- **WakeLoop** (`Loops_proofs`). `WokenInTimeCorrect`: while the loop waits, what a boundary has been waited for and what
  is left of the timer are together at most a refresh interval, and the timer ends no later than the first boundary
  in the view and the next midnight, unless the event is set or the machine slept.
- **LogReaders** (`Logs_proofs`). `WatchTellsEachCorrect` and `ClientMissesCorrect`, from `ReadersInv`: what the
  watch told is what it has gone past; and until an answer is cut, a row that a client was not shown lies past the
  cursor or the time it passes on, by time only if a pass recorded it.
- **LogTransfer** (`Logs_proofs`). `ImportIsWholeCorrect` and `NewRowsCorrect`, for any
  number of imports: the rows of the target are those of one import, from the first on without a gap, followed by what
  servers appended, or only what servers wrote; while rows are inserted the primary key refuses the rest.

**Induction over data.** The library's induction theorems take an operator as a parameter, which the provers used here
cannot instantiate. `SetInduction` states induction for a *set* of numbers instead (the least and the greatest member
of a bounded set, and from them induction, iteration and its uniqueness), which needs no operator: a proof forms the
set of the numbers for which its claim fails. Recursive functions whose recursion is over a sequence or a bound are
within reach that way, and are: `Parsed`, the replay of a log, the walk to a task's ancestors, the stack of moves into a new
day, the enumeration of a set in an order.

**Checked as well as proved.** TLC has also checked the two largest invariants, `LoopInv` and `ScriptInv`, on the
instances of `day_plan` (2.7 million states) and `state_questions` (0.4 million). It has checked `RefusedLeavesNothing`
on the instance of `recurrence`, and found it violated there when the view is kept after a failure, which is the mutant
that `MadeOnce` has in that run.

**Only model-checked:** the liveness properties (`DayIsAnnounced`, `EventuallyMadeOrReported`, `EveryTriggerHandled`,
`EveryBoundaryTicked`, `TakeOver`, `EveryEventTold`), since fairness and `ENABLED` are beyond the prover. Every other
property of a passing run is stated by a theorem.

## 5. Assumptions and what is left out

- `NoOverlap` is an assumption about the environment, not something the code ensures: `lock_free` shows what happens
  without it. `OneScheduler`, and all of `NewDay`, hold under it; `TakeOver` does not need it. On Windows an open file
  cannot be unlinked, so the race needs another shape there; the model follows POSIX.
- A transaction is atomic in `TaskEngine` and in the modules that extend it; that the store makes it so is
  `StoreImplementsEngine`.
- `EventStore` and `LogTransfer` assume what SQLite promises: one writer, committed rows only for readers, uncommitted
  rows gone after a crash, a rollback that succeeds. `LogTransfer` also assumes that the exported seqs begin at 1 and
  have no gaps. Event payload versions are left out, and so are layout migrations: the table of them is empty. The
  online backup is one call of SQLite.
- `AgentLoop` leaves out holds and the wording of proposals; a provider's answer is any sequence of calls, which is
  what the wire formats of the providers, not modelled, can amount to. `FloatLimit` (there) and `FloatExponent` (in
  `WakeLoop`) stand for the exponent beyond which a float has no power of two, and `MaxFailures` and `MaxErrors` keep
  the passing runs below it; section 6 says what happens above.
- `RecurrenceRules`: a zone has one transition, and offsets of less than a day, as in `datetime`. `Occurrences` takes
  any rule that `StartsAssumption` allows: starts in the order of the dates, two of them together where the clock skips
  a whole day. It gives a date one instant from which the zone's clock shows it, which a clock that is set back over
  midnight shows twice; between the two the horizon is a date behind. `RecurrenceRules` starts where `create_recurrence`
  has resolved a missing `first_date` to the day in the template's zone (`mutators.py:231`).
- `StateQuestions`: a title depends on one other at most, where a script of `state_qa.py` may list several (`:171`).
  `BlockedBy` and `ScheduledBefore` are written for any set of dependencies; only sets of one occur.
- The simulated clock of `StateQuestions` reads times in order. `PastIsSettled` therefore says nothing of an event that
  is committed late with an older `now`; section 6 does.
- `DayPlan`: days of equal length, and only the built-in heuristic, which answers triggers about windows and days;
  breached deadlines, for which it has no rule, are left out of the triggers, and with them the sure place that their
  tasks have in the context. The user makes and finishes tasks but
  does not move them. `Shapes` are any windows and deadlines. What the answer's cut drops is given up by the code, with
  a note in the checkpoint, and so excused by `EndedIsReplanned`.
- `LogReaders`: rows that cannot be read end the watch, as they do in the code; `EveryEventTold` excludes them.
- `CalendarImport` starts from the events that the text parser finds; unfolding, escapes and date forms are left out.
  `KeysAssumption` says that keys of different kinds differ. The code forms all of them from the uid
  (`calendar_import.py:174`, `222`, `227`) and does not escape it, so an event whose uid is another's followed by
  `:cancelled` would get the key of that one's cancellation; such uids, and two uids whose hashes collide, are what the
  assumption excludes. `UidsAssumption` says that a file names an event once. The parser does not check it: of two
  entries with one uid the later one would be followed, and the property says nothing of the other.
- Titles, reasons, timezones of tasks and estimates: carried by tasks, read by no modelled rule.
- The demonstrations of `scenarios.py`, the question texts of the benchmark, formatting in the MCP server and the
  command line's printing: no state of the system depends on them.

## 6. Where the code and its documentation disagree

Three of these have a run that shows them:

- **Two schedulers** (`lock_free`). Overlapping acquisitions can elect two schedulers: an empty file is taken for
  stale while its owner is about to write it, and `unlink` removes whatever has the name. `lock.py:2` and `SPEC.md:193`
  say there is at most one.
- **An expansion without end** (`recurrence_never`). A monthly rule none of whose days exist in the months it visits
  (day 30, every twelfth month, from a February) is accepted, and `_candidates` never yields, so that the checks of the
  limit and of `MAX_CANDIDATES` (`recurrence.py:266`, `268`) are not reached, inside the scheduler's write transaction.
  `recurrence.py:46` calls it a "safety bound on expansion".
- **Decided again** (`agent_twice`). A batch's id is the hash of all its triggers (`agent.py:108`). If one more trigger
  arrives, or a task of one finishes, before a crashed agent is replaced, the batch has another id, its actions have
  new keys, and they run again. `agent.py:19` says the re-decided batch "cannot apply anything a second time".

The others were met while the modules were written, and the properties are stated so that they hold of the code:

- **Late completions.** `complete_task` judges lateness by the status (`mutators.py:119`), not by `now`; a task completed
  after its window ended, before a tick noticed, is recorded as on time. `mcp_server.py:476` says otherwise.
- **Holds.** Any later decision under the same key clears a hold (`storage.py:348`), also that of a call which does
  not ask for confirmation and is applied at once. `actions.py:12` and `SPEC.md:165` say only confirm or decline does.
- **Order of catching up.** A late tick writes the events of one task in a fixed order of kinds, so a deadline
  inside the window comes after the window's end. `engine.py:83` says boundaries are chained "in order".
- **A gap over dates to come.** A pass made while the clock was ahead records a gap through the last date it skipped;
  after the clock is set right these dates are still to come and are never generated (`mutators.py:285`). `SPEC.md:277`
  says every occurrence within the next seven days is. `MadeOrReported` speaks of the latest time instead.
- **A decision without a trace.** A `create_recurrence` whose template cannot be generated is rolled back with its
  `ACTION_PROPOSED` event (`runtime.py:224`). `actions.py:4` says every call is logged whatever the outcome.
- **A budget that stops counting.** `_creation_budget` looks at the first 1000 proposals of the day (`agent.py:218`);
  creations after these are not counted. `SPEC.md:256` says creations are capped. `BudgetHolds` has the condition.
- **A backoff that raises.** `2.0 ** failures` raises after 1024 failures in a row, in the handlers that keep the
  loops alive (`agent.py:231`, `runtime.py:187`). `runtime.py:20` says "Errors never kill the loop".
- **Exact instants.** `next_delay` reads the clock again (`runtime.py:172`): a boundary between the two readings is
  ticked a refresh interval later. `runtime.py:17` says known boundaries are ticked "at the exact instant".
- **Importing again.** The import compares the file with the task's window, so an unchanged file moves back a task that
  the user moved (`calendar_import.py:224`). `calendar_import.py:9` says re-importing does nothing;
  `SettledIsFollowed` says it of a file that nothing followed.
- **A cursor past what was cut.** The cursor is the view's last seq, also when the events were cut
  (`mcp_server.py:285`). `SPEC.md:159` says "never skipping".
- **A time past what is to come.** `execute` reads the clock before it waits for the lock (`runtime.py:199`), so
  an event may be committed behind an answer's `now`, which the next call passes as `since`. `SPEC.md:159` again.
- **A past that changes.** For the same reason an event may be recorded with a time before one that somebody has asked
  about since (`runtime.py:199`): asked again, `state_as_of` has it. `storage.py:378` says the answer is "what it knew
  then". `PastIsSettled` is about times that are read in order.
- **A row that cannot be read.** `query_events` raises for an event type it does not know (`storage.py:155`), which
  the view quarantines: the watch ends. `SPEC.md:187` says a bad event is skipped.

## 7. What is left

All parts that keep state have a module. Left are: the calendar's text parser against a grammar; and the
composition of the agent's loop with `EventStore`, which `AgentLoop` replaces by atomic transactions.
