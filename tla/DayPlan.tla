------------------------------- MODULE DayPlan -------------------------------
(***************************************************************************)
(* The built-in heuristic (StubHeuristicLLM of providers.py) in the loop   *)
(* it was written for: the scheduler's passes end windows and announce     *)
(* days, the agent hands the heuristic a context of bounded size, and      *)
(* executes the moves it answers with -- later than it asked, while the    *)
(* user goes on.  The module composes TaskEngine with the context of       *)
(* agent.py and the rules of the heuristic.                                *)
(*                                                                         *)
(* A day has DayLength instants, all in the user's timezone; days of other *)
(* lengths are RecurrenceRules' subject.  The agent's cursor, crashes and  *)
(* budget are AgentLoop's.  The clock only moves forward.                  *)
(***************************************************************************)
EXTENDS TaskEngine, SequencesExt

CONSTANTS
    DayLength,
    NineOClock,   \* 09:00, as an offset into the day
    HalfHour,     \* the least slack a window is squeezed into
    MaxContext,   \* AgentConfig.max_context_tasks
    MaxCalls,     \* AgentConfig.max_calls_per_batch
    Shapes        \* the <<start, end, deadline>> of the tasks the user makes

ASSUME DayAssumption == DayLength \in Nat \ {0} /\ NineOClock \in Nat /\ HalfHour \in Nat
ASSUME AgentAssumption == MaxContext \in Nat /\ MaxCalls \in Nat
ASSUME ShapesAssumption ==
    Shapes \subseteq OptionalInstant \X OptionalInstant \X OptionalInstant

VARIABLES
    clock,
    day,       \* the day of the last pass
    ended,     \* the tasks of the TASK_WINDOW_ENDED events the agent has not handled
    newDay,    \* there is an unhandled NEW_DAY event
    enabled,   \* the agent has been started, and has a cursor
    plan,      \* the moves the heuristic proposed that are still to be executed
    \* history
    asked,     \* when the heuristic was asked
    fresh,     \* since then the clock stood still and nobody else acted
    unmoved    \* the tasks a move of which was refused or cut off, or that are history

planVars == <<clock, day, ended, newDay, enabled, plan, asked, fresh, unmoved>>
loopVars == <<tasks, seen, pending, planVars>>

PlanInit ==
    /\ Init
    /\ clock = 0 /\ day = 0 /\ ended = <<>> /\ newDay = FALSE
    /\ enabled = FALSE /\ plan = <<>>
    /\ asked = 0 /\ fresh = TRUE /\ unmoved = {}

-----------------------------------------------------------------------------
(* What the heuristic is shown                                              *)

\* Agent._context's nearness
Nearness(i) ==
    LET at == IF tasks[i].start # NoTime THEN tasks[i].start
              ELSE IF tasks[i].deadline # NoTime THEN tasks[i].deadline ELSE clock
    IN  IF at > clock THEN at - clock ELSE clock - at

Unfinished == {i \in DOMAIN tasks : ~IsTerminal(tasks[i])}

\* The members of S in the order that is given as a set of pairs.
InOrder(S, order) ==
    CHOOSE s \in [1 .. Cardinality(S) -> S] :
        \A m, n \in DOMAIN s : m < n => <<s[m], s[n]>> \in order

Ascending == {ij \in Nat \X Nat : ij[1] < ij[2]}

Nearer ==
    {ij \in Unfinished \X Unfinished :
        \/ Nearness(ij[1]) < Nearness(ij[2])
        \/ Nearness(ij[1]) = Nearness(ij[2]) /\ ij[1] < ij[2]}

FirstOf(s, n) == SubSeq(s, 1, Min({Len(s), Max({0, n})}))

\* Mutant: the tasks the events are about may be cut like the others.
Context_Nearest == FirstOf(InOrder(Unfinished, Nearer), MaxContext)

\* The tasks the events are about always go in; of the rest, the nearest to now.
Context ==
    LET wanted == Unfinished \cap ToSet(ended)
    IN  InOrder(wanted, Ascending)
        \o FirstOf(InOrder(Unfinished \ wanted, Nearer), MaxContext - Cardinality(wanted))

-----------------------------------------------------------------------------
(* The heuristic                                                            *)

DateOf(t) == t \div DayLength
Midnight(t) == (DateOf(t) + 1) * DayLength
Morning(date) == date * DayLength + NineOClock

Proposal(action, i, start, end, reason) ==
    [action |-> action, task |-> i, start |-> start, end |-> end, reason |-> reason]

Duration(i) == tasks[i].end - tasks[i].start      \* a window that ended has both

\* Until the next task of today, and never past midnight.
Slack(context) ==
    LET remainingToday == {tasks[j].start : j \in
            {j \in ToSet(context) : /\ tasks[j].status = "SCHEDULED"
                                    /\ tasks[j].start > clock
                                    /\ DateOf(tasks[j].start) = DateOf(clock)}}
    IN  Min({Midnight(clock)} \cup remainingToday) - clock

Squeezed(context, i) ==
    Proposal("reschedule_task", i, clock, clock + Min({Duration(i), Slack(context)}), "slack")

\* Mutant: nine o'clock of today.
PutOff_Today(i) ==
    LET nine == Morning(DateOf(clock))
    IN  Proposal("carry_forward_task", i, nine, nine + Duration(i), "no slack")

PutOff(i) ==
    LET nine == Morning(DateOf(clock) + 1)
    IN  Proposal("carry_forward_task", i, nine, nine + Duration(i), "no slack")

HandleWindowEnded(context, i) ==
    IF Slack(context) > HalfHour THEN Squeezed(context, i) ELSE PutOff(i)

\* Yesterday's unfinished work, in the order in which it was due.
StaleWork(context, handled) ==
    LET stale == {n \in DOMAIN context :
            LET task == tasks[context[n]] IN
            /\ context[n] \notin handled
            /\ task.status = "WINDOW_ENDED" /\ DateOf(task.end) < DateOf(clock)}
        due(n) == tasks[context[n]].end
        positions == InOrder(stale, {mn \in stale \X stale :
            \/ due(mn[1]) < due(mn[2])
            \/ due(mn[1]) = due(mn[2]) /\ mn[1] < mn[2]})
    IN  [n \in DOMAIN positions |-> context[positions[n]]]

\* Mutant: everything is put at the same time.
Stacked_Together(stack, i) ==
    [stack EXCEPT !.calls = Append(@, Proposal("carry_forward_task", i, stack.cursor,
                                               stack.cursor + Duration(i), "yesterday"))]

\* A deadline is not extended: the task is left alone if it would be over.
Stacked(stack, i) ==
    IF tasks[i].deadline # NoTime /\ stack.cursor >= tasks[i].deadline THEN stack
    ELSE [cursor |-> stack.cursor + Duration(i),
          calls |-> Append(stack.calls, Proposal("carry_forward_task", i, stack.cursor,
                                                 stack.cursor + Duration(i), "yesterday"))]

StackOf(work) ==
    LET stack[n \in 0 .. Len(work)] ==
            IF n = 0 THEN [cursor |-> Max({clock, Morning(DateOf(clock))}), calls |-> <<>>]
            ELSE Stacked(stack[n - 1], work[n])
    IN  stack[Len(work)]

\* Mutant: work whose window's end was just handled is carried as well.
HandleNewDay_Handled(context, handled) == StackOf(StaleWork(context, {})).calls

HandleNewDay(context, handled) == StackOf(StaleWork(context, handled)).calls

\* The tasks of the events, of those that are not finished by now.
Handled(context) ==
    LET positions == InOrder({n \in DOMAIN ended : ended[n] \in ToSet(context)}, Ascending)
    IN  [n \in DOMAIN positions |-> ended[positions[n]]]

\* StubHeuristicLLM.decide
Answer(context) ==
    LET handled == Handled(context)
    IN  [n \in DOMAIN handled |-> HandleWindowEnded(context, handled[n])]
        \o (IF newDay THEN HandleNewDay(context, ToSet(handled)) ELSE <<>>)

-----------------------------------------------------------------------------
(* The loop                                                                 *)

Advance ==
    /\ clock < MaxInstant
    /\ clock' = clock + 1
    /\ fresh' = FALSE
    /\ UNCHANGED <<tasks, seen, pending, day, ended, newDay, enabled, plan, asked, unmoved>>

\* The tasks of which TickEvents has a TASK_WINDOW_ENDED.
EndingNow == {i \in DOMAIN tasks : WindowEnds(Opened(tasks[i], clock), clock)}

Pass ==
    /\ Tick(clock)
    /\ ended' = ended \o InOrder(EndingNow, Ascending)
    /\ newDay' = (newDay \/ DateOf(clock) # day)
    /\ day' = DateOf(clock)
    /\ fresh' = (fresh /\ tasks' = tasks)
    /\ UNCHANGED <<clock, enabled, plan, asked, unmoved>>

\* Agent._cursor: what happened before the agent was ever started is skipped.
Enable ==
    /\ ~enabled
    /\ enabled' = TRUE
    /\ ended' = <<>> /\ newDay' = FALSE
    /\ unmoved' = {i \in DOMAIN tasks : tasks[i].status = "WINDOW_ENDED"}
    /\ UNCHANGED <<tasks, seen, pending, clock, day, plan, asked, fresh>>

Ask ==
    /\ enabled /\ plan = <<>>
    /\ ended # <<>> \/ newDay
    /\ LET answer == Answer(Context) IN
       /\ plan' = FirstOf(answer, MaxCalls)
       /\ unmoved' = unmoved \cup {p.task : p \in ToSet(answer) \ ToSet(plan')}
    /\ ended' = <<>> /\ newDay' = FALSE
    /\ asked' = clock /\ fresh' = TRUE
    /\ UNCHANGED <<tasks, seen, pending, clock, day, enabled>>

FreshKey == CHOOSE k \in Key : k \notin seen

CallOf(action, i, start, end, deadline) ==
    [key |-> FreshKey, action |-> action, task |-> i,
     start |-> start, end |-> end, deadline |-> deadline, holds |-> FALSE, oversized |-> FALSE]

ExecuteNext ==
    /\ plan # <<>> /\ seen # Key
    /\ LET p == Head(plan) IN
       /\ Execute(CallOf(p.action, p.task, p.start, p.end, NoTime), clock)
       /\ unmoved' = IF tasks' = tasks THEN unmoved \cup {p.task} ELSE unmoved
    /\ plan' = Tail(plan)
    /\ UNCHANGED <<clock, day, ended, newDay, enabled, asked, fresh>>

UserActs ==
    /\ seen # Key
    /\ \/ \E shape \in Shapes :
             Apply(CallOf("create_task", NoTask, shape[1], shape[2], shape[3]), clock, FALSE)
       \/ \E i \in DOMAIN tasks :
             Apply(CallOf("complete_task", i, NoTime, NoTime, NoTime), clock, FALSE)
    /\ fresh' = FALSE
    /\ UNCHANGED <<clock, day, ended, newDay, enabled, plan, asked, unmoved>>

PlanNext == Advance \/ Pass \/ Enable \/ Ask \/ ExecuteNext \/ UserActs

PlanSpec == PlanInit /\ [][PlanNext]_loopVars

-----------------------------------------------------------------------------
(* Properties                                                               *)

\* What the heuristic proposes is what the engine accepts: if nothing happened
\* since it was asked, a move is refused only because its lineage was moved
\* too often or its deadline leaves no room (scenarios.py: "accepted by the
\* real deterministic layer"); no task is proposed twice in one answer.
PlansAreAccepted ==
    [][LET p == Head(plan) IN
       plan # <<>> /\ plan' = Tail(plan) /\ fresh /\ tasks' = tasks =>
          \/ Cardinality(RecentMoves(p.task, clock)) >= MaxMoves
          \/ tasks[p.task].deadline # NoTime /\ p.start >= tasks[p.task].deadline]_loopVars

\* No ended window is forgotten, however many tasks compete for the context:
\* once the agent has nothing to do, a task whose window ended was moved or
\* finished, unless the engine refused its move, the answer was longer than
\* the agent carries out, or it ended before the agent was started.
EndedIsReplanned ==
    enabled /\ plan = <<>> /\ ended = <<>> =>
        \A i \in DOMAIN tasks : tasks[i].status = "WINDOW_ENDED" => i \in unmoved

\* The work carried into a new day does not overlap, starts in the future, and
\* keeps the order in which it was due (SPEC.md section 8: "stacked without
\* overlap").
MorningIsStacked ==
    \A n \in DOMAIN plan : plan[n].reason = "yesterday" =>
        /\ plan[n].start >= asked
        /\ \A m \in 1 .. n - 1 : plan[m].reason = "yesterday" =>
              /\ plan[m].end <= plan[n].start
              /\ tasks[plan[m].task].end <= tasks[plan[n].task].end

\* The loop cannot run away ("re-fired WINDOW_ENDED and rescheduled again,
\* forever"): at one instant a piece of work is moved at most twice, by an
\* answer that came late and by a fresh one, whatever the cap is.
MovedAt(t) == {i \in DOMAIN tasks : IsMoved(tasks[i]) /\ tasks[i].lastTransitionAt = t}

NoRunaway ==
    \A i \in DOMAIN tasks :
        Cardinality((Ancestors(tasks, i) \cup {i}) \cap MovedAt(clock)) <= 2

=============================================================================
