----------------------------- MODULE Occurrences -----------------------------
(***************************************************************************)
(* Recurring templates and the tasks made from them: create_recurrence,    *)
(* end_recurrence and materialize (mutators.py), called in the scheduler's *)
(* pass and in the transaction of a create_recurrence decision             *)
(* (runtime.py), over the indexes of the view (storage.py).                *)
(*                                                                         *)
(* A template's rule is given by what RecurrenceRules computes from it:    *)
(* its dates, and for each date the instant at which the day begins in the *)
(* template's zone and the instant at which the occurrence starts.         *)
(*                                                                         *)
(* The log is given by what it replays to, and beside it is the view of    *)
(* the process that takes the steps (the others' are brought up to the log *)
(* before they decide: EventStore).  A creation changes the view piece by  *)
(* piece before it commits; the other transactions are single steps.       *)
(* MaxInstant bounds the clock.                                            *)
(***************************************************************************)
EXTENDS Integers, FiniteSets

CONSTANTS
    Template,        \* the create_recurrence calls that clients make, and their templates
    DatesOf,         \* the dates of a template's rule
    DayBegins,       \* DayBegins[t][d]: midnight of date d in the zone of t
    StartAt,         \* StartAt[t][d]: the start of the occurrence on d
    BreaksFrom,      \* generating t up to this date raises
    FirstDay,        \* FirstDay[t]: midnight of first_date
    Span,            \* MAX_RECURRENCE_SPAN_DAYS
    Horizon,         \* DEFAULT_HORIZON
    Lookback,        \* DEFAULT_LOOKBACK
    LastDate,        \* bound: the last date of a rule
    MaxInstant,      \* bound: the last instant of the clock
    MaxStepsBack,    \* bound: how often the clock is stepped back
    MaxFinished      \* bound: the occurrences whose task is finished

Dates == 0 .. LastDate
NoDate == -1

ASSUME TemplateAssumption ==
    /\ LastDate \in Nat
    /\ DatesOf \in [Template -> SUBSET Dates]
    /\ DayBegins \in [Template -> [Dates -> Int]]
    /\ StartAt \in [Template -> [Dates -> Int]]
    /\ BreaksFrom \in [Template -> Nat]
    /\ FirstDay \in [Template -> Int]
ASSUME StartsAssumption ==
    \A t \in Template : \A d, e \in DatesOf[t] :
        /\ d < e => StartAt[t][d] <= StartAt[t][e]
        /\ DayBegins[t][d] <= StartAt[t][d]
ASSUME WindowAssumption ==
    /\ Horizon \in Nat /\ Lookback \in Nat /\ Span \in Nat
    /\ MaxInstant \in Nat /\ MaxStepsBack \in Nat /\ MaxFinished \in Nat

VARIABLES
    clock,
    stepsBack,     \* how often it was stepped back
    \* the log, by what it replays to
    templates,     \* "absent", "live" or "ended"
    decision,      \* the outcome of the last call that makes a template; "lost": rolled back
    materialized,  \* <<template, date>>
    gapThrough,
    finished,      \* the occurrences whose task was completed, cancelled or moved
    \* the process
    view,          \* View: recurrences, seen_keys, tasks, materialized and gap_through
    creating,      \* the call whose transaction is open, how far it is, and its now
    \* history
    made,          \* how many tasks of <<template, date>> were committed
    asOf           \* the latest time the template was generated at

vars == <<clock, stepsBack, templates, decision, materialized, gapThrough, finished,
          view, creating, made, asOf>>

NoCreation == [stage |-> "none"]

Occurrence == Template \X Dates

-----------------------------------------------------------------------------
(* _materialize_one                                                         *)

Expanded(t, now) == {d \in DatesOf[t] : DayBegins[t][d] <= now + Horizon}

\* occurrence_dates or occurrence_window raises.
Breaks(t, now) == \E d \in Expanded(t, now) : d >= BreaksFrom[t]

Considered(t, now) ==
    {d \in Expanded(t, now) : <<t, d>> \notin view.materialized /\ d > view.gapThrough[t]}

Skipped(t, now) == {d \in Considered(t, now) : StartAt[t][d] < now - Lookback}

\* Mutant: no gap is recorded.
GapAfter_Forgotten(t, now) == view.gapThrough[t]

\* last_skipped: dates are examined in order.
GapAfter(t, now) ==
    IF Skipped(t, now) = {} THEN view.gapThrough[t]
    ELSE CHOOSE d \in Skipped(t, now) : \A e \in Skipped(t, now) : e <= d

-----------------------------------------------------------------------------
(* materialize                                                              *)

\* Mutant: one template that raises stops the pass for all.
Generated_AllOrNone(live, now) ==
    IF \E t \in live : Breaks(t, now) THEN {} ELSE live

\* A template that raises is reported and the others carry on.
Generated(live, now) == {t \in live : ~Breaks(t, now)}

NewOccurrences(ts, now) ==
    UNION {{t} \X (Considered(t, now) \ Skipped(t, now)) : t \in ts}

Later(a, b) == IF a < b THEN b ELSE a

\* Store.append of what was generated, and the commit.
Materialize(ts, now) ==
    LET new == NewOccurrences(ts, now) IN
    /\ materialized' = materialized \cup new
    /\ made' = [o \in Occurrence |-> IF o \in new THEN made[o] + 1 ELSE made[o]]
    /\ gapThrough' = [t \in Template |->
                        IF t \in ts THEN GapAfter(t, now) ELSE gapThrough[t]]
    /\ asOf' = [t \in Template |-> IF t \in ts THEN Later(asOf[t], now) ELSE asOf[t]]
    /\ view' = [view EXCEPT !.tasks = @ \cup new, !.materialized = @ \cup new,
                            !.gapThrough = gapThrough']

LiveTemplates == {t \in Template : view.templates[t] = "live"}

-----------------------------------------------------------------------------
(* Transactions                                                             *)

\* run_pass: the clock is read when the write lock is held.
Pass ==
    /\ creating = NoCreation
    /\ Materialize(Generated(LiveTemplates, clock), clock)
    /\ UNCHANGED <<clock, stepsBack, templates, decision, finished, creating>>

InSpan(t, now) == FirstDay[t] - now \in -Span .. Span

(***************************************************************************)
(* A create_recurrence call (Runtime.execute and _apply).  now was read    *)
(* before the wait for the lock, so it may be any earlier instant.  The    *)
(* decision puts the template and the key into the view; then every live   *)
(* template is generated, in the order of the dict, so the new one last;   *)
(* and what was generated is appended when all of them are through.        *)
(***************************************************************************)
Create(t, now) ==
    /\ creating = NoCreation /\ t \notin view.seen
    /\ InSpan(t, now)
    /\ creating' = [stage |-> "decided", template |-> t, now |-> now]
    /\ view' = [view EXCEPT !.templates[t] = "live", !.seen = @ \cup {t}]
    /\ UNCHANGED <<clock, stepsBack, templates, decision, materialized, gapThrough, finished,
                   made, asOf>>

CreateGenerates ==
    LET others == Generated(LiveTemplates \ {creating.template}, creating.now) IN
    /\ creating.stage = "decided"
    /\ creating' = [creating EXCEPT !.stage = "others"]
    /\ view' = [view EXCEPT !.tasks = @ \cup NewOccurrences(others, creating.now)]
    /\ UNCHANGED <<clock, stepsBack, templates, decision, materialized, gapThrough, finished,
                   made, asOf>>

CreateCommits ==
    /\ creating.stage = "others"
    /\ ~Breaks(creating.template, creating.now)
    /\ templates' = [templates EXCEPT ![creating.template] = "live"]
    /\ decision' = [decision EXCEPT ![creating.template] = "applied"]
    /\ Materialize(Generated(LiveTemplates, creating.now), creating.now)
    /\ creating' = NoCreation
    /\ UNCHANGED <<clock, stepsBack, finished>>

\* Store.reload
Replayed ==
    [templates |-> templates, seen |-> {t \in Template : decision[t] = "applied"},
     tasks |-> {o \in Occurrence : made[o] > 0},
     materialized |-> materialized, gapThrough |-> gapThrough]

\* Mutant: the transaction is rolled back and the view is not.
ViewAfterFailure_Kept == view

ViewAfterFailure == Replayed

\* The database rolls back what was not committed.
RollBack ==
    /\ decision' = [decision EXCEPT ![creating.template] = "lost"]
    /\ creating' = NoCreation
    /\ UNCHANGED <<clock, stepsBack, templates, materialized, gapThrough, finished, made, asOf>>

\* The new template raises: the transaction rolls back, with its decision event.
CreateRaises ==
    /\ creating.stage = "others"
    /\ Breaks(creating.template, creating.now)
    /\ view' = ViewAfterFailure
    /\ RollBack

\* The process dies inside the transaction; the next one reads the log.
Killed ==
    /\ creating # NoCreation
    /\ view' = Replayed
    /\ RollBack

CreateRefused(t, now) ==
    /\ creating = NoCreation /\ t \notin view.seen
    /\ ~InSpan(t, now)
    /\ decision' = [decision EXCEPT ![t] = "rejected"]
    /\ UNCHANGED <<clock, stepsBack, templates, materialized, gapThrough, finished,
                   view, creating, made, asOf>>

\* end_recurrence; on any other template it is rejected and changes nothing here.
End(t) ==
    /\ creating = NoCreation /\ t \in LiveTemplates
    /\ templates' = [templates EXCEPT ![t] = "ended"]
    /\ view' = [view EXCEPT !.templates[t] = "ended"]
    /\ UNCHANGED <<clock, stepsBack, decision, materialized, gapThrough, finished,
                   creating, made, asOf>>

\* The task of an occurrence is completed, cancelled or moved: the occurrence
\* stays in the index, and a replacement carries its identity.
Finish(o) ==
    /\ creating = NoCreation /\ o \in view.tasks
    /\ Cardinality(finished) < MaxFinished
    /\ finished' = finished \cup {o}
    /\ UNCHANGED <<clock, stepsBack, templates, decision, materialized, gapThrough,
                   view, creating, made, asOf>>

\* Time passes while the scheduler runs, or while nothing does.
ClockAdvances ==
    /\ \E later \in clock + 1 .. MaxInstant : clock' = later
    /\ UNCHANGED <<stepsBack, templates, decision, materialized, gapThrough, finished,
                   view, creating, made, asOf>>

ClockSteppedBack ==
    /\ stepsBack < MaxStepsBack
    /\ \E earlier \in 0 .. clock - 1 : clock' = earlier
    /\ stepsBack' = stepsBack + 1
    /\ UNCHANGED <<templates, decision, materialized, gapThrough, finished,
                   view, creating, made, asOf>>

Init ==
    /\ clock = 0 /\ stepsBack = 0
    /\ templates = [t \in Template |-> "absent"]
    /\ decision = [t \in Template |-> "none"]
    /\ materialized = {} /\ finished = {}
    /\ gapThrough = [t \in Template |-> NoDate]
    /\ made = [o \in Occurrence |-> 0]
    /\ asOf = [t \in Template |-> 0]
    /\ view = Replayed
    /\ creating = NoCreation

Creation == CreateGenerates \/ CreateCommits \/ CreateRaises

Next ==
    \/ Pass
    \/ \E t \in Template :
          \/ \E now \in 0 .. clock : Create(t, now) \/ CreateRefused(t, now)
          \/ End(t)
    \/ Creation
    \/ Killed
    \/ \E o \in Occurrence : Finish(o)
    \/ ClockAdvances
    \/ ClockSteppedBack

Spec == Init /\ [][Next]_vars

\* Time passes; an open transaction ends; and a scheduler runs its passes
\* (run_forever), which clients that create again and again do not keep from
\* the write lock for ever.  The clock is not stepped back for ever (MaxStepsBack).
FairSpec == Spec /\ SF_vars(Pass) /\ WF_vars(Creation) /\ WF_vars(ClockAdvances)

-----------------------------------------------------------------------------
(* Properties                                                               *)

Views ==
    [templates : [Template -> {"absent", "live", "ended"}], seen : SUBSET Template,
     tasks : SUBSET Occurrence, materialized : SUBSET Occurrence,
     gapThrough : [Template -> Dates \cup {NoDate}]]

Creations == [stage : {"decided", "others"}, template : Template, now : 0 .. MaxInstant]

TypeOK ==
    /\ clock \in 0 .. MaxInstant /\ stepsBack \in 0 .. MaxStepsBack
    /\ templates \in [Template -> {"absent", "live", "ended"}]
    /\ decision \in [Template -> {"none", "applied", "rejected", "lost"}]
    /\ materialized \subseteq Occurrence /\ finished \subseteq Occurrence
    /\ gapThrough \in [Template -> Dates \cup {NoDate}]
    /\ view \in Views
    /\ creating \in {NoCreation} \cup Creations
    /\ made \in [Occurrence -> Nat]
    /\ asOf \in [Template -> 0 .. MaxInstant]

\* An occurrence is made at most once, whoever generates it, how often, at
\* what time, and whatever became of its task, and only of a template that was
\* created; and unless a transaction is open the view has exactly the tasks
\* that were committed, whatever raised or crashed before (materialize:
\* "creates each occurrence exactly once ... never quietly recreated"; "a failure
\* partway can never leave tasks in memory that are not in the log").
MadeOnce ==
    /\ \A o \in Occurrence : made[o] <= 1 /\ (made[o] = 1 => decision[o[1]] = "applied")
    /\ creating = NoCreation => view.tasks = {o \in Occurrence : made[o] = 1}

Established == {t \in Template : templates[t] = "live"}

\* Whatever the downtime, the older times since then, the clock and the other
\* templates: of the dates up to the horizon of the latest time a template was
\* generated at, each was made, or was older than the lookback and is covered by
\* the recorded gap (materialize: "create any occurrence that should exist and
\* does not"; SPEC.md section 9: nothing is left out silently).  The log never
\* has a template without its occurrences (_apply: "a crash cannot leave a
\* template with no occurrences").
MadeOrReported ==
    \A t \in Established : \A d \in DatesOf[t] :
        DayBegins[t][d] <= asOf[t] + Horizon
            => \/ <<t, d>> \in materialized
               \/ StartAt[t][d] < asOf[t] - Lookback /\ d <= gapThrough[t]

\* A creation that was refused, raised when its transaction had changed the view,
\* or died with its process, leaves nothing behind, in the log or in memory: no
\* template, no key, no gap and no task (Runtime._apply rolls back and
\* Store.transaction reloads).
RefusedLeavesNothing ==
    \A t \in Template : decision[t] # "applied" =>
        /\ templates[t] = "absent" /\ gapThrough[t] = NoDate
        /\ \A d \in Dates : <<t, d>> \notin materialized
        /\ creating = NoCreation =>
              /\ view.templates[t] = "absent" /\ t \notin view.seen
              /\ view.gapThrough[t] = NoDate
              /\ \A d \in Dates : <<t, d>> \notin view.tasks \cup view.materialized

\* While the scheduler runs, each date of a live template that can be
\* generated is made or reported in the end.
EventuallyMadeOrReported ==
    \A o \in {x \in Occurrence :
                /\ x[2] \in Expanded(x[1], MaxInstant)
                /\ ~Breaks(x[1], MaxInstant)} :
        templates[o[1]] = "live"
            ~> \/ o \in materialized
               \/ o[2] <= gapThrough[o[1]]
               \/ templates[o[1]] = "ended"

=============================================================================
