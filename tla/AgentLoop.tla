------------------------------ MODULE AgentLoop ------------------------------
(***************************************************************************)
(* The agent's loop over the trigger events of the log (agent.py): the     *)
(* cursor that checkpoints in the log move forward, batches of triggers, a *)
(* provider call on a worker thread, one transaction per proposed action   *)
(* under a key derived from the batch, and the checkpoint that ends the    *)
(* batch.  The process may crash between any two of these and start again, *)
(* and users finish tasks and propose actions from other processes         *)
(* meanwhile.                                                              *)
(*                                                                         *)
(* A trigger's sequence number is its position in triggers; the log's      *)
(* other events are left out.  Time is a flag that the backoff or the      *)
(* interval between batches has not passed.  All proposals fall into the   *)
(* 24 hours over which the creation budget counts.  Holds are left out: a  *)
(* held call is not applied (TaskEngine).  So are the tasks that are       *)
(* created: a change of the day is about the tasks of Task.                *)
(***************************************************************************)
EXTENDS Integers, Sequences, FiniteSets, FiniteSetsExt

CONSTANTS
    Task,
    NewDay,          \* the trigger that is about no task
    BatchLimit,      \* batch_limit
    MaxCalls,        \* max_calls_per_batch
    MaxCreations,    \* max_creations_per_day
    QueryLimit,      \* the limit of the query of _creation_budget
    FloatLimit,      \* the largest n for which 2.0 ** n is a number
    MaxAnswer,       \* bound: the calls in one answer
    MaxTriggers,     \* bound: the triggers in the log
    MaxOthers,       \* bound: others propose while there are fewer proposals
    MaxFailures,     \* bound: the failures of the provider in a row
    MaxCrashes       \* bound: the crashes and failed transactions

ASSUME LimitsAssumption ==
    /\ BatchLimit \in Nat \ {0} /\ MaxCalls \in Nat /\ MaxCreations \in Nat
    /\ QueryLimit \in Nat /\ FloatLimit \in Nat
ASSUME BoundsAssumption ==
    /\ MaxAnswer \in Nat /\ MaxTriggers \in Nat /\ MaxOthers \in Nat
    /\ MaxFailures \in Nat /\ MaxCrashes \in Nat
ASSUME NewDayAssumption == NewDay \notin Task

Create == "create_task"

Call == {Create} \cup Task      \* a task stands for the call that finishes it

Answers == UNION {[1 .. n -> Call] : n \in 0 .. MaxAnswer}

NoCursor == -1

VARIABLES
    \* the log and what is derived from it
    triggers,    \* the trigger events: the task each is about, or NewDay
    open,        \* the tasks that are not terminal
    cursor,      \* View.agent_cursor
    applied,     \* the agent's applied calls: [batch, slot, call]
    proposed,    \* the ACTION_PROPOSED events of the day, up to QueryLimit of them
    counted,     \* the applied creations of the agent among these
    \* the agent's memory
    at,          \* "down", "idle", "asking", "applying", or "dead": the loop raised
    batch,       \* the sequence numbers of `relevant`
    through,
    calls,       \* the answer, cut to MaxCalls
    slot,        \* the next index of the for loop
    budget,      \* creations_left
    waiting,     \* _next_allowed_at is in the future
    failures,    \* _failures
    \* history
    skipped,     \* the last trigger of the skipped history
    dismissed,   \* the triggers that were found irrelevant
    decided,     \* the triggers of the batches that were decided
    crashes

logVars == <<triggers, open, cursor, applied, proposed, counted>>
memory == <<at, batch, through, calls, slot, budget, waiting, failures>>
history == <<skipped, dismissed, decided, crashes>>
vars == <<triggers, open, cursor, applied, proposed, counted, at, batch, through, calls,
          slot, budget, waiting, failures, skipped, dismissed, decided, crashes>>

Init ==
    /\ triggers = <<>> /\ open = Task /\ cursor = NoCursor
    /\ applied = {} /\ proposed = 0 /\ counted = 0
    /\ at = "idle" /\ waiting = FALSE
    /\ batch = {} /\ through = 0 /\ calls = <<>> /\ slot = 1 /\ budget = 0
    /\ failures = 0 /\ skipped = 0 /\ dismissed = {} /\ decided = {} /\ crashes = 0

\* The local variables of a step are gone when it ends.
Forget == batch' = {} /\ through' = 0 /\ calls' = <<>> /\ slot' = 1 /\ budget' = 0

-----------------------------------------------------------------------------
(* The scheduler and the users                                              *)

\* A tick ends a window, breaches a deadline or changes the day.
Trigger ==
    /\ Len(triggers) < MaxTriggers
    /\ \E about \in open \cup {NewDay} : triggers' = Append(triggers, about)
    /\ UNCHANGED <<open, cursor, applied, proposed, counted, memory, history>>

UserFinishes ==
    /\ \E task \in open : open' = open \ {task}
    /\ UNCHANGED <<triggers, cursor, applied, proposed, counted, memory, history>>

\* One more ACTION_PROPOSED event: those beyond QueryLimit are not seen.
Propose(isCreation) ==
    /\ proposed' = Min({proposed + 1, QueryLimit})
    /\ counted' = IF isCreation /\ proposed < QueryLimit THEN counted + 1 ELSE counted

OthersPropose ==
    /\ proposed < MaxOthers
    /\ Propose(FALSE)
    /\ UNCHANGED <<triggers, open, cursor, applied, memory, history>>

-----------------------------------------------------------------------------
(* Agent.step                                                               *)

\* Store.events(since_seq=cursor, limit=batch_limit): the oldest first.
Batch == cursor + 1 .. Min({cursor + BatchLimit, Len(triggers)})

\* Mutant: a change of the day needs no decision.
IsRelevant_NoDays(i) == triggers[i] \in open

IsRelevant(i) == IF triggers[i] = NewDay THEN open # {} ELSE triggers[i] \in open

\* Mutant: the checkpoint is one trigger short.
Checkpoint_Short(seq) == cursor' = IF seq > 1 THEN seq - 1 ELSE seq

\* The log's view takes the larger of two checkpoints.
Checkpoint(seq) == cursor' = IF cursor = NoCursor THEN seq ELSE Max({cursor, seq})

\* First run on a log: what is in it is skipped.
SkipHistory ==
    /\ at = "idle" /\ ~waiting /\ cursor = NoCursor
    /\ Checkpoint(Len(triggers))
    /\ skipped' = Len(triggers)
    /\ UNCHANGED <<triggers, open, applied, proposed, counted, memory, dismissed, decided, crashes>>

Ask ==
    /\ at = "idle" /\ ~waiting /\ cursor # NoCursor /\ Batch # {}
    /\ \E i \in Batch : IsRelevant(i)
    /\ batch' = {i \in Batch : IsRelevant(i)}
    /\ through' = Max(Batch)
    /\ dismissed' = dismissed \cup {i \in Batch : ~IsRelevant(i)}
    /\ at' = "asking"
    /\ UNCHANGED <<logVars, calls, slot, budget, waiting, failures, skipped, decided, crashes>>

\* Nothing in the batch is relevant: the provider is not called.
Dismiss ==
    /\ at = "idle" /\ ~waiting /\ cursor # NoCursor /\ Batch # {}
    /\ \A i \in Batch : ~IsRelevant(i)
    /\ Checkpoint(Max(Batch))
    /\ dismissed' = dismissed \cup Batch
    /\ UNCHANGED <<triggers, open, applied, proposed, counted, memory, skipped, decided, crashes>>

\* Mutant: every batch has the whole budget.
CreationBudget_PerBatch == MaxCreations

\* _creation_budget: the oldest QueryLimit proposals are counted.
CreationBudget == Max({0, MaxCreations - counted})

\* The provider's answer comes back to the event loop.
Answered ==
    /\ at = "asking"
    /\ \E answer \in Answers :
          calls' = SubSeq(answer, 1, Min({Len(answer), MaxCalls}))
    /\ budget' = CreationBudget
    /\ slot' = 1 /\ failures' = 0
    /\ at' = "applying"
    /\ UNCHANGED <<logVars, batch, through, waiting, history>>

\* _fail: another backoff, or no number for it and an error that ends run_forever.
BacksOff ==
    /\ failures' = failures + 1
    /\ at' = IF failures' <= FloatLimit THEN "idle" ELSE "dead"
    /\ waiting' = TRUE
    /\ Forget

\* The provider raises: nothing is checkpointed.
ProviderFails ==
    /\ at = "asking" /\ failures < MaxFailures
    /\ BacksOff
    /\ UNCHANGED <<logVars, history>>

Doing == at = "applying" /\ slot <= Len(calls)

Decision == [batch |-> batch, slot |-> slot, call |-> calls[slot]]

\* Mutant: the key is the provider's id for the call, another one in each answer.
IsSeen_PerCall == Decision \in applied

\* The key is the batch and the slot, whatever the answer is this time.
IsSeen == \E a \in applied : a.batch = batch /\ a.slot = slot

\* Runtime.reject: the budget is used up.
RejectCreation ==
    /\ Doing /\ calls[slot] = Create /\ budget = 0
    /\ Propose(FALSE)
    /\ slot' = slot + 1
    /\ UNCHANGED <<triggers, open, cursor, applied, at, batch, through, calls, budget,
                   waiting, failures, history>>

\* Runtime.execute of a create_task: applied, superseded under a seen key, or
\* rejected by the validator or the limit on everybody's creations.  It takes
\* from the budget in any case.
ExecuteCreation ==
    /\ Doing /\ calls[slot] = Create /\ budget > 0
    /\ budget' = budget - 1
    /\ \E runs \in {~IsSeen, FALSE} :
          /\ applied' = IF runs THEN applied \cup {Decision} ELSE applied
          /\ Propose(runs)
    /\ slot' = slot + 1
    /\ UNCHANGED <<triggers, open, cursor, at, batch, through, calls, waiting, failures, history>>

\* ... of a call that finishes a task: applied, superseded, or rejected when
\* the task was finished since the provider was asked.
ExecuteFinish ==
    /\ Doing /\ calls[slot] # Create
    /\ LET runs == ~IsSeen /\ calls[slot] \in open IN
       /\ applied' = IF runs THEN applied \cup {Decision} ELSE applied
       /\ open' = IF runs THEN open \ {calls[slot]} ELSE open
    /\ Propose(FALSE)
    /\ slot' = slot + 1
    /\ UNCHANGED <<triggers, cursor, at, batch, through, calls, budget, waiting, failures, history>>

Decided ==
    /\ at = "applying" /\ slot > Len(calls)
    /\ Checkpoint(through)
    /\ decided' = decided \cup batch
    /\ at' = "idle" /\ waiting' = TRUE /\ Forget
    /\ UNCHANGED <<triggers, open, applied, proposed, counted, failures, skipped, dismissed,
                   crashes>>

\* A transaction of the step raises: run_forever backs off.
StepFails ==
    /\ at = "applying" /\ crashes < MaxCrashes
    /\ BacksOff
    /\ crashes' = crashes + 1
    /\ UNCHANGED <<logVars, skipped, dismissed, decided>>

WaitEnds ==
    /\ waiting
    /\ waiting' = FALSE
    /\ UNCHANGED <<logVars, at, batch, through, calls, slot, budget, failures, history>>

Killed ==
    /\ at # "down" /\ crashes < MaxCrashes
    /\ at' = "down" /\ waiting' = FALSE /\ failures' = 0 /\ Forget
    /\ crashes' = crashes + 1
    /\ UNCHANGED <<logVars, skipped, dismissed, decided>>

Restart ==
    /\ at = "down"
    /\ at' = "idle"
    /\ UNCHANGED <<logVars, batch, through, calls, slot, budget, waiting, failures, history>>

Step ==
    \/ SkipHistory \/ Ask \/ Dismiss
    \/ RejectCreation \/ ExecuteCreation \/ ExecuteFinish \/ Decided
    \/ WaitEnds \/ Restart

Next ==
    \/ Trigger \/ UserFinishes \/ OthersPropose
    \/ Answered \/ ProviderFails
    \/ Step
    \/ StepFails \/ Killed

Spec == Init /\ [][Next]_vars

\* The loop and the clock go on, a crashed process is started again, and the
\* provider answers or raises, not for ever the latter (MaxFailures).
FairSpec == Spec /\ WF_vars(Step) /\ WF_vars(Answered \/ ProviderFails)

-----------------------------------------------------------------------------
(* Properties                                                               *)

\* No trigger is passed over: the cursor is beyond a trigger only if a batch
\* with it was decided, or it was irrelevant, and an irrelevant task trigger
\* is about a task that is finished for good, a change of the day came when
\* nothing was open (agent.py: "without advancing the checkpoint, so nothing is
\* lost").
NoTriggerLost ==
    /\ \A i \in skipped + 1 .. cursor : i \in decided \cup dismissed
    /\ \A i \in dismissed : triggers[i] \notin open /\ (triggers[i] = NewDay => open = {})

\* Through crashes and new answers: a trigger that was decided is in no later
\* batch; a batch that is decided again applies nothing in a slot in which it
\* applied something; a task is finished once, whatever the batches are in which
\* it was shown as open.  And only a crash lets two batches that share a
\* trigger apply anything in the same slot (agent.py: "a restart neither
\* re-decides history nor re-pays for it").
DecidedOnce ==
    /\ batch \cap decided = {}
    /\ \A a, b \in applied :
          /\ a.batch = b.batch /\ a.slot = b.slot => a = b
          /\ a.call = b.call /\ a.call # Create => a = b
          /\ crashes = 0 /\ a.batch \cap b.batch # {} /\ a.slot = b.slot => a = b

\* The tasks the agent created in the 24 hours are within its limit, whatever
\* it crashed on and was asked again, until there are so many proposals that
\* the budget's query does not see them all.
Creations == {a \in applied : a.call = Create}

BudgetHolds == proposed < QueryLimit => Cardinality(Creations) <= MaxCreations

\* A trigger in the log is decided or dismissed in the end, whatever crashes
\* and fails on the way (agent.py: "so nothing is lost").
EveryTriggerHandled ==
    \A i \in 1 .. MaxTriggers : i \in DOMAIN triggers ~> i <= cursor

\* Claimed by agent.py and SPEC.md section 8: a crash after applying but
\* before checkpointing and then re-deciding cannot apply anything a second
\* time.
NothingAppliedTwice ==
    \A a, b \in applied :
        a.call = b.call /\ a.slot = b.slot /\ a.batch \cap b.batch # {} => a = b

=============================================================================
