---------------------------- MODULE MCTaskEngine ----------------------------
(* Values for TLC, and the engine and one task's catching up side by side:  *)
(* they share nothing, so in a behaviour one of them moves and the other    *)
(* stays as it began, and their states add up instead of multiplying.       *)
EXTENDS TaskEngine, CatchUp, TLC

VARIABLE side     \* the one that moves

MCInit ==
    /\ side \in {"engine", "task"}
    /\ Init
    /\ CatchUpInit
    /\ side = "engine" => lagging = NewTask(NoTime, NoTime, NoTime, NoTask, 0, NoKey)

MCNext ==
    /\ UNCHANGED side
    /\ \/ side = "engine" /\ Next /\ UNCHANGED catchUpVars
       \/ side = "task" /\ CatchUpNext /\ UNCHANGED vars

MCSpec == MCInit /\ [][MCNext]_<<vars, catchUpVars, side>>

KeySymmetry == Permutations(Key)

Proposal(k, action, task, start, end, deadline, holds) ==
    [key |-> k, action |-> action, task |-> task,
     start |-> start, end |-> end, deadline |-> deadline,
     holds |-> holds, oversized |-> FALSE]

Plain(k, action, task) == Proposal(k, action, task, NoTime, NoTime, NoTime, FALSE)

\* Every action, on tasks of every shape, with holds: creations that are
\* accepted, invalid, and held; moves that keep the deadline and moves that set one.
EngineCalls ==
    {Proposal(k, "create_task", NoTask, w[1], w[2], w[3], FALSE) :
        k \in Key, w \in {<<0, 1, NoTime>>, <<0, 2, 1>>, <<1, 0, NoTime>>}}
    \cup {Proposal(k, "create_task", NoTask, NoTime, NoTime, 1, TRUE) : k \in Key}
    \cup {Plain(k, a, i) :
            k \in Key, i \in 1 .. MaxTasks,
            a \in {"start_task", "complete_task", "drop_task"}}
    \cup {Plain(k, "unparseable_tool_call", NoTask) : k \in Key}
    \cup {Proposal(k, "reschedule_task", i, 1, 2, NoTime, FALSE) : k \in Key, i \in 1 .. MaxTasks}
    \cup {Proposal(k, "carry_forward_task", i, 1, 2, 2, FALSE) : k \in Key, i \in 1 .. MaxTasks}
    \cup {Proposal(k, "cancel_task", 1, NoTime, NoTime, NoTime, TRUE) : k \in Key}
    \cup {[Proposal(k, "cancel_task", 1, NoTime, NoTime, NoTime, TRUE) EXCEPT !.oversized = TRUE] :
            k \in Key}

=============================================================================
