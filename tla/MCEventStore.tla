---------------------------- MODULE MCEventStore ----------------------------
(* Values for TLC: two processes that propose, hold and confirm under the   *)
(* same two keys.                                                           *)
EXTENDS EventStore, TLC

CONSTANTS k1, k2

Keys == {k1, k2}

Symmetry == Permutations(Proc)

Proposal(k, action, task, start, end, deadline, holds) ==
    [key |-> k, action |-> action, task |-> task,
     start |-> start, end |-> end, deadline |-> deadline,
     holds |-> holds, oversized |-> FALSE]

\* Tasks that can pass all three boundaries, under either key; and under the
\* second key a move, a start, and a completion that a human has to confirm.
StoreCalls ==
    {Proposal(k, "create_task", NoTask, 0, 1, 1, FALSE) : k \in Key}
    \cup {Proposal(k2, "reschedule_task", 1, 1, 2, 2, FALSE),
          Proposal(k2, "start_task", 1, NoTime, NoTime, NoTime, FALSE),
          Proposal(k2, "complete_task", 1, NoTime, NoTime, NoTime, TRUE)}

=============================================================================
