-------------------------- MODULE MCCalendarImport --------------------------
(* Values for TLC: two versions of a calendar with one event that moves, one *)
(* that cancels it, and an event that cannot be represented.                 *)
EXTENDS CalendarImport

VEvent(uid, start, end, cancelled) ==
    [uid |-> uid, start |-> start, end |-> end, cancelled |-> cancelled, recurring |-> FALSE]

MCFiles ==
    {<<VEvent("a", 1, 2, FALSE), VEvent(NoUid, 1, 2, FALSE), VEvent("b", 1, 2, FALSE)>>,
     <<VEvent("a", 2, 3, FALSE), [VEvent("b", 2, 3, FALSE) EXCEPT !.recurring = TRUE]>>,
     <<VEvent("a", 1, 2, TRUE), VEvent("b", 1, NoTime, FALSE)>>}

MCKeys ==
    {"user:0", "user:1"}
    \cup {BaseKey(u) : u \in Uids} \cup {CancelKey(u) : u \in Uids}
    \cup {MoveKey(u, i, e) : u \in Uids, i \in 1 .. MaxTasks, e \in Events}

MCUserWindows == {<<1, 2>>}

ImporterSymmetry == Permutations(Importer)

MCCalls == ImportCalls \cup CallsOfUsers

=============================================================================
