------------------------------- MODULE CatchUp -------------------------------
(***************************************************************************)
(* One task seen by two engines: one that ticks at every instant, and one  *)
(* that was closed or asleep and ticks only now and then (engine.py: "if   *)
(* `now` has jumped far ahead because the process was offline, a single    *)
(* tick() call chains through every boundary that was missed").  The       *)
(* events each of them writes for the task are kept in order.              *)
(***************************************************************************)
EXTENDS TaskLifecycle

CONSTANT LastInstant      \* bound: the last instant

ASSUME InstantAssumption == LastInstant \in Nat

VARIABLES
    clock,
    live,         \* the task under an engine that never sleeps
    liveEvents,
    lagging,      \* the same task under one that does
    lagEvents,
    lastPass      \* when the lagging engine ticked last

catchUpVars == <<clock, live, liveEvents, lagging, lagEvents, lastPass>>

Boundaries == 0 .. LastInstant \cup {NoTime}

CatchUpInit ==
    \E start, end, deadline \in Boundaries :
        /\ ValidSchedule(start, end, deadline)
        /\ clock = 0
        /\ lastPass = NoTime
        /\ lagging = NewTask(start, end, deadline, NoTask, 0, NoKey)
        /\ live = Ticked(lagging, 0)
        /\ liveEvents = TickEvents(lagging, 0)
        /\ lagEvents = <<>>

\* Time passes, and the engine that never sleeps ticks at once.
Advance ==
    /\ clock < LastInstant
    /\ clock' = clock + 1
    /\ live' = Ticked(live, clock')
    /\ liveEvents' = liveEvents \o TickEvents(live, clock')
    /\ UNCHANGED <<lagging, lagEvents, lastPass>>

\* One pass of the other engine, whenever it is.
LatePass ==
    /\ lagging' = Ticked(lagging, clock)
    /\ lagEvents' = lagEvents \o TickEvents(lagging, clock)
    /\ lastPass' = clock
    /\ UNCHANGED <<clock, live, liveEvents>>

CatchUpNext == Advance \/ LatePass

CatchUpSpec == CatchUpInit /\ [][CatchUpNext]_catchUpVars

-----------------------------------------------------------------------------
EventsIn(events) == {events[k] : k \in DOMAIN events}

\* However many passes were missed, one pass brings the task to the status it
\* would have had without the downtime (engine.tick), and no boundary is lost: every
\* event of the engine that never slept is written by the late pass too, dated at
\* the boundary and not at the pass (engine.tick's occurred_at), and none is
\* written twice.
CatchUpAgrees ==
    /\ lastPass = clock =>
          lagging.status = live.status /\ EventsIn(liveEvents) \subseteq EventsIn(lagEvents)
    /\ \A j, k \in DOMAIN lagEvents : lagEvents[j].type = lagEvents[k].type => j = k

=============================================================================
