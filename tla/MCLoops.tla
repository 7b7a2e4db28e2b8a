------------------------------- MODULE MCLoops -------------------------------
(* The loops that must go on, side by side: the agent's, the scheduler's,   *)
(* and the competition for the lock.  Where their modules compose, the      *)
(* composition has a module (NewDay); here they share nothing, so in a      *)
(* behaviour one of them moves and the others stay as they began, and their *)
(* states add up instead of multiplying.                                    *)
EXTENDS AgentLoop, WakeLoop, SchedulerLock

VARIABLE side     \* the one that moves

allVars == <<vars, wakeVars, lockVars, side>>

Agent(action) == side = "agent" /\ action /\ UNCHANGED <<wakeVars, lockVars, side>>
Scheduler(action) == side = "scheduler" /\ action /\ UNCHANGED <<vars, lockVars, side>>
Lock(action) == side = "lock" /\ action /\ UNCHANGED <<vars, wakeVars, side>>

MCInit == side \in {"agent", "scheduler", "lock"} /\ Init /\ WakeInit /\ LockInit

MCNext == Agent(Next) \/ Scheduler(WakeNext) \/ Lock(LockNext)

\* The fairness of FairSpec, WakeFairSpec and FairLockSpec.
MCFairness ==
    /\ WF_allVars(Agent(Step))
    /\ WF_allVars(Agent(Answered \/ ProviderFails))
    /\ WF_allVars(Scheduler(RunPass \/ PassFails))
    /\ WF_allVars(Scheduler(SetTimer))
    /\ WF_allVars(Scheduler(Wake))
    /\ WF_allVars(Scheduler(Pause))
    /\ \A p \in Proc : WF_allVars(Lock(Acquire(p)))

MCSpec == MCInit /\ [][MCNext]_allVars /\ MCFairness

=============================================================================
