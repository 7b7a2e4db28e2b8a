---------------------------- MODULE SchedulerLock ----------------------------
(***************************************************************************)
(* The lock file that elects the scheduler among the processes that share  *)
(* a database (lock.py), with the POSIX rules: creating with O_EXCL is     *)
(* atomic, an open file can be unlinked, and a write goes to the file that *)
(* was opened even when another one has taken its name.                    *)
(*                                                                         *)
(* Every system call is a step of its own.  A process is a pid; pids are   *)
(* not reused.                                                             *)
(***************************************************************************)
EXTENDS Naturals

CONSTANTS
    Proc,
    NoProc    \* no creator, no pid read

ASSUME ProcAssumption == NoProc \notin Proc

VARIABLES
    phase,    \* where each process is in Runtime.run_pass and SchedulerLock.acquire
    file,     \* the lock file: who created it and whether the pid is in it yet
    pidRead   \* the pid each process has read from the file

lockVars == <<phase, file, pidRead>>

NoFile == [creator |-> NoProc, written |-> FALSE]
LockFile == [creator : Proc, written : BOOLEAN]
CreatedBy(p) == [creator |-> p, written |-> FALSE]
HeldBy(p) == [creator |-> p, written |-> TRUE]

\* The steps inside acquire, after its first call of _try_create.
Acquiring == {"writing", "reading", "judging", "unlinking", "retrying"}
Phases == {"not started", "idle", "scheduler", "gone"} \cup Acquiring

IsRunning(p) == phase[p] \notin {"not started", "gone"}
IsScheduler(p) == phase[p] = "scheduler"

LockInit ==
    /\ phase = [p \in Proc |-> "not started"]
    /\ file = NoFile
    /\ pidRead = [p \in Proc |-> NoProc]

GoTo(p, next) == phase' = [phase EXCEPT ![p] = next]

StartProcess(p) ==
    /\ phase[p] = "not started"
    /\ GoTo(p, "idle")
    /\ UNCHANGED <<file, pidRead>>

-----------------------------------------------------------------------------
(* acquire                                                                  *)

\* os.open with O_CREAT | O_EXCL.
CreateFile(p) ==
    /\ file = NoFile
    /\ file' = CreatedBy(p)
    /\ GoTo(p, "writing")
    /\ UNCHANGED pidRead

TryCreate(p) ==
    /\ phase[p] = "idle"
    /\ \/ CreateFile(p)
       \/ file # NoFile /\ GoTo(p, "reading") /\ UNCHANGED <<file, pidRead>>

\* os.write; the file p made may have lost its name by now.
WritePid(p) ==
    /\ phase[p] = "writing"
    /\ file' = IF file = CreatedBy(p) THEN HeldBy(p) ELSE file
    /\ GoTo(p, "scheduler")
    /\ UNCHANGED pidRead

\* Mutant: an empty file counts as held.
ReadHolder_EmptyIsHeld(p) ==
    /\ phase[p] = "reading"
    /\ \/ file.written /\ pidRead' = [pidRead EXCEPT ![p] = file.creator] /\ GoTo(p, "judging")
       \/ ~file.written /\ UNCHANGED pidRead
          /\ GoTo(p, IF file = NoFile THEN "unlinking" ELSE "idle")
    /\ UNCHANGED file

\* _holder_is_dead reads the file: a missing or an empty one counts as stale.
ReadHolder(p) ==
    /\ phase[p] = "reading"
    /\ \/ file.written /\ pidRead' = [pidRead EXCEPT ![p] = file.creator] /\ GoTo(p, "judging")
       \/ ~file.written /\ GoTo(p, "unlinking") /\ UNCHANGED pidRead
    /\ UNCHANGED file

\* Mutant: a holder that cannot be signalled counts as dead.
JudgeHolder_AllDead(p) ==
    /\ phase[p] = "judging"
    /\ GoTo(p, "unlinking")
    /\ UNCHANGED <<file, pidRead>>

\* _pid_alive; a live holder raises SchedulerLockHeld, and the next pass tries again.
JudgeHolder(p) ==
    /\ phase[p] = "judging"
    /\ GoTo(p, IF IsRunning(pidRead[p]) THEN "idle" ELSE "unlinking")
    /\ UNCHANGED <<file, pidRead>>

Unlink(p) ==
    /\ phase[p] = "unlinking"
    /\ file' = NoFile
    /\ GoTo(p, "retrying")
    /\ UNCHANGED pidRead

RetryCreate(p) ==
    /\ phase[p] = "retrying"
    /\ \/ CreateFile(p)
       \/ file # NoFile /\ GoTo(p, "idle") /\ UNCHANGED <<file, pidRead>>

Acquire(p) ==
    \/ TryCreate(p)
    \/ WritePid(p)
    \/ ReadHolder(p)
    \/ JudgeHolder(p)
    \/ Unlink(p)
    \/ RetryCreate(p)

-----------------------------------------------------------------------------
(* The end of a process                                                     *)

\* Runtime.close; release unlinks whatever file has the name.
Close(p) ==
    /\ phase[p] \in {"idle", "scheduler"}
    /\ file' = IF IsScheduler(p) THEN NoFile ELSE file
    /\ GoTo(p, "gone")
    /\ UNCHANGED pidRead

\* Killed at any point; the file stays.
Crash(p) ==
    /\ IsRunning(p)
    /\ GoTo(p, "gone")
    /\ UNCHANGED <<file, pidRead>>

LockStep(p) == StartProcess(p) \/ Acquire(p) \/ Close(p) \/ Crash(p)

LockNext == \E p \in Proc : LockStep(p)

LockSpec == LockInit /\ [][LockNext]_lockVars

\* Every running process calls acquire again and again until it has the lock
\* (Runtime.run_forever); nobody has to be started, closed or killed.
LockFairness == \A p \in Proc : WF_lockVars(Acquire(p))

FairLockSpec == LockSpec /\ LockFairness

\* The condition under which the lock works: no two processes are inside
\* acquire at once.  Crashes, also inside acquire, and exits are not limited.
NoOverlap == \A p, q \in Proc : phase[p] \in Acquiring /\ phase[q] \in Acquiring => p = q

SerialLockSpec == LockInit /\ [][LockNext /\ NoOverlap']_lockVars

-----------------------------------------------------------------------------
(* Properties                                                               *)

LockTypeOK ==
    /\ phase \in [Proc -> Phases]
    /\ file \in LockFile \cup {NoFile}
    /\ pidRead \in [Proc -> Proc \cup {NoProc}]

\* Claimed by lock.py: at most one process runs the scheduler loop.
OneScheduler == \A p, q \in Proc : IsScheduler(p) /\ IsScheduler(q) => p = q

\* A scheduler that is killed anywhere, even between creating the file and
\* writing its pid, does not wedge the others: while some process runs, one of
\* them becomes the scheduler (SPEC.md section 7, stale-lock recovery).
TakeOver ==
    \A p \in Proc :
        IsRunning(p) ~> ~IsRunning(p) \/ \E q \in Proc : IsScheduler(q)

=============================================================================
