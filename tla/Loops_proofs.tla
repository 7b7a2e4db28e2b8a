----------------------------- MODULE Loops_proofs -----------------------------
(***************************************************************************)
(* Proofs about the two loops and the passes they make, for any number of  *)
(* processes, days, instants and tasks, and every period and limit.        *)
(*                                                                         *)
(* The scheduler's.  As long as no two processes are inside acquire at     *)
(* once there is one scheduler, through crashes at any point; NEW_DAY goes *)
(* forward, and a handover neither repeats nor drops one; one late tick    *)
(* does what the ticks that were missed would have done, and writes what   *)
(* they would have written; and the loop wakes in time.                    *)
(*                                                                         *)
(* The agent's.  No trigger is passed over, none is decided twice while    *)
(* nothing crashes, and the creation budget holds as long as its query     *)
(* sees the day's proposals.                                               *)
(***************************************************************************)
EXTENDS NewDay, CatchUp, WakeLoop, AgentLoop, SetInduction, FiniteSetTheorems

-----------------------------------------------------------------------------
(* The lock                                                                 *)


(***************************************************************************)
(* A scheduler's file is in place and names it; whoever is creating has    *)
(* its own file in place; whoever is about to reclaim the file reclaims it *)
(* from nobody.  pidRead is the point of the invariant: between reading a  *)
(* pid and judging it, a running scheduler can only be the one read.       *)
(***************************************************************************)
LockInv ==
    /\ LockTypeOK
    /\ NoOverlap
    /\ \A p \in Proc : phase[p] = "scheduler" => file = HeldBy(p)
    /\ \A p \in Proc : phase[p] = "writing" => file = CreatedBy(p)
    /\ \A p \in Proc : phase[p] = "judging" =>
          /\ pidRead[p] \in Proc
          /\ \A q \in Proc : phase[q] = "scheduler" => q = pidRead[p]
    /\ \A p \in Proc : phase[p] \in {"unlinking", "retrying"} =>
          \A q \in Proc : phase[q] # "scheduler"
    /\ \A p \in Proc : phase[p] = "retrying" => file = NoFile

\* No process has started and there is no file.
LEMMA LockInvInit == LockInit => LockInv
BY ProcAssumption
DEF LockInit, LockInv, LockTypeOK, NoOverlap, Phases, Acquiring, NoFile, LockFile, CreatedBy

\* The files of different processes, and a missing one, are different things.
LEMMA FileFacts ==
    /\ \A q \in Proc : HeldBy(q) # NoFile /\ CreatedBy(q) # NoFile
    /\ \A q \in Proc : HeldBy(q).written /\ HeldBy(q).creator = q /\ ~CreatedBy(q).written
    /\ \A q, r \in Proc : HeldBy(q) # CreatedBy(r)
    /\ \A q, r \in Proc : HeldBy(q) = HeldBy(r) => q = r
    /\ \A q \in Proc : HeldBy(q) \in LockFile /\ CreatedBy(q) \in LockFile
    /\ ~NoFile.written
<1>1. ~NoFile.written /\ NoFile.creator = NoProc
  BY DEF NoFile
<1>2. \A q \in Proc : /\ HeldBy(q).written /\ HeldBy(q).creator = q
                     /\ ~CreatedBy(q).written /\ CreatedBy(q).creator = q
  BY DEF HeldBy, CreatedBy
<1>3. \A q \in Proc : HeldBy(q) \in LockFile /\ CreatedBy(q) \in LockFile
  BY DEF HeldBy, CreatedBy, LockFile
<1>4. QED BY ONLY <1>1, <1>2, <1>3, ProcAssumption

\* The invariant says there is one scheduler: its file names it.
LEMMA LockInvOneScheduler == LockInv => OneScheduler
BY FileFacts DEF LockInv, OneScheduler, IsScheduler

\* Each system call of acquire, the end of a process and its crash keep the invariant.
LEMMA LockInvStep ==
    ASSUME NEW p \in Proc, LockInv, LockStep(p), NoOverlap'
    PROVE  LockInv'
<1> USE DEF LockInv, LockTypeOK, GoTo, IsRunning, IsScheduler
<1>1. CASE StartProcess(p)
  BY <1>1 DEF StartProcess, Phases, Acquiring
<1>2. ASSUME CreateFile(p), phase[p] \in {"idle", "retrying"} PROVE LockInv'
  <2>1. phase' = [phase EXCEPT ![p] = "writing"] /\ file' = CreatedBy(p) /\ pidRead' = pidRead
    BY <1>2 DEF CreateFile
  <2>2. \A q \in Proc : phase[q] # "scheduler"
    BY <1>2, FileFacts DEF CreateFile
  <2>3. \A q \in Proc : q # p => phase[q] \notin Acquiring
    BY <2>1 DEF NoOverlap, Acquiring
  <2>4. QED BY <2>1, <2>2, <2>3, FileFacts DEF Phases, Acquiring
<1>3. CASE phase[p] = "idle" /\ file # NoFile /\ GoTo(p, "reading") /\ UNCHANGED <<file, pidRead>>
  BY <1>3 DEF Phases, Acquiring
<1>4. CASE WritePid(p)
  <2>1. phase' = [phase EXCEPT ![p] = "scheduler"] /\ pidRead' = pidRead
    BY <1>4 DEF WritePid
  <2>2. file = CreatedBy(p) /\ file' = HeldBy(p)
    BY <1>4, FileFacts DEF WritePid
  <2>3. \A q \in Proc : phase[q] # "scheduler"
    BY <2>2, FileFacts
  <2>4. \A q \in Proc : q # p => phase[q] \notin Acquiring
    BY <1>4 DEF WritePid, NoOverlap, Acquiring
  <2>5. QED BY <2>1, <2>2, <2>3, <2>4, FileFacts DEF Phases, Acquiring
<1>5. CASE ReadHolder(p)
  <2>1. CASE file.written
    <3>1. /\ phase[p] = "reading"
          /\ phase' = [phase EXCEPT ![p] = "judging"] /\ file' = file
          /\ pidRead' = [pidRead EXCEPT ![p] = file.creator]
      BY <1>5, <2>1 DEF ReadHolder
    <3>2. file.creator \in Proc
      BY <2>1, FileFacts DEF LockFile
    <3>3. \A q \in Proc : phase[q] = "scheduler" => q = file.creator
      BY FileFacts
    <3>4. QED BY <3>1, <3>2, <3>3 DEF Phases, Acquiring
  <2>2. CASE ~file.written
    <3>1. phase[p] = "reading" /\ phase' = [phase EXCEPT ![p] = "unlinking"] /\ UNCHANGED <<file, pidRead>>
      BY <1>5, <2>2 DEF ReadHolder
    <3>2. \A q \in Proc : phase[q] # "scheduler"
      BY <2>2, FileFacts
    <3>3. QED BY <3>1, <3>2 DEF Phases, Acquiring
  <2>3. QED BY <2>1, <2>2
<1>6. CASE JudgeHolder(p)
  <2>1. CASE IsRunning(pidRead[p])
    <3>1. phase[p] = "judging" /\ phase' = [phase EXCEPT ![p] = "idle"] /\ UNCHANGED <<file, pidRead>>
      BY <1>6, <2>1 DEF JudgeHolder
    <3>2. QED BY <3>1 DEF Phases, Acquiring
  <2>2. CASE ~IsRunning(pidRead[p])
    <3>1. phase[p] = "judging" /\ phase' = [phase EXCEPT ![p] = "unlinking"] /\ UNCHANGED <<file, pidRead>>
      BY <1>6, <2>2 DEF JudgeHolder
    <3>2. \A q \in Proc : phase[q] # "scheduler"
      BY <1>6, <2>2 DEF JudgeHolder
    <3>3. QED BY <3>1, <3>2 DEF Phases, Acquiring
  <2>3. QED BY <2>1, <2>2
<1>7. CASE Unlink(p)
  <2>1. /\ phase[p] = "unlinking" /\ phase' = [phase EXCEPT ![p] = "retrying"]
        /\ file' = NoFile /\ pidRead' = pidRead
    BY <1>7 DEF Unlink
  <2>2. \A q \in Proc : phase[q] # "scheduler"
    BY <2>1
  <2>3. \A q \in Proc : q # p => phase[q] \notin Acquiring
    BY <2>1 DEF NoOverlap, Acquiring
  <2>4. \A q \in Proc : /\ phase'[q] # "scheduler"
                        /\ q # p => phase'[q] \notin Acquiring
    BY <2>1, <2>2, <2>3
  <2>5. LockTypeOK' /\ phase'[p] = "retrying"
    BY <2>1 DEF Phases, Acquiring
  <2>6. QED BY <2>1, <2>4, <2>5 DEF Acquiring
<1>8. CASE phase[p] = "retrying" /\ file # NoFile /\ GoTo(p, "idle") /\ UNCHANGED <<file, pidRead>>
  BY <1>8 DEF Phases, Acquiring
<1>9. CASE Close(p)
  <2>1. CASE phase[p] = "idle"
    BY <1>9, <2>1 DEF Close, Phases, Acquiring
  <2>2. CASE phase[p] = "scheduler"
    <3>1. \A q \in Proc : q # p => phase[q] \notin {"scheduler", "writing", "retrying"}
      BY <2>2, FileFacts
    <3>2. QED BY <1>9, <2>2, <3>1 DEF Close, Phases, Acquiring
  <2>3. QED BY <1>9, <2>1, <2>2 DEF Close
<1>10. CASE Crash(p)
  BY <1>10 DEF Crash, Phases, Acquiring
<1>11. QED
  BY <1>1, <1>2, <1>3, <1>4, <1>5, <1>6, <1>7, <1>8, <1>9, <1>10
  DEF LockStep, Acquire, TryCreate, RetryCreate

\* The parameters of the lock do not change in a step that leaves its variables.
LEMMA LockInvStutter == LockInv /\ UNCHANGED lockVars => LockInv'
BY DEF LockInv, LockTypeOK, NoOverlap, lockVars

\* Invariance, for the lock alone.
LEMMA LockInvariant == SerialLockSpec => []LockInv
<1>1. LockInv /\ [LockNext /\ NoOverlap']_lockVars => LockInv'
  BY LockInvStep, LockInvStutter DEF LockNext
<1>2. QED BY <1>1, LockInvInit, PTL DEF SerialLockSpec

\* At most one process runs the scheduler loop (lock.py), as long as no two
\* processes are inside acquire at once.
THEOREM OneSchedulerCorrect == SerialLockSpec => []OneScheduler
BY LockInvariant, LockInvOneScheduler, PTL

\* The lock's variables stay in their types.
THEOREM LockTypeCorrect == SerialLockSpec => []LockTypeOK
<1>1. LockInv => LockTypeOK
  BY DEF LockInv
<1>2. QED BY <1>1, LockInvariant, PTL

-----------------------------------------------------------------------------
(* The days                                                                 *)

\* A process has a tracker only once it is the scheduler, and the scheduler's
\* tracker remembers the last day in the log.
TrackerInv ==
    /\ \A p \in Proc : tracker[p] # NoTracker => phase[p] \in {"scheduler", "gone"}
    /\ HandoverAgrees

DayInv == LockInv /\ TypeOK /\ TrackerInv /\ NewDayForward

\* Appending a later day keeps the days in order.
LEMMA AppendForward ==
    ASSUME NEW s \in Seq(Day), NEW d \in Day,
           \A i, j \in DOMAIN s : i < j => s[i] < s[j],
           s # <<>> => s[Len(s)] < d
    PROVE  LET t == s \o <<d>>
           IN  /\ t \in Seq(Day) /\ t # <<>> /\ t[Len(t)] = d
               /\ \A i, j \in DOMAIN t : i < j => t[i] < t[j]
<1> DEFINE t == s \o <<d>>
<1>1. /\ t \in Seq(Day) /\ Len(t) = Len(s) + 1 /\ DOMAIN t = 1 .. Len(s) + 1
      /\ DOMAIN s = 1 .. Len(s) /\ Len(s) \in Nat
      /\ \A i \in 1 .. Len(s) : t[i] = s[i] /\ s[i] \in Day
      /\ t[Len(s) + 1] = d
  OBVIOUS
<1>2. \A i \in 1 .. Len(s) : s[i] < d
  <2> DEFINE n == Len(s)
             D == DOMAIN s
  <2>1. D = 1 .. n /\ n \in Nat /\ (n > 0 => s[n] < d) /\ d \in Int
    BY <1>1 DEF Day
  <2>2. \A i \in D : s[i] \in Int
    BY <1>1 DEF Day
  <2>3. \A i, j \in D : i < j => s[i] < s[j]
    OBVIOUS
  <2> HIDE DEF n, D
  <2>4. \A i \in 1 .. n : s[i] < d
    BY <2>1, <2>2, <2>3
  <2>5. QED BY <2>4 DEF n
<1>3. t # <<>>
  BY <1>1
<1> HIDE DEF t
<1>4. \A i, j \in DOMAIN t : i < j => t[i] < t[j]
  BY <1>1, <1>2
<1>5. t[Len(t)] = d
  BY <1>1
<1>6. QED BY <1>1, <1>3, <1>4, <1>5 DEF t

\* Nothing has been announced and no process has a tracker.
LEMMA DayInvInit == DayInit => DayInv
<1> SUFFICES ASSUME DayInit PROVE DayInv
  OBVIOUS
<1>1. LockInv /\ LockTypeOK
  BY LockInvInit DEF DayInit, LockInv
<1>2. announced = <<>> /\ announced \in Seq(Day) /\ DOMAIN announced = {}
  BY DEF DayInit
<1>3. QED BY <1>1, <1>2 DEF DayInit, DayInv, TypeOK, TrackerInv, HandoverAgrees, NewDayForward

\* A step of the lock gives nobody a tracker: the new scheduler has none yet.
LEMMA ElectStep ==
    ASSUME NEW p \in Proc, DayInv, Elect(LockStep(p)), NoOverlap' PROVE DayInv'
<1>1. LockInv' /\ LockTypeOK'
  BY LockInvStep DEF DayInv, Elect, LockInv
<1>2. UNCHANGED <<today, began, announced, tracker>> /\ LockStep(p)
  BY DEF Elect
<1>3. ASSUME NEW q \in Proc, tracker[q] # NoTracker
      PROVE  phase'[q] \in {"scheduler", "gone"} /\ (phase'[q] = "scheduler" => phase[q] = "scheduler")
  <2>1. phase[q] \in {"scheduler", "gone"} /\ phase \in [Proc -> Phases]
    BY <1>3 DEF DayInv, TrackerInv, LockInv, LockTypeOK
  <2>2. q # p => phase'[q] = phase[q]
    BY <1>2, <2>1
    DEF LockStep, Acquire, StartProcess, TryCreate, CreateFile, WritePid, ReadHolder,
        JudgeHolder, Unlink, RetryCreate, Close, Crash, GoTo
  <2>3. phase[p] \in {"scheduler", "gone"} => phase'[p] = "gone"
    BY <1>2, <2>1
    DEF LockStep, Acquire, StartProcess, TryCreate, CreateFile, WritePid, ReadHolder,
        JudgeHolder, Unlink, RetryCreate, Close, Crash, GoTo, IsRunning
  <2>4. QED BY <2>1, <2>2, <2>3
<1>4. TypeOK' /\ NewDayForward'
  BY <1>1, <1>2 DEF DayInv, TypeOK, NewDayForward
<1>5. TrackerInv'
  BY <1>2, <1>3 DEF DayInv, TrackerInv, HandoverAgrees, IsScheduler, LastAnnounced
<1>6. QED BY <1>1, <1>4, <1>5 DEF DayInv

\* A pass announces a day only after the one its tracker remembers.
LEMMA PassStep == ASSUME NEW p \in Proc, DayInv, Pass(p) PROVE DayInv'
<1> USE DEF Pass
<1>1. LockInv' /\ LockTypeOK' /\ phase' = phase
  BY LockInvStutter DEF DayInv, LockInv, lockVars
<1>2. \A q \in Proc : IsScheduler(q) => q = p
  BY LockInvOneScheduler DEF DayInv, OneScheduler
<1>3. CASE IsNewDay(tracker[p])
  <2>1. /\ announced' = announced \o <<today>> /\ today' = today
        /\ tracker' = [tracker EXCEPT ![p] = today]
        /\ began' \in {began, today}
    BY <1>3 DEF Announcement
  <2>2. announced # <<>> => LastAnnounced < today
    BY <1>3 DEF DayInv, TrackerInv, HandoverAgrees, IsNewDay
  <2>3. /\ announced' \in Seq(Day) /\ announced' # <<>> /\ announced'[Len(announced')] = today
        /\ NewDayForward'
    BY <2>1, <2>2, AppendForward DEF DayInv, TypeOK, NewDayForward, LastAnnounced
  <2>4. TypeOK'
    BY <1>1, <2>1, <2>3 DEF DayInv, TypeOK
  <2>5. \A q \in Proc : tracker'[q] # NoTracker => phase'[q] \in {"scheduler", "gone"}
    BY <1>1, <2>1 DEF DayInv, TrackerInv, TypeOK, IsScheduler
  <2>6. HandoverAgrees'
    BY <1>1, <1>2, <2>1, <2>3 DEF HandoverAgrees, IsScheduler, LastAnnounced, DayInv, TypeOK
  <2>7. QED BY <1>1, <2>3, <2>4, <2>5, <2>6 DEF DayInv, TrackerInv
<1>4. CASE ~IsNewDay(tracker[p])
  <2>1. announced' = announced /\ today' = today /\ began' = began
    BY <1>4 DEF Announcement, DayInv, TypeOK
  <2>2. TypeOK' /\ NewDayForward'
    BY <1>1, <2>1, <1>4 DEF DayInv, TypeOK, NewDayForward
  <2>3. \A q \in Proc : tracker'[q] # NoTracker => phase'[q] \in {"scheduler", "gone"}
    BY <1>1, <1>4 DEF DayInv, TrackerInv, TypeOK, IsScheduler
  <2>4. announced # <<>> => tracker[p] # NoDay
    <3>1. announced # <<>> => LastAnnounced \in Day
      BY DEF DayInv, TypeOK, LastAnnounced
    <3>2. QED BY <3>1 DEF DayInv, TrackerInv, HandoverAgrees, Day, NoDay
  <2>5. announced # <<>> => tracker' = tracker
    BY <1>4, <2>4
  <2>6. HandoverAgrees'
    BY <1>1, <2>1, <2>5 DEF DayInv, TrackerInv, HandoverAgrees, IsScheduler, LastAnnounced
  <2>7. QED BY <1>1, <2>2, <2>3, <2>6 DEF DayInv, TrackerInv
<1>5. QED BY <1>3, <1>4

\* Every step keeps the invariant.
LEMMA DayInvStep == DayInv /\ [DayNext /\ NoOverlap']_dayVars => DayInv'
<1> SUFFICES ASSUME DayInv, [DayNext /\ NoOverlap']_dayVars PROVE DayInv'
  OBVIOUS
<1>1. ASSUME NEW p \in Proc, Elect(LockStep(p)), NoOverlap' PROVE DayInv'
  BY <1>1, ElectStep
<1>2. ASSUME NEW p \in Proc, Seed(p) PROVE DayInv'
  <2>1. LockInv' /\ LockTypeOK' /\ phase' = phase
    BY <1>2, LockInvStutter DEF Seed, DayInv, LockInv, lockVars
  <2>2. DaySeed \in Day \cup {NoDay}
    BY DEF DaySeed, LastAnnounced, DayInv, TypeOK
  <2>3. QED
    BY <1>2, <2>1, <2>2
    DEF Seed, DaySeed, LastAnnounced, DayInv, TypeOK, TrackerInv, HandoverAgrees, NewDayForward,
        IsScheduler
<1>3. ASSUME NEW p \in Proc, Pass(p) PROVE DayInv'
  BY <1>3, PassStep
<1>4. ASSUME NEW p \in Proc, FailedPass(p) PROVE DayInv'
  <2>1. LockInv' /\ LockTypeOK' /\ phase' = phase
    BY <1>4, LockInvStutter DEF FailedPass, DayInv, LockInv, lockVars
  <2>2. QED
    BY <1>4, <2>1
    DEF FailedPass, LastAnnounced, DayInv, TypeOK, TrackerInv, HandoverAgrees, NewDayForward,
        IsScheduler
<1>5. ASSUME FirstEvent \/ ChangeDate PROVE DayInv'
  <2>1. UNCHANGED <<lockVars, announced, tracker>>
    BY <1>5 DEF FirstEvent, ChangeDate
  <2>2. today' \in Day /\ began' \in Day \cup {NoDay}
    BY <1>5 DEF FirstEvent, ChangeDate, DayInv, TypeOK
  <2>3. LockInv' /\ LockTypeOK'
    BY <2>1, LockInvStutter DEF DayInv, LockInv
  <2>4. QED
    BY <2>1, <2>2, <2>3
    DEF DayInv, TypeOK, TrackerInv, HandoverAgrees, NewDayForward, IsScheduler, LastAnnounced, lockVars
<1>6. CASE UNCHANGED dayVars
  <2>1. LockInv' /\ LockTypeOK'
    BY <1>6, LockInvStutter DEF DayInv, LockInv, dayVars, lockVars
  <2>2. QED
    BY <1>6, <2>1
    DEF dayVars, DayInv, TypeOK, TrackerInv, HandoverAgrees, NewDayForward, IsScheduler, LastAnnounced
<1>7. QED BY <1>1, <1>2, <1>3, <1>4, <1>5, <1>6 DEF DayNext

LEMMA DayInvariant == DaySpec => []DayInv
BY DayInvInit, DayInvStep, PTL DEF DaySpec

\* No date is announced twice and none after a later one.
THEOREM NewDayForwardCorrect == DaySpec => []NewDayForward
<1>1. DayInv => NewDayForward
  BY DEF DayInv
<1>2. QED BY <1>1, DayInvariant, PTL

\* The scheduler and whoever takes over from it agree about the reported days.
THEOREM HandoverCorrect == DaySpec => []HandoverAgrees
<1>1. DayInv => HandoverAgrees
  BY DEF DayInv, TrackerInv
<1>2. QED BY <1>1, DayInvariant, PTL

-----------------------------------------------------------------------------
(* One late tick                                                            *)

\* Two tasks that a tick cannot tell apart.
SameForTick(t, u) ==
    /\ t.status = u.status
    /\ t.start = u.start /\ t.end = u.end /\ t.deadline = u.deadline

TickableTask == TaskRecord({})

\* A tick (engine.tick) keeps the boundaries and reads only them and the status.
LEMMA TickReads ==
    ASSUME NEW t \in TickableTask, NEW u \in TickableTask, SameForTick(t, u), NEW instant \in Nat
    PROVE  SameForTick(Ticked(t, instant), Ticked(u, instant))
<1> DEFINE Similar(a, b) == a \in TickableTask /\ b \in TickableTask /\ SameForTick(a, b)
<1>1. ASSUME NEW a, NEW b, Similar(a, b), NEW to \in Statuses
      PROVE  Similar(WithStatus(a, to, instant), WithStatus(b, to, instant))
  BY <1>1 DEF SameForTick, WithStatus, TickableTask, TaskRecord, OptionalInstant
<1>2. ASSUME NEW a, NEW b, Similar(a, b) PROVE Similar(Opened(a, instant), Opened(b, instant))
  BY <1>1, <1>2 DEF Opened, WindowOpens, SameForTick, Statuses, LiveStatuses
<1>3. ASSUME NEW a, NEW b, Similar(a, b) PROVE Similar(Ended(a, instant), Ended(b, instant))
  BY <1>1, <1>3 DEF Ended, WindowEnds, SameForTick, Statuses, LiveStatuses
<1>4. ASSUME NEW a, NEW b, Similar(a, b) PROVE Similar(Breached(a, instant), Breached(b, instant))
  BY <1>1, <1>4 DEF Breached, DeadlineBreaks, SameForTick, Statuses, LiveStatuses
<1> HIDE DEF Similar
<1>5. Similar(t, u)
  BY DEF Similar
<1>6. Similar(Ticked(t, instant), Ticked(u, instant))
  BY <1>2, <1>3, <1>4, <1>5 DEF Ticked
<1>7. QED BY <1>6 DEF Similar

\* The status a tick leaves, and what it keeps.
LEMMA TickedStatus ==
    ASSUME NEW t \in TickableTask, NEW instant \in Nat
    PROVE  /\ Ticked(t, instant) \in TickableTask
           /\ Ticked(t, instant).start = t.start
           /\ Ticked(t, instant).end = t.end
           /\ Ticked(t, instant).deadline = t.deadline
           /\ Ticked(t, instant).status =
                IF /\ t.status \in {"CREATED", "SCHEDULED", "ACTIVE", "WINDOW_ENDED"}
                   /\ Reached(t.deadline, instant)
                THEN "OVERDUE"
                ELSE IF /\ \/ t.status = "ACTIVE"
                           \/ t.status = "SCHEDULED" /\ Reached(t.start, instant)
                        /\ Reached(t.end, instant)
                THEN "WINDOW_ENDED"
                ELSE IF t.status = "SCHEDULED" /\ Reached(t.start, instant) THEN "ACTIVE"
                ELSE t.status
<1> DEFINE Like(a, b) == /\ b \in TickableTask
                         /\ b.start = a.start /\ b.end = a.end /\ b.deadline = a.deadline
<1>1. ASSUME NEW a \in TickableTask, NEW to \in LiveStatuses
      PROVE  Like(a, WithStatus(a, to, instant)) /\ WithStatus(a, to, instant).status = to
  BY DEF WithStatus, TickableTask, TaskRecord, OptionalInstant, Statuses
<1>2. ASSUME NEW a \in TickableTask
      PROVE  /\ Like(a, Opened(a, instant))
             /\ Opened(a, instant).status = IF a.status = "SCHEDULED" /\ Reached(a.start, instant)
                                        THEN "ACTIVE" ELSE a.status
  BY <1>1 DEF Opened, WindowOpens, LiveStatuses
<1>3. ASSUME NEW a \in TickableTask
      PROVE  /\ Like(a, Ended(a, instant))
             /\ Ended(a, instant).status = IF a.status = "ACTIVE" /\ Reached(a.end, instant)
                                       THEN "WINDOW_ENDED" ELSE a.status
  BY <1>1 DEF Ended, WindowEnds, LiveStatuses
<1>4. ASSUME NEW a \in TickableTask
      PROVE  /\ Like(a, Breached(a, instant))
             /\ Breached(a, instant).status =
                  IF /\ a.status \in {"CREATED", "SCHEDULED", "ACTIVE", "WINDOW_ENDED"}
                     /\ Reached(a.deadline, instant)
                  THEN "OVERDUE" ELSE a.status
  BY <1>1 DEF Breached, DeadlineBreaks, LiveStatuses
<1> DEFINE o == Opened(t, instant)
           e == Ended(o, instant)
<1>5. Like(t, o) /\ Like(o, e) /\ Like(e, Breached(e, instant))
  BY <1>2, <1>3, <1>4
<1>6. /\ o.status = IF t.status = "SCHEDULED" /\ Reached(t.start, instant) THEN "ACTIVE" ELSE t.status
      /\ e.status = IF o.status = "ACTIVE" /\ Reached(t.end, instant) THEN "WINDOW_ENDED" ELSE o.status
      /\ Breached(e, instant).status =
           IF /\ e.status \in {"CREATED", "SCHEDULED", "ACTIVE", "WINDOW_ENDED"}
              /\ Reached(t.deadline, instant)
           THEN "OVERDUE" ELSE e.status
  BY <1>2, <1>3, <1>4, <1>5
<1>7. Ticked(t, instant) = Breached(e, instant)
  BY DEF Ticked
<1> HIDE DEF o, e
<1>8. QED BY <1>5, <1>6, <1>7

\* A boundary that was reached stays reached while time moves on.
LEMMA ReachedStays ==
    ASSUME NEW b \in OptionalInstant, NEW m \in Nat, NEW n \in Nat, m <= n, Reached(b, m)
    PROVE  Reached(b, n)
BY DEF Reached, OptionalInstant, NoTime

\* Ticking at m and then at n leaves the status that ticking at n alone leaves.
THEOREM TickComposes ==
    ASSUME NEW t \in TickableTask, NEW m \in Nat, NEW n \in Nat, m <= n
    PROVE  SameForTick(Ticked(Ticked(t, m), n), Ticked(t, n))
<1>1. /\ Reached(t.start, m) => Reached(t.start, n)
      /\ Reached(t.end, m) => Reached(t.end, n)
      /\ Reached(t.deadline, m) => Reached(t.deadline, n)
  BY ReachedStays DEF TickableTask, TaskRecord
<1> DEFINE u == Ticked(t, m)
<1>2. u \in TickableTask
  BY TickedStatus
<1>3. QED BY SMTT(30), <1>1, <1>2, TickedStatus DEF SameForTick

-----------------------------------------------------------------------------
(* The events of a tick                                                     *)

EventTypes == {"TASK_STARTED", "TASK_WINDOW_ENDED", "TASK_DEADLINE_BREACHED"}
TickEvent == [type : EventTypes, occurred : OptionalInstant]

Started(t) == [type |-> "TASK_STARTED", occurred |-> t.start]
WindowEnded(t) == [type |-> "TASK_WINDOW_ENDED", occurred |-> t.end]
DeadlineBreached(t) == [type |-> "TASK_DEADLINE_BREACHED", occurred |-> t.deadline]

OneOfEach(events) ==
    \A j, k \in DOMAIN events : events[j].type = events[k].type => j = k

HasType(events, type) == \E k \in DOMAIN events : events[k].type = type

\* The events that a tick writes, as a condition on the task.
Notices(t, instant) ==
    {e \in TickEvent :
        \/ /\ e = Started(t)
           /\ t.status = "SCHEDULED" /\ Reached(t.start, instant)
        \/ /\ e = WindowEnded(t)
           /\ t.status = "ACTIVE" \/ (t.status = "SCHEDULED" /\ Reached(t.start, instant))
           /\ Reached(t.end, instant)
        \/ /\ e = DeadlineBreached(t)
           /\ t.status \in {"CREATED", "SCHEDULED", "ACTIVE", "WINDOW_ENDED"}
           /\ Reached(t.deadline, instant)}

\* What a concatenation of events holds.
LEMMA Joined ==
    ASSUME NEW a \in Seq(TickEvent), NEW b \in Seq(TickEvent)
    PROVE  /\ a \o b \in Seq(TickEvent)
           /\ EventsIn(a \o b) = EventsIn(a) \cup EventsIn(b)
           /\ \A type : HasType(a \o b, type) <=> HasType(a, type) \/ HasType(b, type)
           /\ /\ OneOfEach(a) /\ OneOfEach(b)
              /\ \A type : ~ (HasType(a, type) /\ HasType(b, type))
              => OneOfEach(a \o b)
<1> DEFINE m == Len(a)
           n == Len(b)
           s == a \o b
<1>1. /\ m \in Nat /\ n \in Nat
      /\ DOMAIN a = 1 .. m /\ DOMAIN b = 1 .. n /\ DOMAIN s = 1 .. m + n
      /\ s \in Seq(TickEvent)
      /\ \A k \in 1 .. m + n : s[k] = IF k <= m THEN a[k] ELSE b[k - m]
  OBVIOUS
<1> HIDE DEF m, n, s
<1>2. \A k \in 1 .. m : k \in DOMAIN s /\ s[k] = a[k]
  BY <1>1
<1>3. \A k \in 1 .. n : m + k \in DOMAIN s /\ s[m + k] = b[k]
  BY <1>1
<1>4. \A k \in DOMAIN s : \/ k \in DOMAIN a /\ s[k] = a[k]
                          \/ k - m \in DOMAIN b /\ s[k] = b[k - m]
  BY <1>1
<1>5. EventsIn(s) = EventsIn(a) \cup EventsIn(b)
  <2>1. ASSUME NEW k \in DOMAIN s PROVE s[k] \in EventsIn(a) \cup EventsIn(b)
    BY <1>4 DEF EventsIn
  <2>2. ASSUME NEW k \in DOMAIN a PROVE a[k] \in EventsIn(s)
    BY <1>1, <1>2 DEF EventsIn
  <2>3. ASSUME NEW k \in DOMAIN b PROVE b[k] \in EventsIn(s)
    BY <1>1, <1>3 DEF EventsIn
  <2>4. QED BY <2>1, <2>2, <2>3 DEF EventsIn
<1>6. \A type : HasType(s, type) <=> HasType(a, type) \/ HasType(b, type)
  BY <1>1, <1>2, <1>3, <1>4 DEF HasType
<1>7. ASSUME OneOfEach(a), OneOfEach(b), \A type : ~ (HasType(a, type) /\ HasType(b, type)),
             NEW j \in DOMAIN s, NEW k \in DOMAIN s, s[j].type = s[k].type
      PROVE  j = k
  <2>1. CASE j \in DOMAIN a /\ s[j] = a[j] /\ k \in DOMAIN a /\ s[k] = a[k]
    BY <1>7, <2>1 DEF OneOfEach
  <2>2. CASE j - m \in DOMAIN b /\ s[j] = b[j - m] /\ k - m \in DOMAIN b /\ s[k] = b[k - m]
    <3>1. j - m = k - m
      BY <1>7, <2>2 DEF OneOfEach
    <3>2. m \in Nat /\ j \in Nat /\ k \in Nat
      BY <1>1
    <3>3. QED BY <3>1, <3>2
  <2>3. CASE j \in DOMAIN a /\ s[j] = a[j] /\ k - m \in DOMAIN b /\ s[k] = b[k - m]
    BY <1>7, <2>3 DEF HasType
  <2>4. CASE j - m \in DOMAIN b /\ s[j] = b[j - m] /\ k \in DOMAIN a /\ s[k] = a[k]
    BY <1>7, <2>4 DEF HasType
  <2>5. QED BY <1>4, <2>1, <2>2, <2>3, <2>4
<1>8. QED BY <1>1, <1>5, <1>6, <1>7 DEF OneOfEach, s

\* No event, or one.
LEMMA AtMostOne ==
    ASSUME NEW e \in TickEvent, NEW P
    PROVE  LET s == IF P THEN <<e>> ELSE <<>>
           IN  /\ s \in Seq(TickEvent) /\ OneOfEach(s)
               /\ EventsIn(s) = {x \in {e} : P}
               /\ \A type : HasType(s, type) <=> P /\ type = e.type
BY DEF OneOfEach, EventsIn, HasType

\* A tick writes what it notices, one event of a type.
LEMMA TickWrites ==
    ASSUME NEW t \in TickableTask, NEW instant \in Nat
    PROVE  /\ TickEvents(t, instant) \in Seq(TickEvent)
           /\ OneOfEach(TickEvents(t, instant))
           /\ EventsIn(TickEvents(t, instant)) = Notices(t, instant)
<1> DEFINE o == Opened(t, instant)
           e == Ended(o, instant)
           P == WindowOpens(t, instant)
           Q == WindowEnds(o, instant)
           R == DeadlineBreaks(e, instant)
           a == IF P THEN <<Started(t)>> ELSE <<>>
           b == IF Q THEN <<WindowEnded(t)>> ELSE <<>>
           c == IF R THEN <<DeadlineBreached(t)>> ELSE <<>>
<1>1. /\ Started(t) \in TickEvent /\ WindowEnded(t) \in TickEvent /\ DeadlineBreached(t) \in TickEvent
  <2>1. /\ t.start \in OptionalInstant /\ t.end \in OptionalInstant
        /\ t.deadline \in OptionalInstant
    BY DEF TickableTask, TaskRecord
  <2>2. Started(t) \in TickEvent
    BY <2>1 DEF TickEvent, EventTypes, Started
  <2>3. WindowEnded(t) \in TickEvent
    BY <2>1 DEF TickEvent, EventTypes, WindowEnded
  <2>4. DeadlineBreached(t) \in TickEvent
    BY <2>1 DEF TickEvent, EventTypes, DeadlineBreached
  <2>5. QED BY <2>2, <2>3, <2>4
<1>2. TickEvents(t, instant) = a \o b \o c
  BY DEF TickEvents, Started, WindowEnded, DeadlineBreached
<1>3. /\ P <=> t.status = "SCHEDULED" /\ Reached(t.start, instant)
      /\ Q <=> /\ t.status = "ACTIVE" \/ (t.status = "SCHEDULED" /\ Reached(t.start, instant))
               /\ Reached(t.end, instant)
      /\ R <=> /\ t.status \in {"CREATED", "SCHEDULED", "ACTIVE", "WINDOW_ENDED"}
               /\ Reached(t.deadline, instant)
  BY DEF WindowOpens, WindowEnds, DeadlineBreaks, Opened, Ended, WithStatus, TickableTask,
         TaskRecord
<1>4. /\ Started(t).type = "TASK_STARTED" /\ WindowEnded(t).type = "TASK_WINDOW_ENDED"
      /\ DeadlineBreached(t).type = "TASK_DEADLINE_BREACHED"
  BY DEF Started, WindowEnded, DeadlineBreached
<1> HIDE DEF o, e, P, Q, R
<1>5. /\ a \in Seq(TickEvent) /\ OneOfEach(a) /\ EventsIn(a) = {x \in {Started(t)} : P}
      /\ \A type : HasType(a, type) <=> P /\ type = "TASK_STARTED"
  BY <1>1, <1>4, AtMostOne
<1>6. /\ b \in Seq(TickEvent) /\ OneOfEach(b) /\ EventsIn(b) = {x \in {WindowEnded(t)} : Q}
      /\ \A type : HasType(b, type) <=> Q /\ type = "TASK_WINDOW_ENDED"
  BY <1>1, <1>4, AtMostOne
<1>7. /\ c \in Seq(TickEvent) /\ OneOfEach(c) /\ EventsIn(c) = {x \in {DeadlineBreached(t)} : R}
      /\ \A type : HasType(c, type) <=> R /\ type = "TASK_DEADLINE_BREACHED"
  BY <1>1, <1>4, AtMostOne
<1> HIDE DEF a, b, c
<1>8. /\ a \o b \in Seq(TickEvent) /\ OneOfEach(a \o b)
      /\ EventsIn(a \o b) = EventsIn(a) \cup EventsIn(b)
      /\ \A type : HasType(a \o b, type) <=> HasType(a, type) \/ HasType(b, type)
  BY <1>5, <1>6, Joined
<1>9. /\ a \o b \o c \in Seq(TickEvent) /\ OneOfEach(a \o b \o c)
      /\ EventsIn(a \o b \o c) = EventsIn(a \o b) \cup EventsIn(c)
  <2>1. \A type : ~ (HasType(a \o b, type) /\ HasType(c, type))
    BY <1>5, <1>6, <1>7, <1>8
  <2>2. QED BY <1>7, <1>8, <2>1, Joined
<1>10. EventsIn(a \o b \o c) = Notices(t, instant)
  BY <1>1, <1>3, <1>5, <1>6, <1>7, <1>8, <1>9 DEF Notices
<1>11. QED BY <1>2, <1>9, <1>10

\* What a tick notices it notices later too, if it was not ticked meanwhile; and
\* what it notices after an earlier tick it would have noticed without that.
LEMMA NoticesGrow ==
    ASSUME NEW t \in TickableTask, NEW m \in Nat, NEW n \in Nat, m <= n
    PROVE  /\ Notices(t, m) \subseteq Notices(t, n)
           /\ Notices(Ticked(t, m), n) \subseteq Notices(t, n)
<1>1. /\ Reached(t.start, m) => Reached(t.start, n)
      /\ Reached(t.end, m) => Reached(t.end, n)
      /\ Reached(t.deadline, m) => Reached(t.deadline, n)
  BY ReachedStays DEF TickableTask, TaskRecord
<1>2. Notices(t, m) \subseteq Notices(t, n)
  BY <1>1 DEF Notices
<1>3. Notices(Ticked(t, m), n) \subseteq Notices(t, n)
  BY <1>1, TickedStatus DEF Notices, Started, WindowEnded, DeadlineBreached
<1>4. QED BY <1>2, <1>3

\* Tasks that a tick cannot tell apart are noticed alike, and a tick notices
\* nothing on a task it does not change.
LEMMA NoticesRead ==
    ASSUME NEW t \in TickableTask, NEW u \in TickableTask, SameForTick(t, u), NEW instant \in Nat
    PROVE  /\ Notices(t, instant) = Notices(u, instant)
           /\ SameForTick(t, Ticked(t, instant)) => Notices(t, instant) = {}
<1>1. Notices(t, instant) = Notices(u, instant)
  BY DEF SameForTick, Notices, Started, WindowEnded, DeadlineBreached
<1>2. SameForTick(t, Ticked(t, instant)) => Notices(t, instant) = {}
  BY TickedStatus DEF SameForTick, Notices
<1>3. QED BY <1>1, <1>2

\* The status is past every boundary of which there is an event.
Past(events, status) ==
    /\ HasType(events, "TASK_STARTED") => status # "SCHEDULED"
    /\ HasType(events, "TASK_WINDOW_ENDED") => status \notin {"SCHEDULED", "ACTIVE"}
    /\ HasType(events, "TASK_DEADLINE_BREACHED") =>
          status \notin {"CREATED", "SCHEDULED", "ACTIVE", "WINDOW_ENDED"}

\* A tick adds no event of a type that is there, and its status is past them all.
LEMMA TickPasses ==
    ASSUME NEW t \in TickableTask, NEW instant \in Nat, NEW events \in Seq(TickEvent),
           OneOfEach(events), Past(events, t.status)
    PROVE  LET after == events \o TickEvents(t, instant)
           IN  OneOfEach(after) /\ Past(after, Ticked(t, instant).status)
<1> DEFINE new == TickEvents(t, instant)
<1>1. new \in Seq(TickEvent) /\ OneOfEach(new) /\ EventsIn(new) = Notices(t, instant)
  BY TickWrites
<1> HIDE DEF new
<1>2. \A type : HasType(new, type) <=> \E e \in Notices(t, instant) : e.type = type
  BY <1>1 DEF HasType, EventsIn
<1>3. \A type : HasType(new, type) =>
        \/ type = "TASK_STARTED" /\ t.status = "SCHEDULED" /\ Reached(t.start, instant)
        \/ /\ type = "TASK_WINDOW_ENDED"
           /\ t.status = "ACTIVE" \/ (t.status = "SCHEDULED" /\ Reached(t.start, instant))
           /\ Reached(t.end, instant)
        \/ /\ type = "TASK_DEADLINE_BREACHED"
           /\ t.status \in {"CREATED", "SCHEDULED", "ACTIVE", "WINDOW_ENDED"}
           /\ Reached(t.deadline, instant)
  BY <1>2 DEF Notices, Started, WindowEnded, DeadlineBreached
<1>4. \A type : ~ (HasType(events, type) /\ HasType(new, type))
  BY <1>3 DEF Past
<1>5. OneOfEach(events \o new)
  BY <1>1, <1>4, Joined
<1>6. \A type : HasType(events \o new, type) <=> HasType(events, type) \/ HasType(new, type)
  BY <1>1, Joined
<1>7. Past(events \o new, Ticked(t, instant).status)
  BY <1>3, <1>6, TickedStatus DEF Past
<1>8. QED BY <1>5, <1>7 DEF new

-----------------------------------------------------------------------------
\* The lagging engine is always one tick away from the other one, and that tick
\* writes the events it has not written yet.
CatchUpInv ==
    /\ clock \in Nat
    /\ lastPass \in Int /\ lastPass <= clock
    /\ live \in TickableTask /\ lagging \in TickableTask
    /\ SameForTick(live, Ticked(lagging, clock))
    /\ lastPass = clock => SameForTick(lagging, Ticked(lagging, clock))
    /\ liveEvents \in Seq(TickEvent) /\ lagEvents \in Seq(TickEvent)
    /\ EventsIn(liveEvents) \subseteq EventsIn(lagEvents) \cup Notices(lagging, clock)
    /\ OneOfEach(lagEvents) /\ Past(lagEvents, lagging.status)

\* The initial task is a task, and its first tick makes the live one.
LEMMA CatchUpInvInit == CatchUpInit => CatchUpInv
<1> SUFFICES ASSUME CatchUpInit PROVE CatchUpInv
  OBVIOUS
<1>1. lagging \in TickableTask
  BY InstantAssumption
  DEF CatchUpInit, Boundaries, NewTask, TickableTask, TaskRecord, InitialStatus, Statuses,
      LiveStatuses, OptionalInstant, Instant, NoTask, NoTime
<1>2. clock = 0 /\ lastPass = NoTime /\ live = Ticked(lagging, 0)
  BY DEF CatchUpInit
<1>3. /\ liveEvents = TickEvents(lagging, 0) /\ lagEvents = <<>>
      /\ lagEvents \in Seq(TickEvent) /\ OneOfEach(lagEvents) /\ Past(lagEvents, lagging.status)
  BY DEF CatchUpInit, OneOfEach, Past, HasType
<1>4. liveEvents \in Seq(TickEvent) /\ EventsIn(liveEvents) = Notices(lagging, 0)
  BY <1>1, <1>3, TickWrites
<1>5. QED BY <1>1, <1>2, <1>3, <1>4, TickedStatus DEF CatchUpInv, SameForTick, NoTime

\* Both engines' steps keep them one tick apart.
LEMMA CatchUpInvStep == CatchUpInv /\ [CatchUpNext]_catchUpVars => CatchUpInv'
<1> SUFFICES ASSUME CatchUpInv, [CatchUpNext]_catchUpVars PROVE CatchUpInv'
  OBVIOUS
<1> USE DEF CatchUpInv
<1>1. CASE Advance
  <2> DEFINE c == clock'
             u == Ticked(lagging, clock)
  <2>1. c \in Nat /\ c = clock + 1 /\ live' = Ticked(live, c)
    BY <1>1 DEF Advance
  <2>2. u \in TickableTask /\ SameForTick(live, u)
    BY TickedStatus
  <2>3. SameForTick(Ticked(u, c), Ticked(lagging, c))
    BY <2>1, TickComposes
  <2> HIDE DEF c, u
  <2>4. SameForTick(live', Ticked(u, c))
    BY <2>1, <2>2, TickReads
  <2>5. SameForTick(live', Ticked(lagging, c))
    BY <2>3, <2>4 DEF SameForTick
  <2>6. live' \in TickableTask
    BY <2>1, TickedStatus
  <2>7. lagging' = lagging /\ lastPass' = lastPass /\ clock' = c
    BY <1>1 DEF Advance, c
  <2>8. liveEvents' = liveEvents \o TickEvents(live, c) /\ lagEvents' = lagEvents
    BY <1>1 DEF Advance, c
  <2>9. /\ liveEvents' \in Seq(TickEvent)
        /\ EventsIn(liveEvents') = EventsIn(liveEvents) \cup Notices(live, c)
    <3>1. /\ TickEvents(live, c) \in Seq(TickEvent)
          /\ EventsIn(TickEvents(live, c)) = Notices(live, c)
      BY <2>1, TickWrites
    <3>2. QED BY <2>8, <3>1, Joined
  <2>10. Notices(live, c) = Notices(u, c)
    BY <2>1, <2>2, NoticesRead
  <2>11. Notices(u, c) \subseteq Notices(lagging, c) /\ Notices(lagging, clock) \subseteq Notices(lagging, c)
    BY <2>1, NoticesGrow DEF u
  <2>12. QED BY <2>1, <2>5, <2>6, <2>7, <2>8, <2>9, <2>10, <2>11
<1>2. CASE LatePass
  <2>1. lagging' = Ticked(lagging, clock) /\ lastPass' = clock /\ UNCHANGED <<clock, live>>
    BY <1>2 DEF LatePass
  <2>2. lagging' \in TickableTask
    BY <2>1, TickedStatus
  <2>3. SameForTick(Ticked(lagging', clock), lagging')
    BY <2>1, TickComposes
  <2>4. lagEvents' = lagEvents \o TickEvents(lagging, clock) /\ liveEvents' = liveEvents
    BY <1>2 DEF LatePass
  <2>5. /\ lagEvents' \in Seq(TickEvent)
        /\ EventsIn(lagEvents') = EventsIn(lagEvents) \cup Notices(lagging, clock)
    BY <2>4, TickWrites, Joined
  <2>6. OneOfEach(lagEvents') /\ Past(lagEvents', lagging'.status)
    BY <2>1, <2>4, TickPasses
  <2>7. SameForTick(lagging', Ticked(lagging', clock)) /\ SameForTick(live, Ticked(lagging', clock))
    BY <2>1, <2>3 DEF SameForTick
  <2>8. QED BY <2>1, <2>2, <2>4, <2>5, <2>6, <2>7
<1>3. CASE UNCHANGED catchUpVars
  BY <1>3 DEF catchUpVars
<1>4. QED BY <1>1, <1>2, <1>3 DEF CatchUpNext

\* One pass after any downtime gives the status a process that never slept has, and
\* has written each of its events, once.
THEOREM CatchUpCorrect == CatchUpSpec => []CatchUpAgrees
<1>1. CatchUpInv => CatchUpAgrees
  <2> SUFFICES ASSUME CatchUpInv PROVE CatchUpAgrees
    OBVIOUS
  <2>1. lastPass = clock => Notices(lagging, clock) = {}
    BY NoticesRead DEF CatchUpInv, SameForTick
  <2>2. lastPass = clock => lagging.status = live.status
    BY DEF CatchUpInv, SameForTick
  <2>3. QED BY <2>1, <2>2 DEF CatchUpInv, CatchUpAgrees, OneOfEach
<1>2. QED BY <1>1, CatchUpInvInit, CatchUpInvStep, PTL DEF CatchUpSpec

-----------------------------------------------------------------------------
(* Greatest and least                                                       *)

\* Of two integers, Max and Min are one, and bound both.
LEMMA MaxOfTwo ==
    ASSUME NEW a \in Int, NEW b \in Int
    PROVE  Max({a, b}) \in {a, b} /\ Max({a, b}) >= a /\ Max({a, b}) >= b
<1>1. \E x \in {a, b} : \A y \in {a, b} : x >= y
  BY a >= b \/ b >= a
<1>2. QED BY <1>1 DEF Max

\* The smaller of two numbers.
LEMMA MinOfTwo ==
    ASSUME NEW a \in Int, NEW b \in Int
    PROVE  Min({a, b}) \in {a, b} /\ Min({a, b}) <= a /\ Min({a, b}) <= b
<1>1. \E x \in {a, b} : \A y \in {a, b} : x =< y
  BY a >= b \/ b >= a
<1>2. QED BY <1>1 DEF Min

\* A range that is not empty ends with its greatest member.
LEMMA MaxOfRange ==
    ASSUME NEW a \in Int, NEW b \in Int, a .. b # {}
    PROVE  Max(a .. b) = b
<1>1. b \in a .. b /\ \A y \in a .. b : b >= y
  OBVIOUS
<1>2. \A x \in a .. b : (\A y \in a .. b : x >= y) => x = b
  BY <1>1
<1>3. QED BY <1>1, <1>2 DEF Max

-----------------------------------------------------------------------------
(* The agent's loop: no trigger is passed over                              *)

\* The range of triggers a batch is about is handled when the batch is: each of
\* them is asked about or was dismissed.
LogInv ==
    /\ triggers \in Seq(Task \cup {NewDay})
    /\ open \subseteq Task
    /\ cursor \in {NoCursor} \cup 0 .. Len(triggers)
    /\ skipped \in Nat
    /\ dismissed \subseteq 1 .. Len(triggers)
    /\ cursor = NoCursor => skipped = 0 /\ at \notin {"asking", "applying"}
    /\ through \in 0 .. Len(triggers)
    /\ at \in {"asking", "applying"} =>
          \A i \in cursor + 1 .. through : i \in batch \cup dismissed
    /\ NoTriggerLost

\* A batch is a range of the log after the cursor.
LEMMA BatchRange ==
    ASSUME LogInv, cursor # NoCursor, Batch # {}
    PROVE  /\ Max(Batch) \in cursor + 1 .. Len(triggers)
           /\ Batch = cursor + 1 .. Max(Batch)
<1> DEFINE last == Min({cursor + BatchLimit, Len(triggers)})
<1>1. cursor \in Nat /\ Len(triggers) \in Nat /\ BatchLimit \in Nat
  BY LimitsAssumption DEF LogInv
<1>2. last \in Int /\ last <= Len(triggers)
  <2>1. cursor + BatchLimit \in Int
    BY <1>1
  <2>2. Len(triggers) \in Int
    BY <1>1
  <2>3. last \in {cursor + BatchLimit, Len(triggers)} /\ last <= Len(triggers)
    BY <2>1, <2>2, MinOfTwo, Zenon
  <2>4. QED BY <2>1, <2>2, <2>3
<1>3. Batch = cursor + 1 .. last
  BY DEF Batch
<1> HIDE DEF last
<1>4. Max(Batch) = last
  BY <1>1, <1>2, <1>3, MaxOfRange
<1>5. QED BY <1>1, <1>2, <1>3, <1>4

\* A trigger found irrelevant is about nothing that is open.
LEMMA Irrelevant ==
    ASSUME NEW i, ~IsRelevant(i)
    PROVE  triggers[i] \notin open /\ (triggers[i] = NewDay => open = {})
BY DEF IsRelevant

\* Every step of the agent, the users, the scheduler and a crash keeps LogInv.
LEMMA LogStep == LogInv /\ [Next]_vars => LogInv'
<1> SUFFICES ASSUME LogInv, [Next]_vars PROVE LogInv'
  OBVIOUS
<1> USE DEF LogInv
<1>0. cursor \in Int /\ Len(triggers) \in Nat /\ through \in Nat /\ skipped \in Nat
  BY DEF NoCursor
<1>1. CASE Trigger
  <2>1. PICK about \in open \cup {NewDay} : triggers' = Append(triggers, about)
    BY <1>1 DEF Trigger
  <2>2. /\ triggers' \in Seq(Task \cup {NewDay}) /\ Len(triggers') = Len(triggers) + 1
        /\ \A i \in 1 .. Len(triggers) : triggers'[i] = triggers[i]
    BY <2>1
  <2>3. UNCHANGED <<open, cursor, at, batch, through, skipped, dismissed, decided>>
    BY <1>1 DEF Trigger, memory, history
  <2>4. NoTriggerLost'
    BY <2>2, <2>3 DEF NoTriggerLost
  <2>5. /\ cursor' \in {NoCursor} \cup 0 .. Len(triggers')
        /\ dismissed' \subseteq 1 .. Len(triggers') /\ through' \in 0 .. Len(triggers')
    BY <1>0, <2>2, <2>3
  <2>6. QED BY <2>2, <2>3, <2>4, <2>5
\* Nothing the invariant reads changes, but open may lose a task.
<1>2. ASSUME open' \subseteq open, UNCHANGED <<triggers, cursor, through, batch, skipped, dismissed, decided>>,
             at' \in {"asking", "applying"} => at \in {"asking", "applying"}
      PROVE  LogInv'
  BY <1>2 DEF NoTriggerLost
\* A step is given up: it leaves the log alone.
<1>3. ASSUME at' \notin {"asking", "applying"}, through' = 0,
             UNCHANGED <<triggers, open, cursor, skipped, dismissed, decided>>
      PROVE  LogInv'
  BY <1>3 DEF NoTriggerLost
<1>4. CASE UserFinishes \/ OthersPropose
  BY <1>2, <1>4 DEF UserFinishes, OthersPropose, memory, history
<1>5. CASE SkipHistory
  <2>1. cursor' = Len(triggers) /\ skipped' = Len(triggers)
    BY <1>5 DEF SkipHistory, Checkpoint
  <2>2. QED BY <1>5, <2>1 DEF SkipHistory, memory, NoTriggerLost, NoCursor
<1>6. CASE Ask
  <2>1. cursor # NoCursor /\ Batch # {}
    BY <1>6 DEF Ask
  <2>2. /\ through' = Max(Batch) /\ batch' = {i \in Batch : IsRelevant(i)}
        /\ dismissed' = dismissed \cup {i \in Batch : ~IsRelevant(i)}
        /\ UNCHANGED <<triggers, open, cursor, skipped, decided>>
    BY <1>6 DEF Ask, logVars
  <2>3. through' \in 0 .. Len(triggers) /\ dismissed' \subseteq 1 .. Len(triggers)
    <3>1. cursor \in Nat
      BY <2>1
    <3>2. Batch \subseteq 1 .. Len(triggers) /\ Max(Batch) \in 0 .. Len(triggers)
      BY <1>0, <2>1, <3>1, BatchRange
    <3>3. QED BY <2>2, <3>2
  <2>4. \A i \in cursor + 1 .. through' : i \in batch' \cup dismissed'
    BY <2>1, <2>2, BatchRange
  <2>5. NoTriggerLost'
    BY <2>2, Irrelevant DEF NoTriggerLost
  <2>6. QED BY <2>1, <2>2, <2>3, <2>4, <2>5
<1>7. CASE Dismiss
  <2>1. /\ cursor # NoCursor /\ Batch # {} /\ \A i \in Batch : ~IsRelevant(i)
        /\ at \notin {"asking", "applying"}
    BY <1>7 DEF Dismiss
  <2>2. dismissed' = dismissed \cup Batch /\ cursor' = Max({cursor, Max(Batch)})
        /\ UNCHANGED <<triggers, open, skipped, decided, at, through, batch>>
    BY <1>7, <2>1 DEF Dismiss, Checkpoint, memory
  <2>3. /\ cursor' = Max(Batch) /\ cursor' \in cursor + 1 .. Len(triggers)
        /\ Batch = cursor + 1 .. cursor'
    <3> DEFINE b == Max(Batch)
    <3>1. b \in cursor + 1 .. Len(triggers) /\ Batch = cursor + 1 .. b
      BY <2>1, BatchRange
    <3> HIDE DEF b
    <3>2. b \in Int /\ b > cursor
      BY <1>0, <3>1
    <3>3. Max({cursor, b}) \in {cursor, b} /\ Max({cursor, b}) >= b
      BY <1>0, <3>2, MaxOfTwo, Zenon
    <3>4. Max({cursor, b}) = b
      BY <1>0, <3>2, <3>3
    <3>5. QED BY <2>2, <3>1, <3>4 DEF b
  <2>4. NoTriggerLost'
    <3> DEFINE c == cursor'
    <3>0. c \in Int /\ Batch = cursor + 1 .. c
      BY <1>0, <2>3
    <3> HIDE DEF c
    <3>1. \A i \in skipped + 1 .. c : i \in skipped + 1 .. cursor \/ i \in Batch
      BY <1>0, <3>0
    <3>2. QED BY <2>1, <2>2, <3>1, Irrelevant DEF NoTriggerLost, c
  <2>5. cursor' \in 0 .. Len(triggers) /\ dismissed' \subseteq 1 .. Len(triggers)
    <3> DEFINE c == cursor'
    <3>1. /\ cursor \in Nat /\ c \in cursor + 1 .. Len(triggers)
          /\ Batch = cursor + 1 .. c
      BY <1>0, <2>1, <2>3
    <3> HIDE DEF c
    <3>2. c \in 0 .. Len(triggers) /\ Batch \subseteq 1 .. Len(triggers)
      BY <1>0, <3>1
    <3>3. QED BY <2>2, <3>2 DEF c
  <2>6. cursor' # NoCursor /\ at' \notin {"asking", "applying"}
    BY <2>1, <2>2, <2>5 DEF NoCursor
  <2>7. /\ triggers' \in Seq(Task \cup {NewDay}) /\ open' \subseteq Task
        /\ skipped' \in Nat /\ through' \in 0 .. Len(triggers')
        /\ cursor' \in 0 .. Len(triggers') /\ dismissed' \subseteq 1 .. Len(triggers')
    BY <2>2, <2>5
  <2>8. QED BY <2>4, <2>6, <2>7
<1>8. CASE Answered
  BY <1>2, <1>8 DEF Answered, logVars, history
<1>9. CASE ProviderFails
  BY <1>3, <1>9 DEF ProviderFails, BacksOff, Forget, logVars, history
<1>10. CASE RejectCreation \/ ExecuteCreation
  BY <1>2, <1>10 DEF RejectCreation, ExecuteCreation, Propose, history
<1>11. CASE ExecuteFinish
  BY <1>2, <1>11 DEF ExecuteFinish, history
<1>12. CASE Decided
  <2>1. at = "applying" /\ cursor # NoCursor
    BY <1>12 DEF Decided
  <2>2. /\ cursor' = Max({cursor, through}) /\ decided' = decided \cup batch
        /\ at' = "idle" /\ through' = 0
        /\ UNCHANGED <<triggers, open, skipped, dismissed>>
    BY <1>12, <2>1 DEF Decided, Checkpoint, Forget
  <2>3. cursor' \in {cursor, through} /\ cursor' \in Nat
    <3>1. through \in Int /\ cursor \in Nat
      BY <1>0, <2>1
    <3>2. Max({cursor, through}) \in {cursor, through}
      BY <1>0, <3>1, MaxOfTwo, Zenon
    <3>3. QED BY <1>0, <2>2, <3>1, <3>2
  <2>4. NoTriggerLost'
    <3>1. \A i \in skipped + 1 .. cursor' :
              i \in skipped + 1 .. cursor \/ i \in cursor + 1 .. through
      BY <2>1, <2>3 DEF NoCursor
    <3>2. QED BY <2>1, <2>2, <3>1 DEF NoTriggerLost
  <2>5. QED BY <2>1, <2>2, <2>3, <2>4 DEF NoCursor
<1>13. CASE StepFails \/ Killed
  BY <1>3, <1>13 DEF StepFails, Killed, BacksOff, Forget, logVars
<1>14. CASE WaitEnds \/ Restart
  BY <1>2, <1>14 DEF WaitEnds, Restart, logVars, history
<1>15. CASE UNCHANGED vars
  BY <1>2, <1>15 DEF vars
<1>16. QED
  BY <1>1, <1>4, <1>5, <1>6, <1>7, <1>8, <1>9, <1>10, <1>11, <1>12, <1>13, <1>14, <1>15
  DEF Next, Step

\* The cursor is never beyond a trigger that was neither decided nor found to
\* need no decision, through crashes, failures of the provider and batches of
\* any size.
THEOREM NoTriggerLostCorrect == Spec => []NoTriggerLost
<1>1. Init => LogInv
  BY DEF Init, LogInv, NoTriggerLost, NoCursor
<1>2. LogInv => NoTriggerLost
  BY DEF LogInv
<1>3. QED BY <1>1, <1>2, LogStep, PTL DEF Spec

-----------------------------------------------------------------------------
(* The agent's loop: nothing is decided twice                               *)

\* What was decided is behind the cursor and the current batch is beyond it; a call
\* that finished a task is about one that is finished; and as long as nothing
\* crashed, the batches of the calls that were applied are behind the cursor, but for
\* those of the current batch, which are in earlier slots.
OnceInv ==
    /\ crashes \in Nat /\ slot \in Nat
    /\ at \in {"asking", "applying"} =>
          batch \subseteq cursor + 1 .. through /\ through \in Int
    /\ at \notin {"asking", "applying"} => batch = {}
    /\ decided \subseteq 1 .. cursor
    /\ \A a \in applied : a.call # Create => a.call \notin open
    /\ crashes = 0 =>
          \A a \in applied :
                /\ a.slot \in Nat
                /\ \/ a.batch \subseteq 1 .. cursor
                   \/ at = "applying" /\ a.batch = batch /\ a.slot < slot
    /\ DecidedOnce

\* A decision under a new key about a task that is still open is the first
\* in its slot and about its task.
LEMMA AppliedOnce ==
    ASSUME LogInv, OnceInv, at = "applying", ~IsSeen, applied' = applied \cup {Decision},
           open' \subseteq open,
           Decision.call # Create => Decision.call \in open \ open',
           slot' = slot + 1, UNCHANGED <<at, batch, through, cursor, crashes, decided>>
    PROVE  OnceInv'
<1>1. Decision.batch = batch /\ Decision.slot = slot
  BY DEF Decision
<1>d. \A a \in applied : ~(a.batch = Decision.batch /\ a.slot = Decision.slot)
  BY <1>1 DEF IsSeen
<1> DEFINE d == Decision
<1>e. applied' = applied \cup {d} /\ (d.call # Create => d.call \in open \ open')
  OBVIOUS
<1> HIDE DEF d
<1>2. cursor \in Int /\ slot \in Nat /\ slot < slot + 1 /\ slot + 1 \in Nat
  BY DEF LogInv, OnceInv, NoCursor
<1>3. ASSUME crashes = 0, NEW a \in applied, a.slot = d.slot
      PROVE  a.batch \cap d.batch = {}
  <2>1. a.batch \subseteq 1 .. cursor
    BY <1>1, <1>3 DEF OnceInv, d
  <2>2. d.batch \subseteq cursor + 1 .. through /\ through \in Int
    BY <1>1 DEF OnceInv, d
  <2>3. \A i \in 1 .. cursor : i \notin cursor + 1 .. through
    BY <1>2, <2>2
  <2>4. QED BY <2>1, <2>2, <2>3
<1>4. DecidedOnce'
  <2> DEFINE Once(a, b) ==
                /\ a.batch = b.batch /\ a.slot = b.slot => a = b
                /\ a.call = b.call /\ a.call # Create => a = b
                /\ crashes = 0 /\ a.batch \cap b.batch # {} /\ a.slot = b.slot => a = b
  <2>1. \A a, b \in applied : Once(a, b)
    BY DEF OnceInv, DecidedOnce
  <2>2. \A a \in applied : a.call # Create => a.call \notin open
    BY DEF OnceInv
  <2>3. ASSUME NEW a \in applied PROVE Once(a, d) /\ Once(d, a)
    <3>1. ~(a.batch = d.batch /\ a.slot = d.slot)
      BY <1>d DEF d
    <3>2. a.call = d.call => a.call = Create
      BY <1>e, <2>2
    <3>3. crashes = 0 /\ a.slot = d.slot => a.batch \cap d.batch = {} /\ d.batch \cap a.batch = {}
      BY <1>3
    <3>4. QED BY <3>1, <3>2, <3>3
  <2>4. \A a, b \in applied' : Once(a, b)
    BY <1>e, <2>1, <2>3
  <2>5. batch \cap decided = {}
    BY DEF OnceInv, DecidedOnce
  <2>6. QED BY <2>4, <2>5 DEF DecidedOnce
<1>5. crashes' = 0 =>
        \A a \in applied' :
            /\ a.slot \in Nat
            /\ \/ a.batch \subseteq 1 .. cursor'
               \/ at' = "applying" /\ a.batch = batch' /\ a.slot < slot'
  <2> SUFFICES ASSUME crashes = 0, NEW a \in applied'
               PROVE  /\ a.slot \in Nat
                      /\ \/ a.batch \subseteq 1 .. cursor
                         \/ a.batch = batch /\ a.slot < slot + 1
    OBVIOUS
  <2>1. CASE a \in applied
    <3>1. a.slot \in Nat /\ (a.slot < slot => a.slot < slot + 1)
      BY <1>2, <2>1 DEF OnceInv
    <3>2. QED BY <2>1, <3>1 DEF OnceInv
  <2>2. CASE a = Decision
    BY <1>1, <1>2, <2>2
  <2>3. QED BY <2>1, <2>2
<1>6. \A a \in applied' : a.call # Create => a.call \notin open'
  BY <1>e DEF OnceInv
<1>7. QED BY <1>2, <1>4, <1>5, <1>6 DEF OnceInv

\* Every step keeps OnceInv.
LEMMA OnceStep == LogInv /\ OnceInv /\ [Next]_vars => OnceInv'
<1> SUFFICES ASSUME LogInv, OnceInv, [Next]_vars PROVE OnceInv'
  OBVIOUS
<1>0. cursor \in Int /\ slot \in Nat /\ slot + 1 \in Nat /\ Len(triggers) \in Nat
  BY DEF LogInv, OnceInv, NoCursor
\* Neither the calls nor the batch change.
<1>1. ASSUME open' \subseteq open,
             UNCHANGED <<applied, cursor, at, batch, through, slot, crashes, decided>>
      PROVE  OnceInv'
  BY <1>1 DEF OnceInv, DecidedOnce
\* The slot was passed over.
<1>2. ASSUME open' \subseteq open,
             UNCHANGED <<applied, cursor, at, batch, through, crashes, decided>>, slot' = slot + 1
      PROVE  OnceInv'
  <2>1. \A n \in Nat : n < slot => n < slot + 1
    BY <1>0
  <2>2. QED BY <1>0, <1>2, <2>1 DEF OnceInv, DecidedOnce
\* No batch is being applied, and the cursor did not go back.
<1>3. ASSUME UNCHANGED <<open, applied, crashes, decided>>, cursor' \in Int, cursor' >= cursor,
             at # "applying", at' \notin {"asking", "applying"}, batch' = {}, slot' \in Nat
      PROVE  OnceInv'
  <2>1. 1 .. cursor \subseteq 1 .. cursor'
    BY <1>0, <1>3
  <2>2. QED BY <1>3, <2>1 DEF OnceInv, DecidedOnce
\* Something crashed.
<1>4. ASSUME UNCHANGED <<open, applied, cursor, decided>>, crashes' = crashes + 1,
             at' \notin {"asking", "applying"}, batch' = {}, slot' \in Nat
      PROVE  OnceInv'
  <2>1. crashes' \in Nat /\ crashes' # 0
    BY <1>4 DEF OnceInv
  <2>2. QED BY <1>4, <2>1 DEF OnceInv, DecidedOnce
<1>5. CASE Trigger \/ UserFinishes \/ OthersPropose \/ WaitEnds
  BY <1>1, <1>5 DEF Trigger, UserFinishes, OthersPropose, WaitEnds, logVars, memory, history
<1>6. CASE SkipHistory
  <2>1. cursor' = Len(triggers) /\ cursor = -1 /\ at = "idle"
    BY <1>6 DEF SkipHistory, Checkpoint, NoCursor
  <2>2. batch' = {}
    BY <1>6, <2>1 DEF SkipHistory, memory, OnceInv
  <2>3. QED BY <1>0, <1>3, <1>6, <2>1, <2>2 DEF SkipHistory, memory
<1>7. CASE Ask
  <2>1. /\ cursor # NoCursor /\ Batch # {} /\ at = "idle" /\ at' = "asking"
        /\ batch' = {i \in Batch : IsRelevant(i)} /\ through' = Max(Batch)
        /\ UNCHANGED <<open, cursor, applied, slot, crashes, decided>>
    BY <1>7 DEF Ask, logVars
  <2>2. Batch = cursor + 1 .. Max(Batch) /\ Max(Batch) \in Int
    BY <1>0, <2>1, BatchRange
  <2>3. batch' \subseteq cursor' + 1 .. through' /\ through' \in Int
    BY <2>1, <2>2
  <2>4. batch' \cap decided' = {}
    <3>1. \A i \in 1 .. cursor : i \notin cursor + 1 .. through'
      BY <1>0, <2>1, <2>3
    <3>2. QED BY <2>1, <2>3, <3>1 DEF OnceInv
  <2>5. QED BY <2>1, <2>3, <2>4 DEF OnceInv, DecidedOnce
<1>8. CASE Dismiss
  <2>1. /\ cursor # NoCursor /\ Batch # {} /\ at = "idle" /\ at' = at /\ slot' = slot
        /\ cursor' = Max({cursor, Max(Batch)}) /\ batch' = batch
        /\ UNCHANGED <<open, applied, crashes, decided>>
    BY <1>8 DEF Dismiss, Checkpoint, memory
  <2>4. batch' = {}
    BY <2>1 DEF OnceInv
  <2>2. cursor' \in Int /\ cursor' >= cursor
    <3> DEFINE b == Max(Batch)
    <3>1. b \in Int
      BY <1>0, <2>1, BatchRange
    <3> HIDE DEF b
    <3>2. Max({cursor, b}) \in {cursor, b} /\ Max({cursor, b}) >= cursor
      BY <1>0, <3>1, MaxOfTwo, Zenon
    <3>3. QED BY <1>0, <2>1, <3>1, <3>2 DEF b
  <2>3. QED BY <1>0, <1>3, <2>1, <2>2, <2>4
<1>9. CASE Answered
  <2>1. /\ at = "asking" /\ at' = "applying" /\ slot' = 1
        /\ UNCHANGED <<open, cursor, applied, batch, through, crashes, decided>>
    BY <1>9 DEF Answered, logVars, history
  <2>2. QED BY <2>1 DEF OnceInv, DecidedOnce
<1>10. CASE ProviderFails
  <2>1. /\ at = "asking" /\ at' \in {"idle", "dead"} /\ slot' = 1 /\ batch' = {}
        /\ UNCHANGED <<open, cursor, applied, crashes, decided>>
    BY <1>10 DEF ProviderFails, BacksOff, Forget, logVars, history
  <2>2. QED BY <1>0, <1>3, <2>1
<1>11. CASE RejectCreation
  BY <1>2, <1>11 DEF RejectCreation, history
<1>12. CASE ExecuteCreation \/ ExecuteFinish
  <2>1. /\ at = "applying" /\ slot' = slot + 1 /\ open' \subseteq open
        /\ UNCHANGED <<at, batch, through, cursor, crashes, decided>>
    BY <1>12 DEF ExecuteCreation, ExecuteFinish, Doing, history
  <2>2. \/ applied' = applied
        \/ /\ applied' = applied \cup {Decision} /\ ~IsSeen
           /\ Decision.call # Create => Decision.call \in open \ open'
    <3>1. CASE ExecuteCreation
      BY <3>1 DEF ExecuteCreation, Doing, Decision
    <3>2. CASE ExecuteFinish
      BY <3>2 DEF ExecuteFinish, Decision
    <3>3. QED BY <1>12, <3>1, <3>2
  <2>3. QED BY <1>2, <2>1, <2>2, AppliedOnce
<1>13. CASE Decided
  <2>1. /\ at = "applying" /\ at' = "idle" /\ slot' = 1 /\ cursor # NoCursor
        /\ cursor' = Max({cursor, through}) /\ decided' = decided \cup batch /\ batch' = {}
        /\ UNCHANGED <<open, applied, crashes>>
    BY <1>13 DEF Decided, Checkpoint, Forget, LogInv
  <2>2. through \in Int /\ batch \subseteq cursor + 1 .. through /\ cursor \in Nat
    BY <1>0, <2>1 DEF OnceInv, LogInv
  <2>3. cursor' \in Int /\ cursor' >= cursor /\ cursor' >= through
    <3>1. /\ Max({cursor, through}) \in {cursor, through}
          /\ Max({cursor, through}) >= cursor /\ Max({cursor, through}) >= through
      BY <1>0, <2>2, MaxOfTwo, Zenon
    <3>2. QED BY <1>0, <2>1, <2>2, <3>1
  <2>4. 1 .. cursor \subseteq 1 .. cursor' /\ batch \subseteq 1 .. cursor'
    BY <2>2, <2>3
  <2>5. QED BY <2>1, <2>4 DEF OnceInv, DecidedOnce
<1>14. CASE StepFails \/ Killed
  BY <1>4, <1>14 DEF StepFails, Killed, BacksOff, Forget, logVars
<1>15. CASE Restart
  <2>1. batch' = {}
    BY <1>15 DEF Restart, OnceInv
  <2>2. QED BY <1>0, <1>3, <1>15, <2>1 DEF Restart, logVars, history
<1>16. CASE UNCHANGED vars
  BY <1>1, <1>16 DEF vars
<1>17. QED
  BY <1>5, <1>6, <1>7, <1>8, <1>9, <1>10, <1>11, <1>12, <1>13, <1>14, <1>15, <1>16
  DEF Next, Step

\* No decided trigger is decided again, and no key and no task acted on twice,
\* through crashes and changed answers; and without a crash no trigger leads to two
\* applied calls in one slot.
THEOREM DecidedOnceCorrect == Spec => []DecidedOnce
<1>1. Init => LogInv
  BY DEF Init, LogInv, NoTriggerLost, NoCursor
<1>2. Init => OnceInv
  BY DEF Init, OnceInv, DecidedOnce, NoCursor
<1>3. OnceInv => DecidedOnce
  BY DEF OnceInv, DecidedOnce
<1>4. QED BY <1>1, <1>2, <1>3, LogStep, OnceStep, PTL DEF Spec

-----------------------------------------------------------------------------
(* The agent's loop: the creation budget                                    *)

\* While the budget's query sees all proposals it counts every applied
\* creation, and what is counted and what is left of a batch's budget fit.
BudgetInv ==
    /\ proposed \in 0 .. QueryLimit
    /\ counted \in Nat /\ budget \in Nat
    /\ IsFiniteSet(Creations)
    /\ proposed < QueryLimit =>
          /\ Cardinality(Creations) <= counted
          /\ counted <= MaxCreations
          /\ at = "applying" => counted + budget <= MaxCreations

\* Runtime.execute and reject add one proposal; one beyond the query's limit
\* is not counted.
LEMMA ProposeStep ==
    ASSUME BudgetInv, NEW isCreation \in BOOLEAN, Propose(isCreation)
    PROVE  /\ proposed' \in 0 .. QueryLimit /\ counted' \in Nat
           /\ proposed' < QueryLimit =>
                 /\ proposed < QueryLimit
                 /\ counted' = IF isCreation THEN counted + 1 ELSE counted
<1>1. proposed \in Int /\ QueryLimit \in Nat /\ proposed + 1 \in Int /\ QueryLimit \in Int
  BY LimitsAssumption DEF BudgetInv
<1> DEFINE m == Min({proposed + 1, QueryLimit})
<1>2. m \in {proposed + 1, QueryLimit} /\ m <= proposed + 1 /\ m <= QueryLimit
  BY <1>1, MinOfTwo, Zenon
<1>3. proposed' = m
  BY DEF Propose
<1> HIDE DEF m
<1>4. proposed' \in 0 .. QueryLimit /\ (proposed' < QueryLimit => proposed < QueryLimit)
  BY <1>1, <1>2, <1>3 DEF BudgetInv
<1>5. QED BY <1>4 DEF Propose, BudgetInv

\* Every step keeps BudgetInv: a batch starts with what is left, and each
\* creation takes one of it whether or not its key was seen.
LEMMA BudgetStep == BudgetInv /\ [Next]_vars => BudgetInv'
<1> SUFFICES ASSUME BudgetInv, [Next]_vars PROVE BudgetInv'
  OBVIOUS
<1>0. MaxCreations \in Nat /\ QueryLimit \in Nat
  BY LimitsAssumption
\* No proposal is made; a batch's budget is dropped or kept.
<1>1. ASSUME UNCHANGED <<applied, proposed, counted>>, at' = "applying" => at = "applying",
             budget' = 0 \/ budget' = budget
      PROVE  BudgetInv'
  BY <1>0, <1>1 DEF BudgetInv, Creations
\* A proposal that creates nothing.
<1>2. ASSUME Propose(FALSE), Creations' = Creations, UNCHANGED <<at, budget>>
      PROVE  BudgetInv'
  BY <1>2, ProposeStep DEF BudgetInv
<1>3. CASE Trigger \/ UserFinishes \/ SkipHistory \/ Ask \/ Dismiss \/ WaitEnds \/ Restart
  BY <1>1, <1>3 DEF Trigger, UserFinishes, SkipHistory, Ask, Dismiss, WaitEnds, Restart, logVars, memory
<1>4. CASE ProviderFails \/ StepFails \/ Killed \/ Decided
  BY <1>1, <1>4 DEF ProviderFails, StepFails, Killed, Decided, BacksOff, Forget, logVars
<1>5. CASE OthersPropose
  BY <1>2, <1>5 DEF OthersPropose, memory, Creations
<1>6. CASE Answered
  <2> DEFINE left == MaxCreations - counted
  <2>1. left \in Int /\ 0 \in Int
    BY <1>0 DEF BudgetInv
  <2>2. Max({0, left}) \in {0, left} /\ Max({0, left}) >= 0
    BY <2>1, MaxOfTwo, Zenon
  <2>3. budget' \in {0, left} /\ budget' >= 0
    BY <1>6, <2>2 DEF Answered, CreationBudget
  <2>4. UNCHANGED <<applied, proposed, counted>>
    BY <1>6 DEF Answered, logVars
  <2>5. counted \in Nat => budget' \in Nat /\ (left >= 0 => counted + budget' <= MaxCreations)
    <3>1. \A b \in {0, left} : b >= 0 /\ counted \in Nat =>
              b \in Nat /\ (left >= 0 => counted + b <= MaxCreations)
      BY <1>0
    <3>2. QED BY <2>3, <3>1
  <2>6. Creations' = Creations
    BY <2>4 DEF Creations
  <2> HIDE DEF left
  <2>7. counted <= MaxCreations /\ counted \in Nat => left >= 0
    BY <1>0 DEF left
  <2>8. QED BY <2>4, <2>5, <2>6, <2>7 DEF BudgetInv
<1>7. CASE RejectCreation
  BY <1>2, <1>7 DEF RejectCreation, Creations
<1>8. CASE ExecuteCreation
  <2>1. /\ at = "applying" /\ budget > 0 /\ at' = at /\ budget' = budget - 1
    BY <1>8 DEF ExecuteCreation, Doing
  <2>9. PICK runs \in {~IsSeen, FALSE} :
            /\ applied' = IF runs THEN applied \cup {Decision} ELSE applied
            /\ Propose(runs)
    BY <1>8 DEF ExecuteCreation
  <2>2. CASE ~runs
    <3>1. Creations' = Creations /\ Propose(FALSE)
      <4>1. runs = FALSE
        BY <2>2, <2>9 DEF IsSeen
      <4>2. QED BY <2>9, <4>1 DEF Creations
    <3>2. /\ proposed' \in 0 .. QueryLimit /\ counted' \in Nat
          /\ proposed' < QueryLimit => proposed < QueryLimit /\ counted' = counted
      BY <3>1, ProposeStep
    <3>3. budget' \in Nat /\ budget' <= budget
      BY <2>1 DEF BudgetInv
    <3>4. counted \in Nat /\ budget \in Nat
      BY DEF BudgetInv
    <3>5. \A b \in Nat : b <= budget /\ counted + budget <= MaxCreations => counted + b <= MaxCreations
      BY <1>0, <3>4
    <3>6. QED BY <2>1, <3>1, <3>2, <3>3, <3>4, <3>5 DEF BudgetInv
  <2>3. CASE runs
    <3>1. Propose(TRUE) /\ (Creations' = Creations \/ Creations' = Creations \cup {Decision})
      <4>1. runs = TRUE
        BY <2>3, <2>9 DEF IsSeen
      <4>2. QED BY <2>9, <4>1 DEF Creations
    <3>2. IsFiniteSet(Creations) /\ Cardinality(Creations) \in Nat
      BY FS_CardinalityType DEF BudgetInv
    <3>3. IsFiniteSet(Creations') /\ Cardinality(Creations') <= Cardinality(Creations) + 1
      <4>1. /\ IsFiniteSet(Creations \cup {Decision})
            /\ Cardinality(Creations \cup {Decision}) <= Cardinality(Creations) + 1
        BY <3>2, FS_AddElement
      <4>2. Cardinality(Creations) <= Cardinality(Creations) + 1
        BY <3>2
      <4>3. QED BY <3>1, <3>2, <4>1, <4>2, Zenon
    <3>4. Cardinality(Creations') \in Nat
      BY <3>3, FS_CardinalityType
    <3>5. /\ proposed' \in 0 .. QueryLimit /\ counted' \in Nat
          /\ proposed' < QueryLimit => proposed < QueryLimit /\ counted' = counted + 1
      BY <3>1, ProposeStep
    <3>6. /\ counted \in Nat /\ budget \in Nat /\ budget > 0 /\ budget' = budget - 1
          /\ at' = at /\ at = "applying"
      BY <2>1 DEF BudgetInv
    <3>7. budget' \in Nat
      BY <3>6
    <3>8. proposed' < QueryLimit =>
            /\ Cardinality(Creations') <= counted'
            /\ counted' <= MaxCreations /\ counted' + budget' <= MaxCreations
      <4>1. proposed' < QueryLimit =>
              /\ Cardinality(Creations) <= counted /\ counted + budget <= MaxCreations
              /\ counted' = counted + 1
        BY <3>5, <3>6 DEF BudgetInv
      <4>2. QED BY <1>0, <3>2, <3>3, <3>4, <3>6, <4>1
    <3>9. QED BY <3>3, <3>5, <3>6, <3>7, <3>8 DEF BudgetInv
  <2>4. QED BY <2>2, <2>3
<1>9. CASE ExecuteFinish
  <2>1. calls[slot] # Create /\ Propose(FALSE) /\ UNCHANGED <<at, budget>>
    BY <1>9 DEF ExecuteFinish, Doing
  <2>2. applied' = applied \/ applied' = applied \cup {Decision}
    BY <1>9 DEF ExecuteFinish
  <2>3. Decision.call # Create
    BY <2>1 DEF Decision
  <2>4. Creations' = Creations
    BY <2>2, <2>3 DEF Creations
  <2>5. QED BY <1>2, <2>1, <2>4
<1>10. CASE UNCHANGED vars
  BY <1>1, <1>10 DEF vars
<1>11. QED
  BY <1>3, <1>4, <1>5, <1>6, <1>7, <1>8, <1>9, <1>10 DEF Next, Step

\* The agent creates no more tasks than it may, whatever it crashed on and was
\* asked again, while its query sees the day's proposals.
THEOREM BudgetCorrect == Spec => []BudgetHolds
<1>1. Init => BudgetInv
  <2>1. Init => Creations = {}
    BY DEF Init, Creations
  <2>2. QED BY <2>1, FS_EmptySet, LimitsAssumption DEF Init, BudgetInv
<1>2. BudgetInv => BudgetHolds
  <2>1. IsFiniteSet(Creations) => Cardinality(Creations) \in Nat
    BY FS_CardinalityType
  <2>2. QED BY <2>1, LimitsAssumption DEF BudgetInv, BudgetHolds
<1>3. QED BY <1>1, <1>2, BudgetStep, PTL DEF Spec

-----------------------------------------------------------------------------
(* The scheduler's loop: it wakes in time                                   *)

\* The next midnight is the first multiple of a day after the instant.
LEMMA MidnightIsNext ==
    ASSUME NEW t \in Nat
    PROVE  /\ DateOf(t) \in Nat /\ NextLocalMidnight(t) \in Nat
           /\ NextLocalMidnight(t) = (DateOf(t) + 1) * DayLength
           /\ DateOf(t) * DayLength <= t /\ t < NextLocalMidnight(t)
<1>1. DayLength \in Nat /\ DayLength > 0
  BY PeriodsAssumption
<1>2. /\ t = DayLength * (t \div DayLength) + (t % DayLength)
      /\ t % DayLength \in 0 .. DayLength - 1 /\ t \div DayLength \in Int
  BY <1>1
<1>3. t \div DayLength >= 0
  BY <1>1, <1>2
<1>4. QED BY <1>1, <1>2, <1>3 DEF NextLocalMidnight, DateOf

\* Midnight does not come nearer than it was.
LEMMA MidnightGoesOn ==
    ASSUME NEW t \in Nat, NEW u \in Nat, t <= u
    PROVE  NextLocalMidnight(t) <= NextLocalMidnight(u)
<1> DEFINE d == DateOf(t)
           e == DateOf(u)
<1>1. DayLength \in Nat /\ DayLength > 0
  BY PeriodsAssumption
<1>2. d \in Nat /\ e \in Nat /\ d * DayLength < (e + 1) * DayLength
  BY <1>1, MidnightIsNext
<1> HIDE DEF d, e
<1>3. d <= e
  <2>1. ASSUME d > e PROVE (e + 1) * DayLength <= d * DayLength
    BY <1>1, <1>2, <2>1
  <2>2. QED BY <1>1, <1>2, <2>1
<1>4. (d + 1) * DayLength <= (e + 1) * DayLength
  BY <1>1, <1>2, <1>3
<1>5. QED BY <1>4, MidnightIsNext DEF d, e

\* The next wake time is in the future, and nothing the loop waits for is before it.
LEMMA NextWakeTimeIsFirst ==
    ASSUME now \in Nat, view \subseteq Nat
    PROVE  /\ NextWakeTime \in Nat /\ NextWakeTime > now
           /\ \A b \in view \cup {NextLocalMidnight(now)} : b > now => NextWakeTime <= b
<1> DEFINE S == {NextLocalMidnight(now)} \cup {b \in view : b > now}
<1>1. NextLocalMidnight(now) \in Nat /\ NextLocalMidnight(now) > now
  BY MidnightIsNext
<1>2. S \in SUBSET Nat /\ S # {} /\ \A b \in S : b > now
  BY <1>1
<1>3. \A b \in view \cup {NextLocalMidnight(now)} : b > now => b \in S
  OBVIOUS
<1>4. NextWakeTime = Min(S)
  BY DEF NextWakeTime
<1> HIDE DEF S
<1>5. \E x \in S : \A y \in S : x <= y
  BY <1>2, LeastExists
<1>6. Min(S) \in S /\ \A y \in S : Min(S) <= y
  BY <1>5 DEF Min
<1>7. QED BY <1>2, <1>3, <1>4, <1>6

\* The loop does not sleep longer than the interval, nor beyond a wake time to come.
LEMMA NextDelayIsShort ==
    ASSUME now \in Nat, view \subseteq Nat
    PROVE  /\ NextDelay \in Nat /\ NextDelay <= Refresh
           /\ now + NextDelay <= NextWakeTime
<1> DEFINE w == NextWakeTime - now
           m == Min({w, Refresh})
<1>1. w \in Int /\ w > 0 /\ Refresh \in Int /\ Refresh > 0 /\ NextWakeTime \in Nat
  BY NextWakeTimeIsFirst, PeriodsAssumption
<1>2. NextDelay = Max({0, m})
  BY DEF NextDelay
<1> HIDE DEF w
<1>3. m \in {w, Refresh} /\ m <= w /\ m <= Refresh
  BY <1>1, MinOfTwo, Zenon
<1> HIDE DEF m
<1>4. m \in Int /\ 0 \in Int /\ m > 0
  BY <1>1, <1>3
<1>5. Max({0, m}) \in {0, m} /\ Max({0, m}) >= 0 /\ Max({0, m}) >= m
  BY <1>4, MaxOfTwo, Zenon
<1>6. NextDelay = m
  BY <1>2, <1>4, <1>5
<1>7. QED BY <1>1, <1>3, <1>4, <1>6 DEF w

\* Nothing has been waited for before it was due, and no longer than the interval less
\* what is left of the wait.
LateInv ==
    /\ \A b \in Instants :
          waited[b] \in Nat /\ waited[b] <= Refresh /\ (waited[b] > 0 => b \in log /\ b <= now)
    /\ stage = "delay" => errors = 0 /\ \A b \in Instants : waited[b] = 0
    /\ stage = "wait" /\ errors = 0 =>
          timer \in Nat /\ \A b \in Instants : waited[b] + timer <= Refresh

NothingSleptThrough ==
    stage = "wait" /\ errors = 0 /\ ~slept /\ ~wakeEvent =>
        \A b \in view \cup {NextLocalMidnight(now)} : b > now => now + timer <= b

WakeInv ==
    /\ now \in Instants /\ errors \in Nat
    /\ log \subseteq Instants /\ view \subseteq log
    /\ LateInv /\ NothingSleptThrough

\* Every step of the loop, of the clock and of those who propose keeps WakeInv.
LEMMA WakeStep == WakeInv /\ [WakeNext]_wakeVars => WakeInv'
<1> SUFFICES ASSUME WakeInv, [WakeNext]_wakeVars PROVE WakeInv'
  OBVIOUS
<1> USE DEF WakeInv
<1>0. /\ Refresh \in Nat /\ Horizon \in Nat /\ now \in Nat /\ now <= Horizon
      /\ Instants \subseteq Nat /\ view \subseteq Nat
  BY PeriodsAssumption, WakeBoundsAssumption DEF Instants
<1>1. CASE RunPass
  <2>1. /\ view' = log /\ errors' = 0 /\ log' = log /\ stage' = "delay"
        /\ waited' = [b \in Instants |-> IF b \in ticked' THEN 0 ELSE waited[b]]
        /\ Due(log, now) \subseteq ticked' /\ now' \in now .. now + MaxAdvance
        /\ now' <= Horizon
    BY <1>1 DEF RunPass, Advances
  <2>2. \A b \in Instants : waited'[b] = 0
    <3> SUFFICES ASSUME NEW b \in Instants, b \notin ticked' PROVE waited[b] = 0
      BY <2>1
    <3>1. ~ (b \in log /\ b <= now)
      BY <2>1 DEF Due
    <3>2. QED BY <3>1 DEF LateInv
  <2>3. now' \in Instants
    BY <1>0, <2>1, WakeBoundsAssumption DEF Instants
  <2>4. QED BY <1>0, <2>1, <2>2, <2>3 DEF LateInv, NothingSleptThrough
<1>2. CASE PassFails
  <2>1. /\ errors' = errors + 1 /\ stage' \in {"wait", "dead"}
        /\ UNCHANGED <<now, log, view, waited>>
    BY <1>2 DEF PassFails
  <2>2. QED BY <2>1 DEF LateInv, NothingSleptThrough
<1>3. CASE SetTimer
  <2>1. /\ stage = "delay" /\ timer' = NextDelay
        /\ UNCHANGED <<now, log, view, errors, slept, wakeEvent, waited>>
    BY <1>3 DEF SetTimer
  <2>2. timer' \in Nat /\ timer' <= Refresh /\ now + timer' <= NextWakeTime
    BY <1>0, <2>1, NextDelayIsShort
  <2>3. /\ NextWakeTime \in Nat
        /\ \A b \in view \cup {NextLocalMidnight(now)} : b > now => NextWakeTime <= b
    BY <1>0, NextWakeTimeIsFirst
  <2>4. NothingSleptThrough'
    <3>1. \A b \in view \cup {NextLocalMidnight(now)} : b \in Nat
      BY <1>0, MidnightIsNext
    <3>2. ASSUME NEW b \in view \cup {NextLocalMidnight(now)}, b > now
          PROVE  now + timer' <= b
      <4>1. NextWakeTime <= b /\ b \in Nat
        BY <2>3, <3>1, <3>2
      <4>2. \A d, w \in Nat : now + d <= w /\ w <= b => now + d <= b
        BY <1>0, <4>1
      <4>3. timer' \in Nat /\ NextWakeTime \in Nat /\ now + timer' <= NextWakeTime
        BY <2>2, <2>3
      <4>4. QED BY <4>1, <4>2, <4>3, Zenon
    <3>3. QED BY <2>1, <3>2 DEF NothingSleptThrough
  <2>5. LateInv'
    <3>1. \A b \in Instants : waited[b] = 0
      BY <2>1 DEF LateInv
    <3>2. QED BY <1>0, <2>1, <2>2, <3>1 DEF LateInv
  <2>6. QED BY <2>1, <2>4, <2>5
<1>4. CASE Wake
  <2>1. stage' = "pass" /\ UNCHANGED <<now, log, view, errors, waited>>
    BY <1>4 DEF Wake
  <2>2. QED BY <2>1 DEF LateInv, NothingSleptThrough
\* A boundary that is new to the log has not been waited for.
<1>5. CASE Execute \/ OthersExecute
  <2>1. PICK b \in Instants \ log : log' = log \cup {b}
    BY <1>5 DEF Execute, OthersExecute
  <2>2. /\ UNCHANGED <<now, stage, timer, errors, slept, waited>>
        /\ \/ view' = log' /\ wakeEvent'
           \/ view' = view /\ wakeEvent' = wakeEvent
    BY <1>5 DEF Execute, OthersExecute
  <2>3. LateInv'
    BY <2>1, <2>2 DEF LateInv
  <2>4. NothingSleptThrough'
    BY <2>2 DEF NothingSleptThrough
  <2>5. QED BY <2>1, <2>2, <2>3, <2>4
<1>6. CASE Pause
  <2>1. /\ stage = "wait" /\ timer > 0 /\ timer' = timer - 1
        /\ now' = Min({now + 1, Horizon})
        /\ waited' = [b \in Instants |->
                         IF b \in Unticked /\ errors = 0 THEN waited[b] + 1 ELSE waited[b]]
        /\ UNCHANGED <<log, view, stage, wakeEvent, errors, slept>>
    BY <1>6 DEF Pause
  <2>2. now' \in Nat /\ now <= now' /\ now' <= now + 1 /\ now' <= Horizon
    <3>1. now + 1 \in Int /\ Horizon \in Int
      BY <1>0
    <3>2. /\ Min({now + 1, Horizon}) \in {now + 1, Horizon}
          /\ Min({now + 1, Horizon}) <= now + 1 /\ Min({now + 1, Horizon}) <= Horizon
      BY <3>1, MinOfTwo, Zenon
    <3>3. QED BY <1>0, <2>1, <3>2
  <2>3. now' \in Instants
    BY <1>0, <2>2 DEF Instants
  <2>4. LateInv'
    <3>1. ASSUME NEW b \in Instants
          PROVE  /\ waited[b] \in Nat /\ waited[b] <= Refresh
                 /\ waited[b] > 0 => b \in log /\ b <= now
                 /\ waited'[b] = IF b \in Unticked /\ errors = 0 THEN waited[b] + 1 ELSE waited[b]
                 /\ b \in Unticked => b \in log /\ b <= now
                 /\ errors = 0 => timer \in Nat /\ waited[b] + timer <= Refresh
      BY <2>1 DEF LateInv, Unticked
    <3>2. ASSUME NEW b \in Instants
          PROVE  /\ waited'[b] \in Nat /\ waited'[b] <= Refresh
                 /\ waited'[b] > 0 => b \in log' /\ b <= now'
                 /\ errors' = 0 => timer' \in Nat /\ waited'[b] + timer' <= Refresh
      <4>1. b \in Nat
        BY <1>0
      <4>2. CASE b \in Unticked /\ errors = 0
        BY <1>0, <2>1, <2>2, <3>1, <4>1, <4>2
      <4>3. CASE ~ (b \in Unticked /\ errors = 0)
        BY <1>0, <2>1, <2>2, <3>1, <4>1, <4>3
      <4>4. QED BY <4>2, <4>3
    <3>3. errors = 0 => timer' \in Nat
      BY <2>1 DEF LateInv
    <3>4. QED BY <2>1, <3>2, <3>3 DEF LateInv
  <2>5. NothingSleptThrough'
    <3> SUFFICES ASSUME errors = 0, ~slept, ~wakeEvent,
                        NEW b \in view \cup {NextLocalMidnight(now')}, b > now'
                 PROVE  now' + timer' <= b
      BY <2>1 DEF NothingSleptThrough
    <3>1. timer \in Nat
      BY <2>1 DEF LateInv
    <3>2. \A c \in view \cup {NextLocalMidnight(now)} : c > now => now + timer <= c
      BY <2>1 DEF NothingSleptThrough
    <3>3. CASE b \in view
      <4>1. b \in Nat /\ b > now
        BY <1>0, <2>2, <3>3
      <4>2. now + timer <= b
        BY <3>2, <3>3, <4>1
      <4>3. QED BY <1>0, <2>1, <2>2, <3>1, <4>1, <4>2
    <3>4. CASE b = NextLocalMidnight(now')
      <4>1. NextLocalMidnight(now) <= b /\ b \in Nat
        BY <1>0, <2>2, <3>4, MidnightGoesOn, MidnightIsNext
      <4>2. NextLocalMidnight(now) \in Nat /\ NextLocalMidnight(now) > now
        BY <1>0, MidnightIsNext
      <4>3. now + timer <= NextLocalMidnight(now)
        BY <3>2, <4>2
      <4>4. QED BY <1>0, <2>1, <2>2, <3>1, <4>1, <4>2, <4>3
    <3>5. QED BY <3>3, <3>4
  <2>6. QED BY <2>1, <2>3, <2>4, <2>5
<1>7. CASE Suspend
  <2>1. PICK t \in now + 1 .. Horizon : now' = t
    BY <1>7 DEF Suspend
  <2>2. slept' /\ UNCHANGED <<log, view, stage, timer, wakeEvent, errors, waited>>
    BY <1>7 DEF Suspend
  <2>3. now' \in Instants /\ now <= now' /\ now' \in Nat
    BY <1>0, <2>1 DEF Instants
  <2>4. LateInv'
    <3>1. \A b \in Instants : b <= now => b <= now'
      BY <1>0, <2>3
    <3>2. QED BY <2>2, <3>1 DEF LateInv
  <2>5. QED BY <2>2, <2>3, <2>4 DEF NothingSleptThrough
<1>8. CASE UNCHANGED wakeVars
  BY <1>8 DEF wakeVars, LateInv, NothingSleptThrough
<1>9. QED
  BY <1>1, <1>2, <1>3, <1>4, <1>5, <1>6, <1>7, <1>8 DEF WakeNext

\* A loop whose passes succeed is late for a boundary by at most the refresh interval of
\* waking time, and sleeps through none that its process knows.
THEOREM WokenInTimeCorrect == WakeSpec => []WokenInTime
<1>1. WakeInit => WakeInv
  <2> SUFFICES ASSUME WakeInit PROVE WakeInv
    OBVIOUS
  <2>1. 0 \in Instants /\ Refresh \in Nat
    BY WakeBoundsAssumption, PeriodsAssumption DEF Instants
  <2>2. LateInv /\ NothingSleptThrough
    BY <2>1 DEF WakeInit, LateInv, NothingSleptThrough
  <2>3. QED BY <2>1, <2>2 DEF WakeInit, WakeInv
<1>2. WakeInv => WokenInTime
  BY DEF WakeInv, LateInv, NothingSleptThrough, WokenInTime
<1>3. QED BY <1>1, <1>2, WakeStep, PTL DEF WakeSpec

=============================================================================
