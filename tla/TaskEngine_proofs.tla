--------------------------- MODULE TaskEngine_proofs ---------------------------
(***************************************************************************)
(* Proofs about TaskEngine, for every set of keys and calls, every limit   *)
(* and every bound.                                                        *)
(***************************************************************************)
EXTENDS TaskEngine, TLAPS, FiniteSetTheorems, SequenceTheorems

-----------------------------------------------------------------------------
(* What a tick does to one task                                             *)

\* A tick of one task (engine.tick) keeps its type and everything but the
\* status and its date; a finished task it leaves alone, and it finishes none.
LEMMA TickedTask ==
    ASSUME NEW task \in TaskRecord(Key), NEW now \in Nat
    PROVE  LET t == Ticked(task, now) IN
           /\ t \in TaskRecord(Key)
           /\ t.carriedFrom = task.carriedFrom
           /\ t.createdAt = task.createdAt
           /\ t.key = task.key
           /\ t.start = task.start /\ t.end = task.end /\ t.deadline = task.deadline
           /\ IsTerminal(task) => t = task
           /\ t.status # task.status => t.status \in LiveStatuses /\ ~IsTerminal(task)
<1> DEFINE Keeps(t, u) ==
        /\ u \in TaskRecord(Key)
        /\ u.carriedFrom = t.carriedFrom /\ u.createdAt = t.createdAt /\ u.key = t.key
        /\ u.start = t.start /\ u.end = t.end /\ u.deadline = t.deadline
        /\ \/ u = t
           \/ u.status \in LiveStatuses /\ t.status \in LiveStatuses
<1>1. ASSUME NEW t \in TaskRecord(Key), NEW to \in LiveStatuses, t.status \in LiveStatuses
      PROVE  Keeps(t, WithStatus(t, to, now))
  BY <1>1 DEF TaskRecord, WithStatus, Statuses, OptionalInstant
<1>2. ASSUME NEW t \in TaskRecord(Key) PROVE Keeps(t, Opened(t, now))
  BY <1>1 DEF Opened, WindowOpens, LiveStatuses
<1>3. ASSUME NEW t \in TaskRecord(Key) PROVE Keeps(t, Ended(t, now))
  BY <1>1 DEF Ended, WindowEnds, LiveStatuses
<1>4. ASSUME NEW t \in TaskRecord(Key) PROVE Keeps(t, Breached(t, now))
  BY <1>1 DEF Breached, DeadlineBreaks, LiveStatuses
<1>5. Keeps(task, Ticked(task, now))
  <2>1. ASSUME NEW t, NEW u, NEW v, Keeps(t, u), Keeps(u, v) PROVE Keeps(t, v)
    BY <2>1
  <2> HIDE DEF Keeps
  <2>2. Keeps(task, Ended(Opened(task, now), now))
    BY <1>2, <1>3, <2>1 DEF Keeps
  <2>3. QED BY <2>2, <1>4, <2>1 DEF Keeps, Ticked
<1>6. QED BY <1>5 DEF IsTerminal, LiveStatuses, TerminalStatuses

-----------------------------------------------------------------------------
(* The three shapes of a step                                               *)

(***************************************************************************)
(* What a step does to the list and the keys, whoever proposed the call:   *)
(* what is proved of it holds of TaskEngine and of the specifications that *)
(* drive the engine with calls of their own.                               *)
(***************************************************************************)
EngineStep ==
    \/ UNCHANGED <<tasks, seen>>
    \/ \E now \in Nat : Tick(now)
    \/ \E call \in ActionCall, now \in Nat, confirmed \in BOOLEAN : Apply(call, now, confirmed)

\* What the clients propose are calls, at instants.
LEMMA ClientCalls ==
    /\ \A call \in Calls : call \in ActionCall
    /\ \A now \in 0 .. MaxInstant : now \in Nat
BY CallsAssumption, BoundsAssumption

\* The clients' steps are such steps.
LEMMA NextIsStep == TypeOK /\ [Next]_vars => EngineStep
<1> SUFFICES ASSUME TypeOK, [Next]_vars PROVE EngineStep
  OBVIOUS
<1>1. ASSUME NEW call \in Calls, NEW now \in 0 .. MaxInstant, NEW confirmed \in BOOLEAN,
             Decide(call, now, confirmed)
      PROVE  EngineStep
  <2>1. call \in ActionCall /\ now \in Nat
    BY CallsAssumption, BoundsAssumption
  <2>2. QED BY <1>1, <2>1 DEF EngineStep, Decide, Supersede, Refuse, Hold
<1>2. ASSUME NEW now \in 0 .. MaxInstant, Tick(now) PROVE EngineStep
  <2>1. now \in Nat
    BY BoundsAssumption
  <2>2. QED BY <1>2, <2>1 DEF EngineStep
<1>3. QED
  BY <1>1, <1>2 DEF TypeOK, Next, Execute, Confirm, Decline, Reject, vars, EngineStep

\* t may become u when no task is added: a finished task stays as it is, and
\* none is superseded.
Kept(t, u) ==
    /\ u \in TaskRecord(Key)
    /\ u.carriedFrom = t.carriedFrom /\ u.createdAt = t.createdAt /\ u.key = t.key
    /\ u.start = t.start /\ u.end = t.end /\ u.deadline = t.deadline
    /\ IsTerminal(t) => u = t
    /\ IsMoved(u) <=> IsMoved(t)

InPlace ==
    /\ tasks' \in Seq(TaskRecord(Key))
    /\ Len(tasks') = Len(tasks)
    /\ \A i \in 1 .. Len(tasks) : Kept(tasks[i], tasks'[i])

CreateStep ==
    \E call \in ActionCall, now \in Nat, confirmed \in BOOLEAN :
        /\ Runs(call, now, confirmed)
        /\ CreateTask(call, now)
        /\ seen' = seen \cup {call.key}

MoveStep ==
    \E call \in ActionCall, now \in Nat : MoveTask(call, now)

\* A live task may be given a new status that is not a move, and an actual start.
LEMMA LiveTaskKept ==
    ASSUME NEW t \in TaskRecord(Key), NEW now \in Nat, ~IsTerminal(t)
    PROVE  /\ \A to \in Statuses \ {"RESCHEDULED", "CARRIED_FORWARD"} :
                  Kept(t, WithStatus(t, to, now))
           /\ Kept(t, [t EXCEPT !.actualStart = now])
<1>1. ASSUME NEW to \in Statuses \ {"RESCHEDULED", "CARRIED_FORWARD"}
      PROVE  Kept(t, WithStatus(t, to, now))
  <2> DEFINE u == WithStatus(t, to, now)
  <2>1. /\ u \in TaskRecord(Key) /\ u.status = to
        /\ u.carriedFrom = t.carriedFrom /\ u.createdAt = t.createdAt /\ u.key = t.key
        /\ u.start = t.start /\ u.end = t.end /\ u.deadline = t.deadline
    BY DEF WithStatus, TaskRecord, OptionalInstant
  <2> HIDE DEF u
  <2>2. ~IsMoved(u) /\ ~IsMoved(t)
    BY <2>1 DEF IsMoved, IsTerminal, TerminalStatuses
  <2>3. QED BY <2>1, <2>2 DEF Kept, u
<1>2. Kept(t, [t EXCEPT !.actualStart = now])
  <2> DEFINE u == [t EXCEPT !.actualStart = now]
  <2>1. /\ u \in TaskRecord(Key) /\ u.status = t.status
        /\ u.carriedFrom = t.carriedFrom /\ u.createdAt = t.createdAt /\ u.key = t.key
        /\ u.start = t.start /\ u.end = t.end /\ u.deadline = t.deadline
    BY DEF TaskRecord, OptionalInstant
  <2> HIDE DEF u
  <2>2. QED BY <2>1 DEF Kept, IsMoved, u
<1>3. QED BY <1>1, <1>2

\* A task that is replaced in place by one Kept allows.
LEMMA ReplaceTask ==
    ASSUME TypeOK, NEW i \in DOMAIN tasks, NEW u, Kept(tasks[i], u),
           tasks' = [tasks EXCEPT ![i] = u]
    PROVE  InPlace
<1>1. i \in 1 .. Len(tasks) /\ u \in TaskRecord(Key)
  BY DEF TypeOK, Kept
<1>2. /\ tasks' \in Seq(TaskRecord(Key))
      /\ Len(tasks') = Len(tasks)
      /\ \A j \in 1 .. Len(tasks) : tasks'[j] = IF j = i THEN u ELSE tasks[j]
  BY <1>1, ExceptSeq DEF TypeOK
<1>3. \A j \in 1 .. Len(tasks) : Kept(tasks[j], tasks[j])
  BY DEF Kept, TypeOK
<1>4. QED BY <1>1, <1>2, <1>3 DEF InPlace

\* A decision that does not add a task and a tick keep the list's shape; the
\* other steps create a task or supersede one (mutators.py).
LEMMA StepShape ==
    ASSUME TypeOK, EngineStep
    PROVE  /\ seen \subseteq seen'
           /\ InPlace \/ CreateStep \/ MoveStep
<1> USE DEF TypeOK
<1>0. \A i \in DOMAIN tasks : tasks[i] \in TaskRecord(Key)
  OBVIOUS
<1>1. ASSUME NEW i \in DOMAIN tasks, NEW to \in Statuses, NEW now \in Nat,
             ~IsTerminal(tasks[i]), to \notin {"RESCHEDULED", "CARRIED_FORWARD"}
      PROVE  Kept(tasks[i], WithStatus(tasks[i], to, now))
  BY <1>0, <1>1, LiveTaskKept
<1>2. \A i \in DOMAIN tasks, to \in Statuses :
          CanTransition(tasks[i].status, to) => ~IsTerminal(tasks[i])
  BY DEF CanTransition, Transitions, IsTerminal, TerminalStatuses, Statuses, TaskRecord
<1>3. UNCHANGED tasks => InPlace
  BY DEF InPlace, Kept
<1>4. ASSUME NEW call \in ActionCall, NEW now \in Nat, NEW confirmed \in BOOLEAN,
             Apply(call, now, confirmed)
      PROVE  seen \subseteq seen' /\ (InPlace \/ CreateStep \/ MoveStep)
  <2>0. now \in Nat /\ seen \subseteq seen'
    BY <1>4 DEF Apply
  <2>1. CASE CreateTask(call, now)
    BY <1>4, <2>0, <2>1 DEF Apply, CreateStep
  <2>2. CASE StartTask(call, now)
    <3>1. /\ call.task \in DOMAIN tasks
          /\ ~IsTerminal(tasks[call.task])
          /\ tasks' = [tasks EXCEPT ![call.task] = [@ EXCEPT !.actualStart = now]]
      BY <2>2 DEF StartTask, CanStart, Known
    <3>2. Kept(tasks[call.task], [tasks[call.task] EXCEPT !.actualStart = now])
      BY <1>0, <2>0, <3>1, LiveTaskKept
    <3>3. QED BY <2>0, <3>1, <3>2, ReplaceTask
  <2>3. CASE CompleteTask(call, now)
    <3> DEFINE to == CompletionStatus(tasks[call.task])
    <3>1. to \in Statuses /\ to \notin {"RESCHEDULED", "CARRIED_FORWARD"}
      BY DEF CompletionStatus, Statuses, TerminalStatuses
    <3>2. Kept(tasks[call.task], WithStatus(tasks[call.task], to, now))
      BY <1>1, <1>2, <2>0, <2>3, <3>1 DEF CompleteTask, CanComplete, Known
    <3>3. QED BY <2>0, <2>3, <3>2, ReplaceTask DEF CompleteTask, CanComplete, Known
  <2>4. CASE MoveTask(call, now)
    BY <2>0, <2>4 DEF MoveStep
  <2>5. CASE CancelTask(call, now)
    <3> DEFINE to == CancelledStatus(call)
    <3>1. to \in Statuses /\ to \notin {"RESCHEDULED", "CARRIED_FORWARD"}
      BY DEF CancelledStatus, Statuses, TerminalStatuses
    <3>2. Kept(tasks[call.task], WithStatus(tasks[call.task], to, now))
      BY <1>1, <1>2, <2>0, <2>5, <3>1 DEF CancelTask, CanCancel, Known
    <3>3. QED BY <2>0, <2>5, <3>2, ReplaceTask DEF CancelTask, CanCancel, Known
  <2>6. QED BY <1>4, <2>1, <2>2, <2>3, <2>4, <2>5 DEF Apply
<1>5. ASSUME NEW now \in Nat, Tick(now)
      PROVE  seen \subseteq seen' /\ InPlace
  <2>1. /\ Len(tasks') = Len(tasks)
        /\ \A i \in 1 .. Len(tasks) : tasks'[i] = Ticked(tasks[i], now)
    BY <1>5 DEF Tick
  <2>2. \A i \in 1 .. Len(tasks) : Kept(tasks[i], Ticked(tasks[i], now))
    <3> SUFFICES ASSUME NEW i \in 1 .. Len(tasks) PROVE Kept(tasks[i], Ticked(tasks[i], now))
      OBVIOUS
    <3>1. tasks[i] \in TaskRecord(Key) /\ now \in Nat
      OBVIOUS
    <3>2. QED BY <3>1, TickedTask DEF Kept, IsMoved, IsTerminal, TerminalStatuses, LiveStatuses
  <2>3. [i \in DOMAIN tasks |-> Ticked(tasks[i], now)] \in Seq(TaskRecord(Key))
    BY <2>2 DEF Kept
  <2>4. QED BY <1>5, <2>1, <2>2, <2>3 DEF Tick, InPlace
<1>6. CASE UNCHANGED <<tasks, seen>>
  <2>1. tasks' = tasks /\ seen \subseteq seen'
    BY <1>6
  <2>2. QED BY <1>3, <2>1
<1>7. QED BY <1>4, <1>5, <1>6 DEF EngineStep

\* A new task has the type of a task.
LEMMA NewTaskType ==
    ASSUME NEW start \in OptionalInstant, NEW end \in OptionalInstant,
           NEW deadline \in OptionalInstant, NEW parent \in Nat, NEW now \in Nat,
           NEW key \in Key \cup {NoKey}
    PROVE  NewTask(start, end, deadline, parent, now, key) \in TaskRecord(Key)
BY DEF NewTask, TaskRecord, InitialStatus, Statuses, LiveStatuses, OptionalInstant, Instant

\* What a CreateStep makes of the list (mutators.create_task).
LEMMA CreateShape ==
    ASSUME TypeOK, NEW call \in ActionCall, NEW now \in Nat, CreateTask(call, now)
    PROVE  LET n == Len(tasks) + 1 IN
           /\ tasks' \in Seq(TaskRecord(Key))
           /\ Len(tasks') = n
           /\ \A i \in 1 .. Len(tasks) : tasks'[i] = tasks[i]
           /\ tasks'[n].carriedFrom = NoTask
           /\ tasks'[n].createdAt = now
           /\ tasks'[n].key = call.key
           /\ tasks'[n].start = call.start /\ tasks'[n].end = call.end
           /\ tasks'[n].status \in LiveStatuses
<1> DEFINE new == NewTask(call.start, call.end, call.deadline, NoTask, now, call.key)
<1>1. tasks \in Seq(TaskRecord(Key)) /\ call \in ActionCall /\ now \in Nat
  BY DEF TypeOK
<1>2. new \in TaskRecord(Key)
  BY <1>1, NewTaskType DEF ActionCall, NoTask
<1>3. /\ new.carriedFrom = NoTask /\ new.createdAt = now /\ new.key = call.key
      /\ new.start = call.start /\ new.end = call.end
      /\ new.status \in LiveStatuses
  BY DEF NewTask, InitialStatus, LiveStatuses
<1> HIDE DEF new
<1>4. tasks' = Append(tasks, new)
  BY DEF CreateTask, new
<1>5. QED BY <1>1, <1>2, <1>3, <1>4

\* What a move makes of it: the task is superseded now, by a task that points
\* back to it and has no key (mutators._relocate).
LEMMA MoveShape ==
    ASSUME TypeOK, NEW call \in ActionCall, NEW now \in Nat, MoveTask(call, now)
    PROVE  LET n == Len(tasks) + 1
               p == call.task IN
           /\ tasks' \in Seq(TaskRecord(Key))
           /\ Len(tasks') = n
           /\ p \in 1 .. Len(tasks)
           /\ ~IsTerminal(tasks[p])
           /\ Cardinality(RecentMoves(p, now)) < MaxMoves
           /\ \A i \in 1 .. Len(tasks) : i # p => tasks'[i] = tasks[i]
           /\ IsMoved(tasks'[p]) /\ tasks'[p].lastTransitionAt = now
           /\ tasks'[p].carriedFrom = tasks[p].carriedFrom
           /\ tasks'[p].createdAt = tasks[p].createdAt
           /\ tasks'[p].key = tasks[p].key
           /\ tasks'[p].start = tasks[p].start /\ tasks'[p].end = tasks[p].end
           /\ tasks'[p].deadline = tasks[p].deadline
           /\ tasks'[n].carriedFrom = p
           /\ tasks'[n].createdAt = now
           /\ tasks'[n].key = NoKey
           /\ tasks'[n].start = call.start /\ tasks'[n].end = call.end
           /\ tasks'[n].status \in LiveStatuses
<1> DEFINE new == NewTask(call.start, call.end, DeadlineAfter(call), call.task, now, NoKey)
           old == WithStatus(tasks[call.task], MovedStatus(call), now)
           moved == [tasks EXCEPT ![call.task] = old]
<1>1. /\ tasks \in Seq(TaskRecord(Key)) /\ call \in ActionCall /\ now \in Nat
      /\ call.task \in 1 .. Len(tasks)
  BY DEF TypeOK, MoveTask, CanMove, Known
<1>2. tasks[call.task] \in TaskRecord(Key)
  BY <1>1
<1>3. DeadlineAfter(call) \in OptionalInstant
  BY <1>1, <1>2 DEF DeadlineAfter, ActionCall, TaskRecord
<1>4. new \in TaskRecord(Key)
  BY <1>1, <1>3, NewTaskType DEF ActionCall
<1>5. /\ new.carriedFrom = call.task /\ new.key = NoKey /\ new.status \in LiveStatuses
      /\ new.createdAt = now
      /\ new.start = call.start /\ new.end = call.end
  BY DEF NewTask, InitialStatus, LiveStatuses
<1>6. old \in TaskRecord(Key) /\ IsMoved(old) /\ old.lastTransitionAt = now
  <2>1. MovedStatus(call) \in Statuses /\ MovedStatus(call) \in {"RESCHEDULED", "CARRIED_FORWARD"}
    BY DEF MovedStatus, Statuses, TerminalStatuses
  <2>2. old.status = MovedStatus(call) /\ old.lastTransitionAt = now
    BY <1>2 DEF WithStatus, TaskRecord
  <2>3. old \in TaskRecord(Key)
    BY <1>1, <1>2, <2>1 DEF WithStatus, TaskRecord, OptionalInstant
  <2>4. QED BY <2>1, <2>2, <2>3 DEF IsMoved
<1>7. /\ old.carriedFrom = tasks[call.task].carriedFrom
      /\ old.createdAt = tasks[call.task].createdAt
      /\ old.key = tasks[call.task].key
      /\ old.start = tasks[call.task].start /\ old.end = tasks[call.task].end
      /\ old.deadline = tasks[call.task].deadline
  BY <1>2 DEF WithStatus, TaskRecord
<1>8. ~IsTerminal(tasks[call.task])
  BY <1>2 DEF MoveTask, CanMove, CanTransition, Transitions, IsTerminal, TerminalStatuses, Statuses, TaskRecord
<1>9. Cardinality(RecentMoves(call.task, now)) < MaxMoves
  BY DEF MoveTask, CanMove
<1> HIDE DEF new, old
<1>10. /\ moved \in Seq(TaskRecord(Key))
       /\ Len(moved) = Len(tasks)
       /\ \A j \in 1 .. Len(tasks) : moved[j] = IF j = call.task THEN old ELSE tasks[j]
  BY <1>1, <1>6, ExceptSeq
<1>11. tasks' = Append(moved, new)
  BY DEF MoveTask, new, old
<1> HIDE DEF moved
<1>12. /\ tasks' \in Seq(TaskRecord(Key))
       /\ Len(tasks') = Len(tasks) + 1
       /\ \A j \in 1 .. Len(tasks) : tasks'[j] = moved[j]
       /\ tasks'[Len(tasks) + 1] = new
  BY <1>1, <1>4, <1>10, <1>11
<1>13. /\ \A j \in 1 .. Len(tasks) : j # call.task => tasks'[j] = tasks[j]
       /\ tasks'[call.task] = old
  BY <1>1, <1>10, <1>12
<1>14. QED BY <1>1, <1>5, <1>6, <1>7, <1>8, <1>9, <1>12, <1>13

-----------------------------------------------------------------------------
(* Type correctness                                                         *)

\* Every step keeps the declared types.
LEMMA ListStep ==
    ASSUME TypeOK, EngineStep
    PROVE  tasks' \in Seq(TaskRecord(Key)) /\ seen' \subseteq Key
<1>1. tasks' \in Seq(TaskRecord(Key))
  <2>1. CASE InPlace
    BY <2>1 DEF InPlace
  <2>2. CASE CreateStep
    BY <2>2, CreateShape DEF CreateStep
  <2>3. CASE MoveStep
    BY <2>3, MoveShape DEF MoveStep
  <2>4. QED BY <2>1, <2>2, <2>3, StepShape
<1>2. seen' \subseteq Key
  <2>1. \A call \in ActionCall : call.key \in Key
    BY DEF ActionCall
  <2>2. QED BY <2>1 DEF TypeOK, EngineStep, Apply, Tick
<1>3. QED BY <1>1, <1>2

\* ... and the holds are calls that clients may propose.
LEMMA TypeStep == TypeOK /\ [Next]_vars => TypeOK'
<1> SUFFICES ASSUME TypeOK, [Next]_vars PROVE TypeOK'
  OBVIOUS
<1>1. tasks' \in Seq(TaskRecord(Key))
  BY NextIsStep, ListStep
<1>2. \A call \in Calls : call.key \in Key
  BY CallsAssumption DEF ActionCall
<1>3. seen' \subseteq Key /\ pending' \subseteq Calls
  BY <1>2 DEF TypeOK, Next, Execute, Confirm, Decide, Apply, Supersede, Refuse, Hold,
              Decline, Reject, Tick, Released, vars
<1>4. QED BY <1>1, <1>3 DEF TypeOK

\* Every state of the engine has the declared types.
THEOREM TypeCorrect == Spec => []TypeOK
<1>1. Init => TypeOK
  BY DEF Init, TypeOK
<1>2. QED BY <1>1, TypeStep, PTL DEF Spec

-----------------------------------------------------------------------------
(* A lineage is a chain                                                     *)

\* Every step keeps the lineages chains (_relocate is the only way to point a
\* task at another, and it supersedes the one it points at).
LEMMA ChainStep == TypeOK /\ LineageIsAChain /\ EngineStep => LineageIsAChain'
<1> SUFFICES ASSUME TypeOK, LineageIsAChain, EngineStep PROVE LineageIsAChain'
  OBVIOUS
<1>0. /\ DOMAIN tasks = 1 .. Len(tasks) /\ Len(tasks) \in Nat
      /\ \A i \in 1 .. Len(tasks) : tasks[i].carriedFrom \in Nat
  <2>1. \A i \in 1 .. Len(tasks) : tasks[i] \in TaskRecord(Key)
    BY DEF TypeOK
  <2>2. QED BY <2>1 DEF TypeOK, TaskRecord
<1>1. \A t \in TaskRecord(Key) : t.status \in LiveStatuses => ~IsMoved(t)
  BY DEF IsMoved, LiveStatuses
<1>2. CASE InPlace
  <2>1. DOMAIN tasks' = 1 .. Len(tasks)
    BY <1>2 DEF InPlace
  <2>2. \A i \in 1 .. Len(tasks) :
          /\ tasks'[i].carriedFrom = tasks[i].carriedFrom
          /\ IsMoved(tasks'[i]) <=> IsMoved(tasks[i])
    BY <1>2 DEF InPlace, Kept
  <2>3. QED BY <1>0, <2>1, <2>2 DEF LineageIsAChain, NoTask
<1>3. CASE CreateStep
  <2> DEFINE n == Len(tasks) + 1
  <2>1. /\ tasks' \in Seq(TaskRecord(Key)) /\ Len(tasks') = n
        /\ \A i \in 1 .. Len(tasks) : tasks'[i] = tasks[i]
        /\ tasks'[n].carriedFrom = NoTask /\ tasks'[n].status \in LiveStatuses
    BY <1>3, CreateShape DEF CreateStep
  <2>2. DOMAIN tasks' = 1 .. n /\ ~IsMoved(tasks'[n])
    BY <1>1, <2>1
  <2>3. /\ \A i \in 1 .. Len(tasks) : tasks'[i].carriedFrom = tasks[i].carriedFrom
        /\ \A i \in 1 .. Len(tasks) : (IsMoved(tasks'[i]) <=> IsMoved(tasks[i]))
        /\ tasks'[n].carriedFrom = 0 /\ n = Len(tasks) + 1
    BY <2>1 DEF NoTask
  <2> HIDE DEF n
  <2>4. \A i \in 1 .. n : tasks'[i].carriedFrom < i
    BY <1>0, <2>3 DEF LineageIsAChain
  <2>5. \A i \in 1 .. n : IsMoved(tasks'[i]) <=> \E j \in 1 .. n : tasks'[j].carriedFrom = i
    <3>1. ASSUME NEW i \in 1 .. Len(tasks)
          PROVE  IsMoved(tasks'[i]) <=> \E j \in 1 .. n : tasks'[j].carriedFrom = i
      <4>1. IsMoved(tasks'[i]) <=> \E j \in 1 .. Len(tasks) : tasks[j].carriedFrom = i
        BY <1>0, <2>3 DEF LineageIsAChain
      <4>2. \A j \in 1 .. n :
              tasks'[j].carriedFrom = i => j \in 1 .. Len(tasks) /\ tasks[j].carriedFrom = i
        BY <1>0, <2>3
      <4>3. \A j \in 1 .. Len(tasks) :
              tasks[j].carriedFrom = i => j \in 1 .. n /\ tasks'[j].carriedFrom = i
        BY <1>0, <2>3
      <4>4. QED BY <4>1, <4>2, <4>3
    <3>2. ASSUME NEW j \in 1 .. n PROVE tasks'[j].carriedFrom # n
      <4>1. tasks'[j].carriedFrom < j /\ j <= n /\ j \in Int /\ n \in Int
        BY <1>0, <2>3, <2>4
      <4>2. QED BY <4>1
    <3>3. \A i \in 1 .. n : i \in 1 .. Len(tasks) \/ i = n
      BY <1>0, <2>3
    <3>4. QED BY <2>2, <3>1, <3>2, <3>3
  <2>6. \A j, k \in 1 .. n :
          tasks'[j].carriedFrom = tasks'[k].carriedFrom /\ tasks'[j].carriedFrom # 0 => j = k
    <3> SUFFICES ASSUME NEW j \in 1 .. n, NEW k \in 1 .. n,
                        tasks'[j].carriedFrom = tasks'[k].carriedFrom,
                        tasks'[j].carriedFrom # 0
                 PROVE  j = k
      OBVIOUS
    <3>1. j \in 1 .. Len(tasks) /\ k \in 1 .. Len(tasks)
      BY <1>0, <2>3
    <3>2. tasks[j].carriedFrom = tasks[k].carriedFrom /\ tasks[j].carriedFrom # NoTask
      BY <2>3, <3>1 DEF NoTask
    <3>3. QED BY <1>0, <3>1, <3>2 DEF LineageIsAChain
  <2>7. QED BY <2>2, <2>4, <2>5, <2>6 DEF LineageIsAChain, NoTask
<1>4. CASE MoveStep
  <2> DEFINE n == Len(tasks) + 1
  <2>1. PICK p \in 1 .. Len(tasks) :
          /\ tasks' \in Seq(TaskRecord(Key)) /\ Len(tasks') = n
          /\ ~IsTerminal(tasks[p])
          /\ \A i \in 1 .. Len(tasks) : i # p => tasks'[i] = tasks[i]
          /\ IsMoved(tasks'[p]) /\ tasks'[p].carriedFrom = tasks[p].carriedFrom
          /\ tasks'[n].carriedFrom = p /\ tasks'[n].status \in LiveStatuses
    BY <1>4, MoveShape DEF MoveStep
  <2>2. DOMAIN tasks' = 1 .. n /\ ~IsMoved(tasks'[n])
    BY <1>1, <2>1
  <2>3. ~IsMoved(tasks[p])
    BY <2>1 DEF IsMoved, IsTerminal, TerminalStatuses
  <2>4. /\ \A i \in 1 .. Len(tasks) : tasks'[i].carriedFrom = tasks[i].carriedFrom
        /\ \A i \in 1 .. Len(tasks) : i # p => (IsMoved(tasks'[i]) <=> IsMoved(tasks[i]))
        /\ IsMoved(tasks'[p]) /\ tasks'[n].carriedFrom = p
    BY <2>1
  <2> HIDE DEF n
  <2>5. /\ n \in Nat /\ n = Len(tasks) + 1
        /\ \A j \in 1 .. Len(tasks) : tasks[j].carriedFrom # p
    BY <1>0, <2>3 DEF LineageIsAChain, n
  <2>6. \A i \in 1 .. n : tasks'[i].carriedFrom < i
    BY <1>0, <2>4, <2>5 DEF LineageIsAChain
  <2>7. \A i \in 1 .. n : IsMoved(tasks'[i]) <=> \E j \in 1 .. n : tasks'[j].carriedFrom = i
    <3>1. ASSUME NEW i \in 1 .. Len(tasks), i # p
          PROVE  IsMoved(tasks'[i]) <=> \E j \in 1 .. n : tasks'[j].carriedFrom = i
      <4>1. IsMoved(tasks'[i]) <=> \E j \in 1 .. Len(tasks) : tasks[j].carriedFrom = i
        BY <1>0, <2>4, <3>1 DEF LineageIsAChain
      <4>2. \A j \in 1 .. n :
              tasks'[j].carriedFrom = i => j \in 1 .. Len(tasks) /\ tasks[j].carriedFrom = i
        <5> SUFFICES ASSUME NEW j \in 1 .. n, tasks'[j].carriedFrom = i
                     PROVE  j \in 1 .. Len(tasks) /\ tasks[j].carriedFrom = i
          OBVIOUS
        <5>1. j # n
          BY <2>4, <3>1
        <5>2. j \in 1 .. Len(tasks)
          BY <1>0, <2>5, <5>1
        <5>3. QED BY <2>4, <5>2
      <4>3. \A j \in 1 .. Len(tasks) :
              tasks[j].carriedFrom = i => j \in 1 .. n /\ tasks'[j].carriedFrom = i
        BY <1>0, <2>4, <2>5
      <4>4. QED BY <4>1, <4>2, <4>3
    <3>2. IsMoved(tasks'[p]) <=> \E j \in 1 .. n : tasks'[j].carriedFrom = p
      BY <1>0, <2>4, <2>5
    <3>3. IsMoved(tasks'[n]) <=> \E j \in 1 .. n : tasks'[j].carriedFrom = n
      <4>1. \A j \in 1 .. n : tasks'[j].carriedFrom # n
        BY <1>0, <2>5, <2>6
      <4>2. QED BY <2>2, <4>1
    <3>4. QED BY <1>0, <2>5, <3>1, <3>2, <3>3
  <2>8. \A j, k \in 1 .. n :
          tasks'[j].carriedFrom = tasks'[k].carriedFrom /\ tasks'[j].carriedFrom # NoTask => j = k
    <3> SUFFICES ASSUME NEW j \in 1 .. n, NEW k \in 1 .. n,
                        tasks'[j].carriedFrom = tasks'[k].carriedFrom,
                        tasks'[j].carriedFrom # NoTask
                 PROVE  j = k
      OBVIOUS
    <3>1. CASE j \in 1 .. Len(tasks) /\ k \in 1 .. Len(tasks)
      <4>1. tasks[j].carriedFrom = tasks[k].carriedFrom /\ tasks[j].carriedFrom # NoTask
        BY <2>4, <3>1
      <4>2. QED BY <1>0, <3>1, <4>1 DEF LineageIsAChain
    <3>2. CASE j = n /\ k \in 1 .. Len(tasks)
      BY <2>4, <2>5, <3>2
    <3>3. CASE j \in 1 .. Len(tasks) /\ k = n
      BY <2>4, <2>5, <3>3
    <3>4. QED BY <1>0, <2>5, <3>1, <3>2, <3>3
  <2>9. QED BY <2>2, <2>6, <2>7, <2>8 DEF LineageIsAChain
<1>5. QED BY <1>2, <1>3, <1>4, StepShape

\* A moved task is never lost and never doubled.
THEOREM ChainCorrect == Spec => []LineageIsAChain
<1>1. Init => LineageIsAChain
  BY DEF Init, LineageIsAChain
<1>2. QED BY <1>1, TypeCorrect, ChainStep, NextIsStep, PTL DEF Spec

-----------------------------------------------------------------------------
(* Ancestors                                                                *)

\* S holds what a walk from i visits.
ClosedFrom(ts, S, i) == \A k \in S \cup {i} : ts[k].carriedFrom \in S \cup {NoTask}

Backward(ts) == \A i \in DOMAIN ts : ts[i].carriedFrom \in Nat /\ ts[i].carriedFrom < i

\* The walk from a task visits the same tasks when the list has grown and no
\* carried_from has changed.
LEMMA AncestorsKept ==
    ASSUME NEW ts, NEW us, NEW n \in Nat, NEW m \in Nat, n <= m,
           DOMAIN ts = 1 .. n, DOMAIN us = 1 .. m, Backward(ts),
           \A i \in 1 .. n : us[i].carriedFrom = ts[i].carriedFrom,
           NEW i \in 1 .. n
    PROVE  Ancestors(us, i) = Ancestors(ts, i)
<1>1. \A j \in DOMAIN ts : j \in Ancestors(ts, i) <=>
          \A S \in SUBSET DOMAIN ts : ClosedFrom(ts, S, i) => j \in S
  BY DEF Ancestors, ClosedFrom
<1>2. \A j \in DOMAIN us : j \in Ancestors(us, i) <=>
          \A S \in SUBSET DOMAIN us : ClosedFrom(us, S, i) => j \in S
  BY DEF Ancestors, ClosedFrom
<1>3. \A S \in SUBSET (1 .. n) : ClosedFrom(us, S, i) <=> ClosedFrom(ts, S, i)
  BY DEF ClosedFrom
<1>4. \A S \in SUBSET (1 .. m) : ClosedFrom(us, S, i) => ClosedFrom(ts, S \cap (1 .. n), i)
  BY DEF ClosedFrom, Backward, NoTask
<1>5. ClosedFrom(ts, 1 .. n, i)
  BY DEF ClosedFrom, Backward, NoTask
<1>6. ASSUME NEW j \in Ancestors(us, i) PROVE j \in Ancestors(ts, i)
  <2>1. j \in DOMAIN us
    BY DEF Ancestors
  <2>2. \A S \in SUBSET (1 .. n) : S \in SUBSET (1 .. m)
    OBVIOUS
  <2>3. \A S \in SUBSET (1 .. n) : ClosedFrom(ts, S, i) => j \in S
    BY <1>2, <1>3, <2>1, <2>2
  <2>4. j \in 1 .. n
    BY <1>5, <2>3
  <2>5. QED BY <1>1, <2>3, <2>4
<1>7. ASSUME NEW j \in Ancestors(ts, i) PROVE j \in Ancestors(us, i)
  <2>1. j \in DOMAIN ts
    BY DEF Ancestors
  <2>2. ASSUME NEW S \in SUBSET (1 .. m), ClosedFrom(us, S, i) PROVE j \in S
    <3>1. ClosedFrom(ts, S \cap (1 .. n), i) /\ S \cap (1 .. n) \in SUBSET (1 .. n)
      BY <1>4, <2>2
    <3>2. QED BY <1>1, <2>1, <3>1
  <2>3. j \in DOMAIN us
    BY <2>1
  <2>4. \A S \in SUBSET DOMAIN us : ClosedFrom(us, S, i) => j \in S
    BY <2>2
  <2>5. QED BY ONLY <1>2, <2>3, <2>4
<1>8. QED BY <1>6, <1>7

\* The walk from a task visits its parent and then what the walk from the
\* parent visits.
LEMMA AncestorsOfChild ==
    ASSUME NEW us, NEW i \in DOMAIN us, NEW p \in DOMAIN us, us[i].carriedFrom = p,
           NoTask \notin DOMAIN us,
           \A k \in DOMAIN us : us[k].carriedFrom \in DOMAIN us \cup {NoTask}
    PROVE  Ancestors(us, i) = {p} \cup Ancestors(us, p)
<1>1. \A k \in DOMAIN us, j \in DOMAIN us : j \in Ancestors(us, k) <=>
          \A S \in SUBSET DOMAIN us : ClosedFrom(us, S, k) => j \in S
  BY DEF Ancestors, ClosedFrom
<1>2. Ancestors(us, p) \subseteq DOMAIN us /\ Ancestors(us, i) \subseteq DOMAIN us
  BY DEF Ancestors
<1>3. \A k \in {p} \cup Ancestors(us, p) :
          us[k].carriedFrom \in Ancestors(us, p) \cup {NoTask}
  <2> SUFFICES ASSUME NEW k \in {p} \cup Ancestors(us, p), us[k].carriedFrom # NoTask
               PROVE  us[k].carriedFrom \in Ancestors(us, p)
    OBVIOUS
  <2>1. us[k].carriedFrom \in DOMAIN us /\ k \in DOMAIN us
    BY <1>2
  <2>2. ASSUME NEW S \in SUBSET DOMAIN us, ClosedFrom(us, S, p)
        PROVE  us[k].carriedFrom \in S
    <3>1. k \in S \cup {p}
      BY <1>1, <2>1, <2>2
    <3>2. QED BY <2>1, <2>2, <3>1 DEF ClosedFrom
  <2>3. QED BY <1>1, <2>1, <2>2
<1>4. ASSUME NEW j \in Ancestors(us, i) PROVE j \in {p} \cup Ancestors(us, p)
  <2> DEFINE S == {p} \cup Ancestors(us, p)
  <2>1. S \in SUBSET DOMAIN us /\ ClosedFrom(us, S, i)
    BY <1>2, <1>3 DEF ClosedFrom
  <2>2. QED BY <1>1, <1>2, <2>1
<1>5. ASSUME NEW j \in {p} \cup Ancestors(us, p) PROVE j \in Ancestors(us, i)
  <2>1. ASSUME NEW S \in SUBSET DOMAIN us, ClosedFrom(us, S, i) PROVE j \in S
    <3>1. p \in S
      BY <2>1 DEF ClosedFrom
    <3>2. ClosedFrom(us, S, p)
      BY <2>1, <3>1 DEF ClosedFrom
    <3>3. QED BY <1>1, <1>2, <3>1, <3>2, <2>1
  <2>2. QED BY <1>1, <1>2, <2>1
<1>6. QED BY <1>4, <1>5

-----------------------------------------------------------------------------
(* What no step changes                                                     *)

\* The typed shape of the list, spelt out once.
LEMMA ListShape ==
    ASSUME TypeOK
    PROVE  /\ DOMAIN tasks = 1 .. Len(tasks) /\ Len(tasks) \in Nat
           /\ \A i \in 1 .. Len(tasks) :
                 /\ tasks[i] \in TaskRecord(Key)
                 /\ tasks[i].carriedFrom \in Nat /\ tasks[i].createdAt \in Nat
                 /\ tasks[i].key \in Key \cup {NoKey}
<1>1. \A i \in 1 .. Len(tasks) : tasks[i] \in TaskRecord(Key)
  BY DEF TypeOK
<1>2. QED BY <1>1 DEF TypeOK, TaskRecord, Instant

\* No step forgets a task, reopens a finished one or rewrites what its
\* TASK_CREATED event said of it.
LEMMA OldTasks ==
    ASSUME TypeOK, EngineStep, NEW i \in 1 .. Len(tasks)
    PROVE  /\ i \in DOMAIN tasks' /\ Len(tasks) <= Len(tasks')
           /\ IsTerminal(tasks[i]) => tasks'[i] = tasks[i]
           /\ tasks'[i].carriedFrom = tasks[i].carriedFrom
           /\ tasks'[i].createdAt = tasks[i].createdAt
           /\ tasks'[i].key = tasks[i].key
           /\ tasks'[i].start = tasks[i].start /\ tasks'[i].end = tasks[i].end
           /\ tasks'[i].deadline = tasks[i].deadline
<1>0. Len(tasks) \in Nat
  BY ListShape
<1>1. CASE InPlace
  BY <1>0, <1>1 DEF InPlace, Kept
<1>2. CASE CreateStep
  BY <1>0, <1>2, CreateShape DEF CreateStep
<1>3. CASE MoveStep
  <2>1. PICK p \in 1 .. Len(tasks) :
          /\ tasks' \in Seq(TaskRecord(Key)) /\ Len(tasks') = Len(tasks) + 1
          /\ ~IsTerminal(tasks[p])
          /\ \A j \in 1 .. Len(tasks) : j # p => tasks'[j] = tasks[j]
          /\ tasks'[p].carriedFrom = tasks[p].carriedFrom
          /\ tasks'[p].createdAt = tasks[p].createdAt
          /\ tasks'[p].key = tasks[p].key
          /\ tasks'[p].start = tasks[p].start /\ tasks'[p].end = tasks[p].end
          /\ tasks'[p].deadline = tasks[p].deadline
    BY <1>3, MoveShape DEF MoveStep
  <2>2. QED BY <1>0, <2>1
<1>4. QED BY <1>1, <1>2, <1>3, StepShape

\* A finished task never changes again.
THEOREM FinalCorrect == Spec => FinishedIsFinal
<1>1. TypeOK /\ [Next]_vars =>
        [\A i \in DOMAIN tasks :
            IsTerminal(tasks[i]) => i \in DOMAIN tasks' /\ tasks'[i] = tasks[i]]_vars
  BY NextIsStep, OldTasks, ListShape
<1>2. QED BY <1>1, TypeCorrect, PTL DEF Spec, FinishedIsFinal

-----------------------------------------------------------------------------
(* The move rate limit                                                      *)

\* Every ancestor was superseded, so it is finished and its date is fixed.
LEMMA AncestorsAreMoved ==
    ASSUME TypeOK, LineageIsAChain, NEW i \in 1 .. Len(tasks)
    PROVE  \A j \in Ancestors(tasks, i) : IsMoved(tasks[j]) /\ IsTerminal(tasks[j])
<1> DEFINE S == {j \in DOMAIN tasks : IsMoved(tasks[j])}
<1>1. ClosedFrom(tasks, S, i)
  BY ListShape DEF ClosedFrom, LineageIsAChain, NoTask
<1>2. \A j \in Ancestors(tasks, i) : j \in S
  BY <1>1 DEF Ancestors, ClosedFrom
<1>3. QED BY <1>2 DEF IsMoved, IsTerminal, TerminalStatuses

\* A set of positions in the list is finite.
LEMMA PositionsFinite ==
    ASSUME TypeOK, NEW S \in SUBSET DOMAIN tasks
    PROVE  IsFiniteSet(S) /\ Cardinality(S) \in Nat
<1>1. DOMAIN tasks = 1 .. Len(tasks) /\ Len(tasks) \in Nat
  BY ListShape
<1>2. IsFiniteSet(1 .. Len(tasks))
  BY <1>1, FS_Interval
<1>3. IsFiniteSet(S)
  BY <1>1, <1>2, FS_Subset
<1>4. QED BY <1>3, FS_CardinalityType

\* The walk of a task that was there before the step visits the same tasks
\* after it, and they have the same dates.
LEMMA OldWalks ==
    ASSUME TypeOK, LineageIsAChain, EngineStep, TypeOK', NEW i \in 1 .. Len(tasks)
    PROVE  /\ Ancestors(tasks', i) = Ancestors(tasks, i)
           /\ \A j \in Ancestors(tasks, i) : tasks'[j] = tasks[j]
<1>1. Backward(tasks)
  BY ListShape DEF Backward, LineageIsAChain
<1>2. /\ Len(tasks) \in Nat /\ DOMAIN tasks = 1 .. Len(tasks)
      /\ Len(tasks') \in Nat /\ DOMAIN tasks' = 1 .. Len(tasks')
  BY ListShape DEF TypeOK
<1>3. \A k \in 1 .. Len(tasks) :
          /\ tasks'[k].carriedFrom = tasks[k].carriedFrom
          /\ IsTerminal(tasks[k]) => tasks'[k] = tasks[k]
          /\ Len(tasks) <= Len(tasks')
  BY OldTasks
<1>4. Ancestors(tasks', i) = Ancestors(tasks, i)
  BY <1>1, <1>2, <1>3, AncestorsKept
<1>5. Ancestors(tasks, i) \subseteq 1 .. Len(tasks)
  BY <1>2 DEF Ancestors
<1>6. QED BY <1>3, <1>4, <1>5, AncestorsAreMoved

\* A move at now, admitted by the cap, leaves at most MaxMoves moves of the
\* new task's lineage in every window: a window that holds now holds, of the
\* earlier moves, only some that RecentMoves counted.
LEMMA MoveAdmitted ==
    ASSUME TypeOK, LineageIsAChain, MoveCap, TypeOK', EngineStep,
           NEW call \in ActionCall, NEW now \in Nat, MoveTask(call, now),
           NEW from \in 0 .. MaxInstant
    PROVE  Cardinality(MovesWithin(tasks', Len(tasks) + 1, from, from + MoveWindow)) <= MaxMoves
<1> DEFINE n == Len(tasks) + 1
           p == call.task
           to == from + MoveWindow
           before == MovesWithin(tasks, p, from, to)
           after == MovesWithin(tasks', n, from, to)
           recent == RecentMoves(p, now)
<1>1. /\ tasks' \in Seq(TaskRecord(Key)) /\ Len(tasks') = n
      /\ p \in 1 .. Len(tasks)
      /\ Cardinality(recent) < MaxMoves
      /\ tasks'[p].lastTransitionAt = now
      /\ tasks'[n].carriedFrom = p
  BY MoveShape
<1>2. /\ Len(tasks) \in Nat /\ DOMAIN tasks = 1 .. Len(tasks)
      /\ \A k \in 1 .. Len(tasks) : tasks[k].carriedFrom \in Nat /\ tasks[k].carriedFrom < k
  BY ListShape DEF LineageIsAChain
<1>3. DOMAIN tasks' = 1 .. n
  BY <1>1, <1>2
<1>4. \A k \in 1 .. Len(tasks) : tasks'[k].carriedFrom = tasks[k].carriedFrom
  BY OldTasks
<1>5. Ancestors(tasks', n) = {p} \cup Ancestors(tasks', p)
  <2>1. \A k \in 1 .. n : tasks'[k].carriedFrom \in 1 .. n \cup {NoTask}
    BY <1>1, <1>2, <1>4 DEF NoTask
  <2>2. n \in DOMAIN tasks' /\ p \in DOMAIN tasks' /\ NoTask \notin DOMAIN tasks'
    BY <1>1, <1>2, <1>3 DEF NoTask
  <2> HIDE DEF n, p
  <2>3. QED BY <1>1, <1>3, <2>1, <2>2, AncestorsOfChild
<1>6. /\ Ancestors(tasks', n) = {p} \cup Ancestors(tasks, p)
      /\ \A j \in Ancestors(tasks, p) : tasks'[j] = tasks[j]
  BY <1>1, <1>5, OldWalks
<1>7. before \in SUBSET DOMAIN tasks /\ recent \in SUBSET DOMAIN tasks
  BY DEF MovesWithin, RecentMoves, Ancestors
<1>8. /\ IsFiniteSet(before) /\ Cardinality(before) \in Nat
      /\ IsFiniteSet(recent) /\ Cardinality(recent) \in Nat
  BY <1>7, PositionsFinite
<1>9. Cardinality(before) <= MaxMoves
  BY <1>1, <1>2 DEF MoveCap
<1>10. CASE now \notin from .. to
  <2>1. after = before
    BY <1>1, <1>6, <1>10 DEF MovesWithin
  <2>2. QED BY <1>9, <2>1
<1>11. CASE now \in from .. to
  <2>1. after \subseteq {p} \cup recent
    <3>1. \A j \in Ancestors(tasks, p) : tasks[j].lastTransitionAt \in from .. to => j \in recent
      BY <1>11, MovesAssumption, BoundsAssumption DEF RecentMoves, NoTime
    <3>2. QED BY <1>6, <3>1 DEF MovesWithin
  <2>2. /\ IsFiniteSet({p} \cup recent)
        /\ Cardinality({p} \cup recent) <= Cardinality(recent) + 1
    <3>1. IsFiniteSet(recent) /\ Cardinality(recent) \in Nat
      BY <1>8
    <3> HIDE DEF p, recent
    <3>2. /\ IsFiniteSet(recent \cup {p})
          /\ Cardinality(recent \cup {p})
               = IF p \in recent THEN Cardinality(recent) ELSE Cardinality(recent) + 1
      BY <3>1, FS_AddElement
    <3>3. {p} \cup recent = recent \cup {p}
      OBVIOUS
    <3>4. QED BY <3>1, <3>2, <3>3
  <2>3. Cardinality(after) <= Cardinality({p} \cup recent) /\ Cardinality(after) \in Nat
    BY <2>1, <2>2, FS_Subset, FS_CardinalityType
  <2>4. Cardinality({p} \cup recent) \in Nat
    BY <2>2, FS_CardinalityType
  <2>5. QED BY <1>1, <1>8, <2>2, <2>3, <2>4, MovesAssumption
<1>12. QED BY <1>10, <1>11

\* Every step keeps the move rate limit.
LEMMA MoveCapStep ==
    TypeOK /\ LineageIsAChain /\ MoveCap /\ TypeOK' /\ EngineStep => MoveCap'
<1> SUFFICES ASSUME TypeOK, LineageIsAChain, MoveCap, TypeOK', EngineStep,
                    NEW i \in DOMAIN tasks', NEW from \in 0 .. MaxInstant
             PROVE  Cardinality(MovesWithin(tasks', i, from, from + MoveWindow)) <= MaxMoves
  BY DEF MoveCap
<1>0. /\ Len(tasks) \in Nat /\ DOMAIN tasks = 1 .. Len(tasks)
      /\ Len(tasks') \in Nat /\ DOMAIN tasks' = 1 .. Len(tasks')
  BY ListShape DEF TypeOK
<1>1. CASE i \in 1 .. Len(tasks)
  <2>1. MovesWithin(tasks', i, from, from + MoveWindow)
          = MovesWithin(tasks, i, from, from + MoveWindow)
    BY <1>1, OldWalks DEF MovesWithin
  <2>2. QED BY <1>0, <1>1, <2>1 DEF MoveCap
<1>2. CASE i \notin 1 .. Len(tasks)
  <2>1. CASE InPlace
    BY <1>0, <1>2, <2>1 DEF InPlace
  <2>2. CASE CreateStep
    <3>1. tasks'[i].carriedFrom = NoTask
      <4>1. /\ Len(tasks') = Len(tasks) + 1
            /\ tasks'[Len(tasks) + 1].carriedFrom = NoTask
        BY <2>2, CreateShape DEF CreateStep
      <4>2. i = Len(tasks) + 1
        BY <1>0, <1>2, <4>1
      <4>3. QED BY <4>1, <4>2
    <3>2. Ancestors(tasks', i) = {}
      <4>1. {} \in SUBSET DOMAIN tasks' /\ \A k \in {} \cup {i} : tasks'[k].carriedFrom \in {NoTask}
        BY <3>1
      <4>2. QED BY <4>1 DEF Ancestors
    <3>3. MovesWithin(tasks', i, from, from + MoveWindow) = {}
      BY <3>2 DEF MovesWithin
    <3>4. QED BY <3>3, FS_EmptySet, MovesAssumption
  <2>3. CASE MoveStep
    <3>1. PICK call \in ActionCall, now \in Nat : MoveTask(call, now)
      BY <2>3 DEF MoveStep
    <3>2. Len(tasks') = Len(tasks) + 1
      BY <3>1, MoveShape
    <3>3. i = Len(tasks) + 1
      BY <1>0, <1>2, <3>2
    <3>4. QED BY <3>1, <3>3, MoveAdmitted
  <2>4. QED BY <2>1, <2>2, <2>3, StepShape
<1>3. QED BY <1>1, <1>2

\* No stretch of MoveWindow holds more than MaxMoves moves of one lineage.
THEOREM MoveCapCorrect == Spec => []MoveCap
<1>1. Init => MoveCap
  BY DEF Init, MoveCap
<1>2. QED BY <1>1, MoveCapStep, NextIsStep, TypeCorrect, ChainCorrect, PTL DEF Spec

-----------------------------------------------------------------------------
(* The creation limit                                                       *)

\* A create_task that the limit admitted at now leaves at most MaxCreations in
\* every window: of the earlier ones, a window that holds now holds only some
\* that CreationsSince counted.
LEMMA CreationAdmitted ==
    ASSUME TypeOK, CreationLimit, NEW call \in ActionCall, NEW now \in Nat,
           NEW confirmed \in BOOLEAN, Runs(call, now, confirmed), CreateTask(call, now),
           NEW from \in 0 .. MaxInstant
    PROVE  Cardinality(CreatedWithin(tasks', from, from + CreationWindow)) <= MaxCreations
<1> DEFINE n == Len(tasks) + 1
           to == from + CreationWindow
           before == CreatedWithin(tasks, from, to)
           after == CreatedWithin(tasks', from, to)
           recent == CreationsSince(now - CreationWindow)
<1>1. /\ tasks' \in Seq(TaskRecord(Key)) /\ Len(tasks') = n
      /\ \A i \in 1 .. Len(tasks) : tasks'[i] = tasks[i]
      /\ tasks'[n].createdAt = now
  BY CreateShape
<1>2. /\ Len(tasks) \in Nat /\ DOMAIN tasks = 1 .. Len(tasks)
      /\ \A i \in 1 .. Len(tasks) : tasks[i].createdAt \in Nat
  BY ListShape
<1>3. DOMAIN tasks' = 1 .. n
  BY <1>1, <1>2
<1>4. before \in SUBSET DOMAIN tasks /\ recent \in SUBSET DOMAIN tasks
  BY DEF CreatedWithin, CreationsSince
<1>5. /\ IsFiniteSet(before) /\ Cardinality(before) \in Nat
      /\ IsFiniteSet(recent) /\ Cardinality(recent) \in Nat
  BY <1>4, PositionsFinite
<1>6. Cardinality(before) <= MaxCreations
  BY DEF CreationLimit
<1>7. Cardinality(recent) < MaxCreations
  BY <1>5, CreationsAssumption DEF Runs, OverLimit, CreateTask, CanCreate
<1>8. CASE now \notin from .. to
  <2>1. after = before
    BY <1>1, <1>2, <1>3, <1>8 DEF CreatedWithin
  <2>2. QED BY <1>6, <2>1
<1>9. CASE now \in from .. to
  <2>1. after \subseteq {n} \cup recent
    BY <1>1, <1>2, <1>3, <1>9, CreationsAssumption, BoundsAssumption DEF CreatedWithin, CreationsSince
  <2>2. /\ IsFiniteSet({n} \cup recent)
        /\ Cardinality({n} \cup recent) <= Cardinality(recent) + 1
    <3>1. IsFiniteSet(recent) /\ Cardinality(recent) \in Nat
      BY <1>5
    <3> HIDE DEF n, recent
    <3>2. /\ IsFiniteSet(recent \cup {n})
          /\ Cardinality(recent \cup {n})
               = IF n \in recent THEN Cardinality(recent) ELSE Cardinality(recent) + 1
      BY <3>1, FS_AddElement
    <3>3. {n} \cup recent = recent \cup {n}
      OBVIOUS
    <3>4. QED BY <3>1, <3>2, <3>3
  <2>3. Cardinality(after) <= Cardinality({n} \cup recent) /\ Cardinality(after) \in Nat
    BY <2>1, <2>2, FS_Subset, FS_CardinalityType
  <2>4. Cardinality({n} \cup recent) \in Nat
    BY <2>2, FS_CardinalityType
  <2>5. QED BY <1>5, <1>7, <2>2, <2>3, <2>4, CreationsAssumption
<1>10. QED BY <1>8, <1>9

\* Every step keeps the creation limit; a move makes a task without a key.
LEMMA CreationStep == TypeOK /\ CreationLimit /\ TypeOK' /\ EngineStep => CreationLimit'
<1> SUFFICES ASSUME TypeOK, CreationLimit, TypeOK', EngineStep, NEW from \in 0 .. MaxInstant
             PROVE  Cardinality(CreatedWithin(tasks', from, from + CreationWindow)) <= MaxCreations
  BY DEF CreationLimit
<1>0. /\ Len(tasks) \in Nat /\ DOMAIN tasks = 1 .. Len(tasks)
      /\ Len(tasks') \in Nat /\ DOMAIN tasks' = 1 .. Len(tasks')
  BY ListShape DEF TypeOK
<1>1. \A i \in 1 .. Len(tasks) :
          tasks'[i].createdAt = tasks[i].createdAt /\ tasks'[i].key = tasks[i].key
  BY OldTasks
<1>2. CASE InPlace
  <2>1. CreatedWithin(tasks', from, from + CreationWindow)
          = CreatedWithin(tasks, from, from + CreationWindow)
    BY <1>0, <1>1, <1>2 DEF InPlace, CreatedWithin
  <2>2. QED BY <2>1 DEF CreationLimit
<1>3. CASE CreateStep
  BY <1>3, CreationAdmitted DEF CreateStep
<1>4. CASE MoveStep
  <2>1. Len(tasks') = Len(tasks) + 1 /\ tasks'[Len(tasks) + 1].key = NoKey
    BY <1>4, MoveShape DEF MoveStep
  <2>2. CreatedWithin(tasks', from, from + CreationWindow)
          = CreatedWithin(tasks, from, from + CreationWindow)
    BY <1>0, <1>1, <2>1 DEF CreatedWithin
  <2>3. QED BY <2>2 DEF CreationLimit
<1>5. QED BY <1>2, <1>3, <1>4, StepShape

\* No stretch of CreationWindow holds more than MaxCreations created tasks.
THEOREM CreationLimitCorrect == Spec => []CreationLimit
<1>1. Init => CreationLimit
  <2> SUFFICES ASSUME Init, NEW from \in 0 .. MaxInstant
               PROVE  Cardinality(CreatedWithin(tasks, from, from + CreationWindow)) <= MaxCreations
    BY DEF CreationLimit
  <2>1. CreatedWithin(tasks, from, from + CreationWindow) = {}
    BY DEF Init, CreatedWithin
  <2>2. QED BY <2>1, FS_EmptySet, CreationsAssumption
<1>2. QED BY <1>1, CreationStep, NextIsStep, TypeCorrect, PTL DEF Spec

-----------------------------------------------------------------------------
(* Idempotency and holds                                                    *)

\* Every step keeps the keys of the created tasks distinct and remembered.
LEMMA KeyStep == TypeOK /\ OneTaskPerKey /\ TypeOK' /\ EngineStep => OneTaskPerKey'
<1> SUFFICES ASSUME TypeOK, OneTaskPerKey, TypeOK', EngineStep PROVE OneTaskPerKey'
  OBVIOUS
<1>0. /\ Len(tasks) \in Nat /\ DOMAIN tasks = 1 .. Len(tasks)
      /\ Len(tasks') \in Nat /\ DOMAIN tasks' = 1 .. Len(tasks')
  BY ListShape DEF TypeOK
<1>1. \A i \in 1 .. Len(tasks) : tasks'[i].key = tasks[i].key
  BY OldTasks
<1>2. seen \subseteq seen'
  BY StepShape
<1>3. CASE InPlace
  BY <1>0, <1>1, <1>2, <1>3 DEF InPlace, OneTaskPerKey
<1>4. CASE CreateStep
  <2>1. PICK key \in Key :
          /\ Len(tasks') = Len(tasks) + 1 /\ tasks'[Len(tasks) + 1].key = key
          /\ key \notin seen /\ key \in seen'
    BY <1>4, CreateShape DEF CreateStep, Runs, ActionCall
  <2>2. \A i \in 1 .. Len(tasks) : tasks'[i].key # key
    BY <1>0, <1>1, <2>1, KeyAssumption DEF OneTaskPerKey
  <2>3. QED BY <1>0, <1>1, <1>2, <2>1, <2>2 DEF OneTaskPerKey
<1>5. CASE MoveStep
  <2>1. Len(tasks') = Len(tasks) + 1 /\ tasks'[Len(tasks) + 1].key = NoKey
    BY <1>5, MoveShape DEF MoveStep
  <2>2. QED BY <1>0, <1>1, <1>2, <2>1 DEF OneTaskPerKey
<1>6. QED BY <1>3, <1>4, <1>5, StepShape

\* A create_task key makes at most one task, ever.
THEOREM OneTaskPerKeyCorrect == Spec => []OneTaskPerKey
<1>1. Init => OneTaskPerKey
  BY DEF Init, OneTaskPerKey
<1>2. QED BY <1>1, KeyStep, NextIsStep, TypeCorrect, PTL DEF Spec

\* Every outcome keeps the holds apart from what was applied.
LEMMA HoldStep == HeldNotApplied /\ [Next]_vars => HeldNotApplied'
<1> SUFFICES ASSUME HeldNotApplied, [Next]_vars PROVE HeldNotApplied'
  OBVIOUS
<1>1. ASSUME NEW call, NEW now, NEW confirmed, Decide(call, now, confirmed)
      PROVE  HeldNotApplied'
  <2>1. CASE Apply(call, now, confirmed)
    BY <2>1 DEF Apply, Released, HeldNotApplied
  <2>2. CASE Supersede(call) \/ Refuse(call, now, confirmed)
    BY <2>2 DEF Supersede, Refuse, Released, HeldNotApplied
  <2>3. CASE Hold(call, confirmed)
    BY <2>3 DEF Hold, Released, HeldNotApplied
  <2>4. QED BY <1>1, <2>1, <2>2, <2>3 DEF Decide
<1>2. ASSUME NEW call, Decline(call) \/ Reject(call) PROVE HeldNotApplied'
  BY <1>2 DEF Decline, Reject, Released, HeldNotApplied
<1>3. ASSUME NEW now, Tick(now) PROVE HeldNotApplied'
  BY <1>3 DEF Tick, HeldNotApplied
<1>4. UNCHANGED vars => HeldNotApplied'
  BY DEF vars, HeldNotApplied
<1>5. QED BY <1>1, <1>2, <1>3, <1>4 DEF Next, Execute, Confirm

\* What is held for a human has not been applied.
THEOREM HeldNotAppliedCorrect == Spec => []HeldNotApplied
<1>1. Init => HeldNotApplied
  BY DEF Init, HeldNotApplied
<1>2. QED BY <1>1, HoldStep, PTL DEF Spec

-----------------------------------------------------------------------------
(* Statuses are justified                                                   *)

\* What StatusIsJustified says of one task.
Justified(task) ==
    /\ task.status = "ACTIVE" => Reached(task.start, task.lastTransitionAt)
    /\ task.status = "WINDOW_ENDED" => Reached(task.end, task.lastTransitionAt)
    /\ task.status = "OVERDUE" => Reached(task.deadline, task.lastTransitionAt)
    /\ task.status \in LiveStatuses => ValidSchedule(task.start, task.end, task.deadline)

\* A tick dates the boundary it has noticed, and changes no boundary.
LEMMA TickJustifies ==
    ASSUME NEW task \in TaskRecord(Key), NEW now \in Nat, Justified(task)
    PROVE  Justified(Ticked(task, now))
<1> DEFINE Good(t) == t \in TaskRecord(Key) /\ Justified(t)
<1>0. ASSUME NEW t \in TaskRecord(Key), NEW to \in LiveStatuses, t.status \in LiveStatuses,
             Justified(t),
             to = "ACTIVE" => Reached(t.start, now),
             to = "WINDOW_ENDED" => Reached(t.end, now),
             to = "OVERDUE" => Reached(t.deadline, now)
      PROVE  Good(WithStatus(t, to, now))
  <2> DEFINE u == WithStatus(t, to, now)
  <2>1. u \in TaskRecord(Key)
    BY <1>0 DEF TaskRecord, WithStatus, Statuses, OptionalInstant
  <2>2. /\ u.status = to /\ u.lastTransitionAt = now
        /\ u.start = t.start /\ u.end = t.end /\ u.deadline = t.deadline
    BY DEF WithStatus, TaskRecord
  <2> HIDE DEF u
  <2>3. QED BY <1>0, <2>1, <2>2 DEF Justified, u
<1>1. ASSUME NEW t, Good(t) PROVE Good(Opened(t, now))
  BY <1>0, <1>1 DEF Opened, WindowOpens, LiveStatuses
<1>2. ASSUME NEW t, Good(t) PROVE Good(Ended(t, now))
  BY <1>0, <1>2 DEF Ended, WindowEnds, LiveStatuses
<1>3. ASSUME NEW t, Good(t) PROVE Good(Breached(t, now))
  BY <1>0, <1>3 DEF Breached, DeadlineBreaks, LiveStatuses
<1>4. Good(task)
  OBVIOUS
<1> HIDE DEF Good
<1>5. Good(Ticked(task, now))
  BY <1>1, <1>2, <1>3, <1>4 DEF Ticked
<1>6. QED BY <1>5 DEF Good

\* The other changes to a task in place: a finish and an actual start.
LEMMA FinishJustifies ==
    ASSUME NEW task \in TaskRecord(Key), NEW now \in Nat, Justified(task)
    PROVE  /\ \A to \in TerminalStatuses : Justified(WithStatus(task, to, now))
           /\ Justified([task EXCEPT !.actualStart = now])
BY DEF Justified, WithStatus, TaskRecord, TerminalStatuses, LiveStatuses, Reached

\* A new task with a valid schedule claims no boundary.
LEMMA NewTaskJustified ==
    ASSUME NEW start, NEW end, NEW deadline, NEW parent, NEW now, NEW key,
           ValidSchedule(start, end, deadline)
    PROVE  Justified(NewTask(start, end, deadline, parent, now, key))
BY DEF Justified, NewTask, InitialStatus

\* Every step keeps the statuses justified, also one whose now is older than
\* the transitions in the log.
LEMMA JustifiedStep == TypeOK /\ StatusIsJustified /\ EngineStep => StatusIsJustified'
<1> SUFFICES ASSUME TypeOK, StatusIsJustified, EngineStep PROVE StatusIsJustified'
  OBVIOUS
<1> DEFINE AllJustified == \A i \in DOMAIN tasks : Justified(tasks[i])
<1>0. \A i \in DOMAIN tasks : tasks[i] \in TaskRecord(Key) /\ Justified(tasks[i])
  BY DEF TypeOK, StatusIsJustified, Justified
<1>1. SUFFICES AllJustified'
  BY DEF StatusIsJustified, Justified
<1>2. ASSUME NEW i \in DOMAIN tasks, NEW u, Justified(u), tasks' = [tasks EXCEPT ![i] = u]
      PROVE  AllJustified'
  BY <1>0, <1>2 DEF TypeOK
<1>3. ASSUME NEW u, Justified(u), NEW s \in Seq(TaskRecord(Key)),
             \A i \in DOMAIN s : Justified(s[i]), tasks' = Append(s, u)
      PROVE  AllJustified'
  BY <1>3
<1>4. UNCHANGED tasks => AllJustified'
  BY <1>0
<1> HIDE DEF AllJustified
<1>5. ASSUME NEW call \in ActionCall, NEW now \in Nat, NEW confirmed \in BOOLEAN,
             Apply(call, now, confirmed)
      PROVE  AllJustified'
  <2>0. now \in Nat /\ tasks \in Seq(TaskRecord(Key))
    BY DEF TypeOK
  <2>1. CASE CreateTask(call, now)
    BY <1>0, <1>3, <2>0, <2>1, NewTaskJustified DEF CreateTask, CanCreate
  <2>2. CASE StartTask(call, now)
    <3>1. call.task \in DOMAIN tasks /\ tasks' = [tasks EXCEPT ![call.task] = [@ EXCEPT !.actualStart = now]]
      BY <2>2 DEF StartTask, CanStart, Known
    <3>2. QED BY <1>0, <1>2, <2>0, <3>1, FinishJustifies
  <2>3. CASE CompleteTask(call, now)
    <3>1. CompletionStatus(tasks[call.task]) \in TerminalStatuses
      BY DEF CompletionStatus, TerminalStatuses
    <3>2. QED BY <1>0, <1>2, <2>0, <2>3, <3>1, FinishJustifies DEF CompleteTask, CanComplete, Known
  <2>4. CASE MoveTask(call, now)
    <3> DEFINE old == WithStatus(tasks[call.task], MovedStatus(call), now)
               moved == [tasks EXCEPT ![call.task] = old]
               new == NewTask(call.start, call.end, DeadlineAfter(call), call.task, now, NoKey)
    <3>1. call.task \in DOMAIN tasks /\ ValidSchedule(call.start, call.end, DeadlineAfter(call))
      BY <2>4 DEF MoveTask, CanMove, Known
    <3>2. MovedStatus(call) \in TerminalStatuses
      BY DEF MovedStatus, TerminalStatuses
    <3>3. Justified(old) /\ Justified(new) /\ old \in TaskRecord(Key)
      <4>1. Justified(old) /\ Justified(new)
        BY <1>0, <2>0, <3>1, <3>2, FinishJustifies, NewTaskJustified
      <4>2. old \in TaskRecord(Key)
        <5>1. MovedStatus(call) \in Statuses /\ tasks[call.task] \in TaskRecord(Key)
          BY <1>0, <3>1, <3>2 DEF Statuses
        <5>2. QED BY <2>0, <5>1 DEF WithStatus, TaskRecord, OptionalInstant
      <4>3. QED BY <4>1, <4>2
    <3>4. tasks' = Append(moved, new)
      BY <2>4 DEF MoveTask
    <3> HIDE DEF old, new
    <3>5. moved \in Seq(TaskRecord(Key)) /\ \A i \in DOMAIN moved : Justified(moved[i])
      BY <1>0, <2>0, <3>1, <3>3
    <3>6. QED BY <1>3, <3>3, <3>4, <3>5
  <2>5. CASE CancelTask(call, now)
    <3>1. CancelledStatus(call) \in TerminalStatuses
      BY DEF CancelledStatus, TerminalStatuses
    <3>2. QED BY <1>0, <1>2, <2>0, <2>5, <3>1, FinishJustifies DEF CancelTask, CanCancel, Known
  <2>6. QED BY <1>5, <2>1, <2>2, <2>3, <2>4, <2>5 DEF Apply
<1>6. ASSUME NEW now \in Nat, Tick(now) PROVE AllJustified'
  BY <1>0, <1>6, TickJustifies DEF Tick, AllJustified
<1>7. QED BY <1>4, <1>5, <1>6 DEF EngineStep

\* A status that claims a boundary has passed is dated at or after it, and the
\* schedule of a live task is valid, through moves and stale clocks.
THEOREM StatusJustifiedCorrect == Spec => []StatusIsJustified
<1>1. Init => StatusIsJustified
  BY DEF Init, StatusIsJustified
<1>2. QED BY <1>1, TypeCorrect, JustifiedStep, NextIsStep, PTL DEF Spec

=============================================================================
