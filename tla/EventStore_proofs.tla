--------------------------- MODULE EventStore_proofs ---------------------------
(***************************************************************************)
(* The log, its views and the engine, for any number of processes, any     *)
(* calls, limits and bounds: a view is the replay of a prefix of the log   *)
(* through failures and crashes at any point, and the log implements       *)
(* TaskEngine.                                                             *)
(***************************************************************************)
EXTENDS EventStore, SetInduction, FiniteSetTheorems, SequenceTheorems

-----------------------------------------------------------------------------
(* Types                                                                    *)

Outcomes == {"applied", "rejected", "superseded", "pending_confirmation"}

TransitionTypes ==
    {"TASK_STARTED", "TASK_WINDOW_ENDED", "TASK_DEADLINE_BREACHED", "TASK_COMPLETED",
     "TASK_RESCHEDULED", "TASK_CARRIED_FORWARD", "TASK_DROPPED", "TASK_CANCELLED"}

DecisionEvents ==
    [type : {"ACTION_PROPOSED"}, at : Nat, call : Calls, outcome : Outcomes]

CreatedEvents ==
    [type : {"TASK_CREATED"}, at : Nat, status : Statuses, start : OptionalInstant,
     end : OptionalInstant, deadline : OptionalInstant, carriedFrom : Nat,
     key : Key \cup {NoKey}]

TaskEvents ==
    [type : TransitionTypes \cup {"TASK_WORK_STARTED"}, at : Nat, task : Nat,
     occurred : OptionalInstant, late : BOOLEAN]

Event == DecisionEvents \cup CreatedEvents \cup TaskEvents

ViewType ==
    [tasks : Seq(TaskRecord(Key)), seen : SUBSET Key, pending : SUBSET Calls,
     quarantined : SUBSET Nat, seq : Nat]

\* The view of a process that has no store open is one.
LEMMA EmptyViewType == EmptyView \in ViewType
BY DEF EmptyView, ViewType

\* What kind of event a type stands for.
LEMMA EventKinds ==
    ASSUME NEW event \in Event
    PROVE  /\ event.type = "ACTION_PROPOSED" <=> event \in DecisionEvents
           /\ event.type = "TASK_CREATED" <=> event \in CreatedEvents
           /\ event.type \in TransitionTypes \cup {"TASK_WORK_STARTED"} <=> event \in TaskEvents
BY DEF Event, DecisionEvents, CreatedEvents, TaskEvents, TransitionTypes

-----------------------------------------------------------------------------
(* Replaying one event                                                      *)

\* The status that a transition's event stands for is one.
LEMMA StatusAfterType ==
    ASSUME NEW event \in TaskEvents, event.type \in TransitionTypes
    PROVE  StatusAfter(event) \in Statuses
BY DEF StatusAfter, TaskEvents, TransitionTypes, Statuses, LiveStatuses, TerminalStatuses

\* A task of the list is replaced.
LEMMA ReplacedType ==
    ASSUME NEW ts \in Seq(TaskRecord(Key)), NEW i \in DOMAIN ts, NEW u \in TaskRecord(Key)
    PROVE  /\ [ts EXCEPT ![i] = u] \in Seq(TaskRecord(Key))
           /\ Len([ts EXCEPT ![i] = u]) = Len(ts)
           /\ \A j \in 1 .. Len(ts) : [ts EXCEPT ![i] = u][j] = IF j = i THEN u ELSE ts[j]
<1>1. i \in 1 .. Len(ts)
  OBVIOUS
<1>2. QED BY <1>1, ExceptSeq

\* Whatever event comes, the view stays one.
LEMMA TasksAfterType ==
    ASSUME NEW ts \in Seq(TaskRecord(Key)), NEW event \in Event, Fits(ts, event)
    PROVE  TasksAfter(ts, event) \in Seq(TaskRecord(Key))
<1>1. CASE event.type = "TASK_CREATED"
  <2> DEFINE new == [NewTask(event.start, event.end, event.deadline,
                             event.carriedFrom, event.at, event.key)
                       EXCEPT !.status = event.status]
  <2>1. event \in CreatedEvents
    BY <1>1, EventKinds
  <2>2. new \in TaskRecord(Key)
    BY <2>1 DEF CreatedEvents, NewTask, TaskRecord, InitialStatus, OptionalInstant, Instant
  <2>3. TasksAfter(ts, event) = Append(ts, new)
    BY <1>1 DEF TasksAfter
  <2> HIDE DEF new
  <2>4. QED BY <2>2, <2>3
<1>2. CASE event.type = "ACTION_PROPOSED"
  BY <1>2 DEF TasksAfter
<1>3. CASE event.type \notin {"TASK_CREATED", "ACTION_PROPOSED"}
  <2>1. event \in TaskEvents /\ event.task \in DOMAIN ts
    BY <1>3 DEF Event, DecisionEvents, CreatedEvents, Fits
  <2>2. ts[event.task] \in TaskRecord(Key)
    BY <2>1
  <2>3. CASE event.type = "TASK_WORK_STARTED"
    <3> DEFINE u == [ts[event.task] EXCEPT !.actualStart = event.occurred]
    <3>1. u \in TaskRecord(Key)
      BY <2>1, <2>2 DEF TaskEvents, TaskRecord
    <3>2. TasksAfter(ts, event) = [ts EXCEPT ![event.task] = u]
      BY <2>3 DEF TasksAfter
    <3> HIDE DEF u
    <3>3. QED BY <2>1, <3>1, <3>2, ReplacedType
  <2>4. CASE event.type # "TASK_WORK_STARTED"
    <3> DEFINE u == WithStatus(ts[event.task], StatusAfter(event), event.at)
    <3>1. event.type \in TransitionTypes
      BY <2>1, <2>4 DEF TaskEvents
    <3>2. StatusAfter(event) \in Statuses /\ event.at \in Nat
      BY <2>1, <3>1, StatusAfterType DEF TaskEvents
    <3>3. u \in TaskRecord(Key)
      BY <2>2, <3>2 DEF TaskRecord, WithStatus, OptionalInstant
    <3>4. TasksAfter(ts, event) = [ts EXCEPT ![event.task] = u]
      BY <1>3, <2>4 DEF TasksAfter
    <3> HIDE DEF u
    <3>5. QED BY <2>1, <3>3, <3>4, ReplacedType
  <2>5. QED BY <2>3, <2>4
<1>4. QED BY <1>1, <1>2, <1>3

\* What the indexes become, field by field.
LEMMA IndexedFields ==
    ASSUME NEW v \in ViewType, NEW event \in Event
    PROVE  /\ Indexed(v, event) \in ViewType
           /\ Indexed(v, event).tasks = v.tasks
           /\ Indexed(v, event).seq = v.seq
           /\ Indexed(v, event).quarantined = v.quarantined
           /\ event.type # "ACTION_PROPOSED" => Indexed(v, event) = v
<1>1. CASE event.type # "ACTION_PROPOSED"
  BY <1>1 DEF Indexed
<1>2. CASE event.type = "ACTION_PROPOSED"
  <2>1. event.call \in Calls /\ event.call.key \in Key
    BY <1>2, EventKinds, EngineAssumption DEF DecisionEvents, Engine!ActionCall
  <2>2. QED BY <1>2, <2>1 DEF Indexed, ViewType
<1>3. QED BY <1>1, <1>2

\* One event is counted whether it fits or not, and it is only then quarantined.
LEMMA ApplyEventFields ==
    ASSUME NEW v \in ViewType, NEW event \in Event
    PROVE  /\ ApplyEvent(v, event) \in ViewType
           /\ ApplyEvent(v, event).seq = v.seq + 1
           /\ Fits(v.tasks, event) =>
                ApplyEvent(v, event) =
                   Indexed([tasks |-> TasksAfter(v.tasks, event), seen |-> v.seen,
                            pending |-> v.pending, quarantined |-> v.quarantined,
                            seq |-> v.seq + 1], event)
           /\ ~Fits(v.tasks, event) => ApplyEvent(v, event).tasks = v.tasks
<1>1. CASE Fits(v.tasks, event)
  <2> DEFINE w == [tasks |-> TasksAfter(v.tasks, event), seen |-> v.seen,
                   pending |-> v.pending, quarantined |-> v.quarantined, seq |-> v.seq + 1]
  <2>1. TasksAfter(v.tasks, event) \in Seq(TaskRecord(Key))
    BY <1>1, TasksAfterType DEF ViewType
  <2>2. w \in ViewType
    BY <2>1 DEF ViewType
  <2>3. ApplyEvent(v, event) = Indexed(w, event)
    <3> DEFINE next == [v EXCEPT !.seq = @ + 1]
               changed == [next EXCEPT !.tasks = TasksAfter(@, event)]
    <3>1. next = [tasks |-> v.tasks, seen |-> v.seen, pending |-> v.pending,
                  quarantined |-> v.quarantined, seq |-> v.seq + 1]
      BY DEF ViewType
    <3> HIDE DEF next
    <3>2. changed = w
      BY <3>1
    <3>3. ApplyEvent(v, event) = Indexed(changed, event)
      BY <1>1 DEF ApplyEvent, next
    <3>4. QED BY <3>2, <3>3
  <2>4. w.seq = v.seq + 1
    OBVIOUS
  <2> HIDE DEF w
  <2>5. Indexed(w, event) \in ViewType /\ Indexed(w, event).seq = w.seq
    BY <2>2, IndexedFields
  <2>6. /\ ApplyEvent(v, event) \in ViewType
        /\ ApplyEvent(v, event).seq = v.seq + 1
    BY <2>3, <2>4, <2>5
  <2>7. QED BY ONLY <1>1, <2>3, <2>6 DEF w
<1>2. CASE ~Fits(v.tasks, event)
  <2> DEFINE next == [v EXCEPT !.seq = @ + 1]
             kept == [next EXCEPT !.quarantined = @ \cup {next.seq}]
  <2>1. next = [tasks |-> v.tasks, seen |-> v.seen, pending |-> v.pending,
                quarantined |-> v.quarantined, seq |-> v.seq + 1]
    BY DEF ViewType
  <2> HIDE DEF next
  <2>2. kept = [tasks |-> v.tasks, seen |-> v.seen, pending |-> v.pending,
                quarantined |-> v.quarantined \cup {v.seq + 1}, seq |-> v.seq + 1]
    BY <2>1
  <2>3. ApplyEvent(v, event) = kept
    BY <1>2 DEF ApplyEvent, next
  <2> HIDE DEF kept
  <2>4. kept \in ViewType /\ kept.seq = v.seq + 1 /\ kept.tasks = v.tasks
    BY <2>2 DEF ViewType
  <2>5. QED BY <1>2, <2>3, <2>4
<1>3. QED BY <1>1, <1>2

-----------------------------------------------------------------------------
(* Replaying a sequence of events                                           *)

\* A replay goes from view to view, one event at a time (refresh_view).
LEMMA FoldedSteps ==
    ASSUME NEW v \in ViewType, NEW events \in Seq(Event)
    PROVE  \E f \in [0 .. Len(events) -> ViewType] :
              /\ f[0] = v
              /\ \A n \in 1 .. Len(events) : f[n] = ApplyEvent(f[n - 1], events[n])
              /\ Folded(v, events) = f[Len(events)]
<1> DEFINE N == Len(events)
           Steps(f) == f = [n \in 0 .. N |-> IF n = 0 THEN v
                                             ELSE ApplyEvent(f[n - 1], events[n])]
           step == [n \in 1 .. N |-> [w \in ViewType |-> ApplyEvent(w, events[n])]]
           g == CHOOSE f : Steps(f)
<1>1. N \in Nat /\ \A n \in 1 .. N : events[n] \in Event
  OBVIOUS
<1>2. step \in [1 .. N -> [ViewType -> ViewType]]
  BY <1>1, ApplyEventFields
<1>3. PICK f \in [0 .. N -> ViewType] : Iterates(f, v, N, step)
  <2> HIDE DEF step, N
  <2>1. QED BY <1>1, <1>2, IterationExists
<1>4. f[0] = v /\ \A n \in 1 .. N : f[n] = ApplyEvent(f[n - 1], events[n])
  <2>1. f[0] = v
    BY <1>3 DEF Iterates
  <2>2. ASSUME NEW n \in 1 .. N PROVE f[n] = ApplyEvent(f[n - 1], events[n])
    <3>1. f[n - 1] \in ViewType
      BY <1>1, <1>3
    <3>2. QED BY <1>3, <3>1 DEF Iterates
  <2>3. QED BY <2>1, <2>2
<1> HIDE DEF step, N
<1>5. Steps(f)
  <2> DEFINE h == [n \in 0 .. N |-> IF n = 0 THEN v ELSE ApplyEvent(f[n - 1], events[n])]
  <2>1. \A n \in 0 .. N : f[n] = h[n]
    BY <1>1, <1>4
  <2>2. QED BY <1>3, <2>1
<1>6. Steps(g)
  BY <1>5
<1>7. Folded(v, events) = g[N]
  BY DEF Folded, N
<1> HIDE DEF g
<1>8. g[0] = v /\ \A n \in 1 .. N : g[n] = ApplyEvent(g[n - 1], events[n])
  <2> DEFINE h == [n \in 0 .. N |-> IF n = 0 THEN v ELSE ApplyEvent(g[n - 1], events[n])]
  <2>1. g = h
    BY <1>6
  <2>2. h[0] = v /\ \A n \in 1 .. N : h[n] = ApplyEvent(g[n - 1], events[n])
    BY <1>1
  <2> HIDE DEF h
  <2>3. QED BY <2>1, <2>2
<1>9. AreAlike(f, g, N)
  <2>1. GoAlike(f, g, N)
    BY <1>4, <1>8 DEF GoAlike
  <2>2. QED BY <1>1, <2>1, IterationUnique
<1>10. QED BY <1>1, <1>3, <1>4, <1>7, <1>9 DEF N, AreAlike

LEMMA FoldedType ==
    ASSUME NEW v \in ViewType, NEW events \in Seq(Event)
    PROVE  Folded(v, events) \in ViewType
<1>1. PICK f \in [0 .. Len(events) -> ViewType] : Folded(v, events) = f[Len(events)]
  BY FoldedSteps
<1>2. Len(events) \in 0 .. Len(events)
  OBVIOUS
<1>3. QED BY <1>1, <1>2

\* Nothing to replay.
LEMMA FoldedEmpty == ASSUME NEW v \in ViewType PROVE Folded(v, <<>>) = v
<1> DEFINE none == <<>>
<1>1. none \in Seq(Event) /\ Len(none) = 0
  OBVIOUS
<1> HIDE DEF none
<1>2. PICK f \in [0 .. 0 -> ViewType] : f[0] = v /\ Folded(v, none) = f[0]
  BY <1>1, FoldedSteps
<1>3. QED BY <1>2 DEF none

\* Events that are replayed in two parts, as a refresh does, or at once.
LEMMA FoldedConcat ==
    ASSUME NEW v \in ViewType, NEW a \in Seq(Event), NEW b \in Seq(Event)
    PROVE  Folded(v, a \o b) = Folded(Folded(v, a), b)
<1> DEFINE w == Folded(v, a)
           m == Len(a)
           N == Len(a) + Len(b)
<1>1. /\ a \o b \in Seq(Event) /\ Len(a \o b) = N /\ N \in Nat /\ m \in 0 .. N
      /\ \A n \in 1 .. N : (a \o b)[n] = IF n <= m THEN a[n] ELSE b[n - m]
  OBVIOUS
<1>2. w \in ViewType
  BY FoldedType
<1>3. PICK f \in [0 .. Len(a) -> ViewType] :
          /\ f[0] = v
          /\ \A n \in 1 .. Len(a) : f[n] = ApplyEvent(f[n - 1], a[n])
          /\ w = f[Len(a)]
  BY FoldedSteps
<1> HIDE DEF w
<1>4. PICK h \in [0 .. Len(b) -> ViewType] :
          /\ h[0] = w
          /\ \A n \in 1 .. Len(b) : h[n] = ApplyEvent(h[n - 1], b[n])
          /\ Folded(w, b) = h[Len(b)]
  BY <1>2, FoldedSteps
<1>5. PICK g \in [0 .. N -> ViewType] :
          /\ g[0] = v
          /\ \A n \in 1 .. N : g[n] = ApplyEvent(g[n - 1], (a \o b)[n])
          /\ Folded(v, a \o b) = g[N]
  BY SMTT(30), <1>1, FoldedSteps
<1> DEFINE k == [n \in 0 .. N |-> IF n <= m THEN f[n] ELSE h[n - m]]
<1>6. k[0] = v /\ k[N] = h[Len(b)]
  <2>1. k[0] = f[0]
    BY <1>1
  <2>2. CASE Len(b) = 0
    BY <1>1, <1>3, <1>4, <2>2
  <2>3. CASE Len(b) # 0
    <3>1. ~ (N <= m) /\ N - m = Len(b) /\ N \in 0 .. N
      BY <1>1, <2>3
    <3>2. QED BY <1>3, <2>1, <3>1
  <2>4. QED BY <2>1, <2>2, <2>3
<1>7. ASSUME NEW n \in 1 .. N PROVE k[n] = ApplyEvent(k[n - 1], (a \o b)[n])
  <2>1. CASE n <= m
    <3>1. k[n] = f[n] /\ k[n - 1] = f[n - 1] /\ (a \o b)[n] = a[n] /\ n \in 1 .. m
      BY <1>1, <2>1
    <3>2. QED BY <1>3, <3>1
  <2>2. CASE n = m + 1
    <3>1. k[n] = h[1] /\ k[n - 1] = w /\ (a \o b)[n] = b[1] /\ 1 \in 1 .. Len(b)
      BY <1>1, <1>3, <2>2
    <3>2. h[1] = ApplyEvent(h[0], b[1])
      BY <1>4, <3>1
    <3>3. QED BY <1>4, <3>1, <3>2
  <2>3. CASE n > m + 1
    <3>1. k[n] = h[n - m] /\ k[n - 1] = h[n - m - 1] /\ (a \o b)[n] = b[n - m]
      BY <1>1, <2>3
    <3>2. n - m \in 1 .. Len(b)
      BY <1>1, <2>3
    <3>3. QED BY <1>4, <3>1, <3>2
  <2>4. QED BY <1>1, <2>1, <2>2, <2>3
<1> HIDE DEF k, m, N
<1>8. GoAlike(g, k, N)
  BY <1>5, <1>6, <1>7 DEF GoAlike
<1>9. AreAlike(g, k, N)
  BY <1>1, <1>8, IterationUnique
<1>10. g[N] = k[N]
  BY <1>1, <1>9 DEF AreAlike
<1>11. QED BY <1>4, <1>5, <1>6, <1>10 DEF w

\* One more event.
LEMMA FoldedAppend ==
    ASSUME NEW v \in ViewType, NEW events \in Seq(Event), NEW event \in Event
    PROVE  Folded(v, Append(events, event)) = ApplyEvent(Folded(v, events), event)
<1>1. <<event>> \in Seq(Event) /\ Len(<<event>>) = 1 /\ <<event>>[1] = event
  OBVIOUS
<1>2. \A w \in ViewType : Folded(w, <<event>>) = ApplyEvent(w, event)
  <2> SUFFICES ASSUME NEW w \in ViewType PROVE Folded(w, <<event>>) = ApplyEvent(w, event)
    OBVIOUS
  <2>1. PICK f \in [0 .. 1 -> ViewType] :
            /\ f[0] = w
            /\ \A n \in 1 .. 1 : f[n] = ApplyEvent(f[n - 1], <<event>>[n])
            /\ Folded(w, <<event>>) = f[1]
    BY <1>1, FoldedSteps
  <2>2. QED BY <1>1, <2>1
<1>3. Append(events, event) = events \o <<event>>
  OBVIOUS
<1>4. Folded(v, events) \in ViewType
  BY FoldedType
<1>5. QED BY ZenonT(30), <1>1, <1>2, <1>3, <1>4, FoldedConcat

\* Applying an event counts it.
LEMMA ApplyEventCounts ==
    ASSUME NEW v \in ViewType, NEW event \in Event
    PROVE  ApplyEvent(v, event).seq = v.seq + 1
BY ApplyEventFields

\* Every replayed event is counted.
LEMMA FoldedSeq ==
    ASSUME NEW v \in ViewType, NEW events \in Seq(Event)
    PROVE  Folded(v, events).seq = v.seq + Len(events)
<1> DEFINE N == Len(events)
<1>1. PICK f \in [0 .. N -> ViewType] :
          /\ f[0] = v
          /\ \A n \in 1 .. N : f[n] = ApplyEvent(f[n - 1], events[n])
          /\ Folded(v, events) = f[N]
  BY FoldedSteps
<1>2. N \in Nat /\ \A n \in 1 .. N : events[n] \in Event
  OBVIOUS
<1> HIDE DEF N
<1> DEFINE T == {n \in 0 .. N : f[n].seq = v.seq + n}
<1>3. 0 \in T
  BY <1>1, <1>2 DEF ViewType
<1>4. ASSUME NEW n \in 0 .. N - 1, n \in T PROVE n + 1 \in T
  <2>1. f[n] \in ViewType /\ n + 1 \in 1 .. N /\ n + 1 - 1 = n
    BY <1>1, <1>2
  <2>2. f[n + 1].seq = f[n].seq + 1
    <3>1. f[n + 1] = ApplyEvent(f[n], events[n + 1]) /\ events[n + 1] \in Event
      BY <1>1, <1>2, <2>1
    <3>2. ApplyEvent(f[n], events[n + 1]).seq = f[n].seq + 1
      BY <2>1, <3>1, ApplyEventCounts
    <3>3. QED BY <3>1, <3>2
  <2>3. v.seq \in Nat
    BY DEF ViewType
  <2>4. QED BY <1>2, <1>4, <2>1, <2>2, <2>3
<1> HIDE DEF T
<1>5. \A n \in 0 .. N : n \in T
  BY <1>2, <1>3, <1>4, Induction
<1>6. QED BY <1>1, <1>2, <1>5 DEF T, N

-----------------------------------------------------------------------------
(* The creations in the log                                                 *)

\* The positions of the tasks and of their TASK_CREATED events correspond.
CreationOf(ts, events, g) ==
    /\ g \in [DOMAIN ts -> DOMAIN events]
    /\ \A i \in DOMAIN ts :
          /\ events[g[i]].type = "TASK_CREATED"
          /\ events[g[i]].key = ts[i].key /\ events[g[i]].at = ts[i].createdAt
    /\ \A i, j \in DOMAIN ts : g[i] = g[j] => i = j
    /\ \A n \in DOMAIN events :
          events[n].type = "TASK_CREATED" => \E i \in DOMAIN ts : g[i] = n

\* One more event keeps the correspondence.
LEMMA CreationKept ==
    ASSUME NEW ts \in Seq(TaskRecord(Key)), NEW events \in Seq(Event), NEW event \in Event,
           NEW g, CreationOf(ts, events, g)
    PROVE  LET us == IF Fits(ts, event) THEN TasksAfter(ts, event) ELSE ts
           IN  \E h : CreationOf(us, Append(events, event), h)
<1> DEFINE us == IF Fits(ts, event) THEN TasksAfter(ts, event) ELSE ts
           log2 == Append(events, event)
           n == Len(events) + 1
<1>1. /\ log2 \in Seq(Event) /\ DOMAIN log2 = 1 .. n /\ DOMAIN events = 1 .. n - 1
      /\ Len(events) \in Nat /\ log2[n] = event
      /\ \A k \in 1 .. n - 1 : log2[k] = events[k]
  OBVIOUS
<1>2. DOMAIN ts = 1 .. Len(ts) /\ Len(ts) \in Nat
  OBVIOUS
<1>3. CASE event.type = "TASK_CREATED"
  <2> DEFINE new == [NewTask(event.start, event.end, event.deadline,
                             event.carriedFrom, event.at, event.key)
                       EXCEPT !.status = event.status]
             m == Len(ts) + 1
             h == [i \in 1 .. m |-> IF i = m THEN n ELSE g[i]]
  <2>1. us = Append(ts, new)
    BY <1>3 DEF Fits, TasksAfter
  <2>2. new.key = event.key /\ new.createdAt = event.at
    BY DEF NewTask
  <2> HIDE DEF new
  <2>3. /\ DOMAIN us = 1 .. m /\ us[m] = new
        /\ \A i \in 1 .. m - 1 : us[i] = ts[i]
    BY <2>1
  <2> HIDE DEF us, log2
  <2>4. h \in [DOMAIN us -> DOMAIN log2]
    BY <1>1, <1>2, <2>3 DEF CreationOf
  <2>5. \A i \in DOMAIN us :
           /\ log2[h[i]].type = "TASK_CREATED"
           /\ log2[h[i]].key = us[i].key /\ log2[h[i]].at = us[i].createdAt
    BY <1>1, <1>2, <1>3, <2>2, <2>3 DEF CreationOf
  <2>6. \A i, j \in DOMAIN us : h[i] = h[j] => i = j
    BY <1>1, <1>2, <2>3 DEF CreationOf
  <2>7. \A k \in DOMAIN log2 :
           log2[k].type = "TASK_CREATED" => \E i \in DOMAIN us : h[i] = k
    <3> SUFFICES ASSUME NEW k \in DOMAIN log2, log2[k].type = "TASK_CREATED"
                 PROVE  \E i \in DOMAIN us : h[i] = k
      OBVIOUS
    <3>1. CASE k = n
      BY <1>2, <2>3, <3>1
    <3>2. CASE k # n
      <4>1. k \in DOMAIN events /\ events[k].type = "TASK_CREATED"
        BY <1>1, <3>2
      <4>2. PICK i \in DOMAIN ts : g[i] = k
        BY <4>1 DEF CreationOf
      <4>3. QED BY <1>2, <2>3, <4>2
    <3>3. QED BY <3>1, <3>2
  <2>8. CreationOf(us, log2, h)
    BY <2>4, <2>5, <2>6, <2>7 DEF CreationOf
  <2>9. QED BY <2>8 DEF us, log2
<1>4. CASE event.type # "TASK_CREATED"
  <2>1. /\ DOMAIN us = DOMAIN ts
        /\ \A i \in DOMAIN ts : us[i].key = ts[i].key /\ us[i].createdAt = ts[i].createdAt
    <3>1. CASE ~Fits(ts, event) \/ event.type = "ACTION_PROPOSED"
      BY <3>1 DEF TasksAfter
    <3>2. CASE Fits(ts, event) /\ event.type # "ACTION_PROPOSED"
      <4>1. event.task \in DOMAIN ts /\ ts[event.task] \in TaskRecord(Key)
        BY <1>4, <3>2 DEF Fits
      <4>2. \E u : /\ us = [ts EXCEPT ![event.task] = u]
                   /\ u.key = ts[event.task].key /\ u.createdAt = ts[event.task].createdAt
        <5>1. CASE event.type = "TASK_WORK_STARTED"
          <6> DEFINE u == [ts[event.task] EXCEPT !.actualStart = event.occurred]
          <6>1. u.key = ts[event.task].key /\ u.createdAt = ts[event.task].createdAt
            BY <4>1 DEF TaskRecord
          <6>2. us = [ts EXCEPT ![event.task] = u]
            BY <3>2, <5>1 DEF TasksAfter
          <6> HIDE DEF u
          <6>3. QED BY <6>1, <6>2
        <5>2. CASE event.type # "TASK_WORK_STARTED"
          <6> DEFINE u == WithStatus(ts[event.task], StatusAfter(event), event.at)
          <6>1. u.key = ts[event.task].key /\ u.createdAt = ts[event.task].createdAt
            BY <4>1 DEF TaskRecord, WithStatus
          <6>2. us = [ts EXCEPT ![event.task] = u]
            BY <1>4, <3>2, <5>2 DEF TasksAfter
          <6> HIDE DEF u
          <6>3. QED BY <6>1, <6>2
        <5>3. QED BY <5>1, <5>2
      <4>3. PICK u : /\ us = [ts EXCEPT ![event.task] = u]
                     /\ u.key = ts[event.task].key /\ u.createdAt = ts[event.task].createdAt
        BY <4>2
      <4> HIDE DEF us
      <4>4. QED BY <4>1, <4>3
    <3>3. QED BY <3>1, <3>2
  <2> HIDE DEF us, log2
  <2>2. /\ g \in [DOMAIN ts -> DOMAIN events]
        /\ \A i, j \in DOMAIN ts : g[i] = g[j] => i = j
    BY DEF CreationOf
  <2>3. g \in [DOMAIN us -> DOMAIN log2]
    <3>1. DOMAIN events \subseteq DOMAIN log2
      BY <1>1
    <3>2. QED BY <2>1, <2>2, <3>1
  <2>4. \A i \in DOMAIN us :
           /\ log2[g[i]].type = "TASK_CREATED"
           /\ log2[g[i]].key = us[i].key /\ log2[g[i]].at = us[i].createdAt
    <3> TAKE i \in DOMAIN us
    <3>1. /\ events[g[i]].type = "TASK_CREATED"
          /\ events[g[i]].key = ts[i].key /\ events[g[i]].at = ts[i].createdAt
      BY <2>1 DEF CreationOf
    <3>2. log2[g[i]] = events[g[i]]
      BY <1>1, <2>1, <2>2
    <3>3. QED BY <2>1, <3>1, <3>2
  <2>5. \A i, j \in DOMAIN us : g[i] = g[j] => i = j
    BY <2>1, <2>2
  <2>6. \A k \in DOMAIN log2 :
           log2[k].type = "TASK_CREATED" => \E i \in DOMAIN us : g[i] = k
    <3> SUFFICES ASSUME NEW k \in DOMAIN log2, log2[k].type = "TASK_CREATED"
                 PROVE  \E i \in DOMAIN us : g[i] = k
      OBVIOUS
    <3>1. k \in DOMAIN events /\ events[k].type = "TASK_CREATED"
      BY <1>1, <1>4
    <3>2. QED BY <2>1, <3>1 DEF CreationOf
  <2>7. CreationOf(us, log2, g)
    BY <2>3, <2>4, <2>5, <2>6 DEF CreationOf
  <2>8. QED BY <2>7 DEF us, log2
<1>5. QED BY <1>3, <1>4

\* The tasks after one event: an event that does not fit leaves them alone.
LEMMA ApplyEventTasks ==
    ASSUME NEW v \in ViewType, NEW event \in Event
    PROVE  ApplyEvent(v, event).tasks =
              IF Fits(v.tasks, event) THEN TasksAfter(v.tasks, event) ELSE v.tasks
<1>1. CASE Fits(v.tasks, event)
  <2> DEFINE w == [tasks |-> TasksAfter(v.tasks, event), seen |-> v.seen,
                   pending |-> v.pending, quarantined |-> v.quarantined, seq |-> v.seq + 1]
  <2>1. TasksAfter(v.tasks, event) \in Seq(TaskRecord(Key))
    BY <1>1, TasksAfterType DEF ViewType
  <2>2. w \in ViewType /\ w.tasks = TasksAfter(v.tasks, event)
    BY <2>1 DEF ViewType
  <2>3. ApplyEvent(v, event) = Indexed(w, event)
    BY <1>1, ApplyEventFields
  <2> HIDE DEF w
  <2>4. QED BY <1>1, <2>2, <2>3, IndexedFields
<1>2. CASE ~Fits(v.tasks, event)
  BY <1>2, ApplyEventFields
<1>3. QED BY <1>1, <1>2

\* In every log the tasks of its replay and the creations in it correspond.
LEMMA CreationsCorrespond ==
    ASSUME NEW events \in Seq(Event)
    PROVE  \E g : CreationOf(Replay(events).tasks, events, g)
<1> DEFINE T == {r \in Seq(Event) : \E g : CreationOf(Replay(r).tasks, r, g)}
<1>1. <<>> \in T
  <2>1. Replay(<<>>).tasks = <<>>
    BY EmptyViewType, FoldedEmpty DEF Replay, EmptyView
  <2>2. CreationOf(<<>>, <<>>, <<>>)
    BY DEF CreationOf
  <2>3. QED BY <2>1, <2>2
<1>2. ASSUME NEW r \in Seq(Event), NEW e \in Event, r \in T PROVE Append(r, e) \in T
  <2> DEFINE v == Replay(r)
  <2>1. v \in ViewType
    BY EmptyViewType, FoldedType DEF Replay
  <2>2. Replay(Append(r, e)) = ApplyEvent(v, e)
    BY EmptyViewType, FoldedAppend DEF Replay
  <2>3. PICK g : CreationOf(v.tasks, r, g)
    BY <1>2
  <2> HIDE DEF v
  <2>4. v.tasks \in Seq(TaskRecord(Key))
    BY <2>1 DEF ViewType
  <2>5. \E h : CreationOf(ApplyEvent(v, e).tasks, Append(r, e), h)
    BY <2>1, <2>3, <2>4, ApplyEventTasks, CreationKept
  <2>6. QED BY <2>2, <2>5
<1> HIDE DEF T
<1>3. events \in T
  BY <1>1, <1>2, SequencesGrow
<1>4. QED BY <1>3 DEF T

\* count_creations_since, on the log, counts the tasks of the view.
LEMMA CreationsCounted ==
    ASSUME NEW events \in Seq(Event), NEW since \in Int
    PROVE  LET ts == Replay(events).tasks IN
           Cardinality({n \in DOMAIN events : events[n].type = "TASK_CREATED"
                                              /\ events[n].key # NoKey /\ events[n].at >= since})
             = Cardinality({i \in DOMAIN ts : ts[i].key # NoKey /\ ts[i].createdAt >= since})
<1> DEFINE ts == Replay(events).tasks
           E == {n \in DOMAIN events : events[n].type = "TASK_CREATED"
                                       /\ events[n].key # NoKey /\ events[n].at >= since}
           C == {i \in DOMAIN ts : ts[i].key # NoKey /\ ts[i].createdAt >= since}
<1>1. PICK g : CreationOf(ts, events, g)
  BY CreationsCorrespond
<1>2. ts \in Seq(TaskRecord(Key))
  BY EmptyViewType, FoldedType DEF Replay, ViewType
<1> HIDE DEF ts
<1> DEFINE h == [i \in C |-> g[i]]
<1>3. h \in [C -> E]
  BY <1>1 DEF CreationOf
<1>4. \A i, j \in C : h[i] = h[j] => i = j
  BY <1>1 DEF CreationOf
<1>5. \A n \in E : \E i \in C : h[i] = n
  <2> SUFFICES ASSUME NEW n \in E PROVE \E i \in C : h[i] = n
    OBVIOUS
  <2>1. PICK i \in DOMAIN ts : g[i] = n
    BY <1>1 DEF CreationOf
  <2>2. ts[i].key = events[n].key /\ ts[i].createdAt = events[n].at
    BY <1>1, <2>1 DEF CreationOf
  <2>3. QED BY <2>1, <2>2
<1>6. IsFiniteSet(C)
  <2>1. DOMAIN ts = 1 .. Len(ts) /\ Len(ts) \in Nat
    BY <1>2
  <2>2. IsFiniteSet(1 .. Len(ts))
    BY <2>1, FS_Interval
  <2>3. C \subseteq 1 .. Len(ts)
    BY <2>1
  <2>4. QED BY <2>2, <2>3, FS_Subset
<1>7. ExistsBijection(C, E)
  <2> HIDE DEF C, E, h
  <2>1. h \in Injection(C, E) /\ h \in Surjection(C, E)
    BY <1>3, <1>4, <1>5 DEF Injection, IsInjective, Surjection
  <2>2. QED BY <2>1 DEF Bijection, ExistsBijection
<1> HIDE DEF C, E
<1>8. Cardinality(E) = Cardinality(C)
  BY <1>6, <1>7, FS_Bijection
<1>9. QED BY <1>8 DEF C, E, ts

-----------------------------------------------------------------------------
(* A transaction's events: at most one decision, and it comes first         *)

QuietEvents == CreatedEvents \cup TaskEvents

\* An event that is no decision leaves the indexes alone.
LEMMA QuietEvent ==
    ASSUME NEW v \in ViewType, NEW event \in QuietEvents
    PROVE  /\ event \in Event /\ event.type # "ACTION_PROPOSED"
           /\ Indexed(v, event) = v
           /\ Fits(v.tasks, event) =>
                ApplyEvent(v, event) =
                   [tasks |-> TasksAfter(v.tasks, event), seen |-> v.seen,
                    pending |-> v.pending, quarantined |-> v.quarantined, seq |-> v.seq + 1]
<1>1. event \in Event /\ event.type # "ACTION_PROPOSED"
  BY DEF QuietEvents, Event, CreatedEvents, TaskEvents, TransitionTypes
<1>2. \A w : Indexed(w, event) = w
  BY <1>1 DEF Indexed
<1>3. QED BY <1>1, <1>2, ApplyEventFields

\* A decision changes the indexes and nothing else.
LEMMA DecisionApplied ==
    ASSUME NEW v \in ViewType, NEW call \in Calls, NEW now \in Nat, NEW outcome \in Outcomes
    PROVE  LET d == DecisionEvent(call, now, outcome)
               released == {c \in v.pending : c.key # call.key} IN
           /\ d \in DecisionEvents /\ d \in Event
           /\ Fits(v.tasks, d)
           /\ ApplyEvent(v, d) =
                [tasks |-> v.tasks,
                 seen |-> IF outcome = "applied" THEN v.seen \cup {call.key} ELSE v.seen,
                 pending |-> IF outcome = "pending_confirmation" THEN released \cup {call}
                             ELSE released,
                 quarantined |-> v.quarantined, seq |-> v.seq + 1]
<1> DEFINE d == DecisionEvent(call, now, outcome)
           released == {c \in v.pending : c.key # call.key}
           w == [tasks |-> v.tasks, seen |-> v.seen, pending |-> v.pending,
                 quarantined |-> v.quarantined, seq |-> v.seq + 1]
           x == [tasks |-> v.tasks,
                 seen |-> IF outcome = "applied" THEN v.seen \cup {call.key} ELSE v.seen,
                 pending |-> IF outcome = "pending_confirmation" THEN released \cup {call}
                             ELSE released,
                 quarantined |-> v.quarantined, seq |-> v.seq + 1]
<1>1. d \in DecisionEvents /\ d \in Event
  BY DEF DecisionEvent, DecisionEvents, Event
<1>2. d.type = "ACTION_PROPOSED" /\ d.call = call /\ d.outcome = outcome
  BY DEF DecisionEvent
<1> HIDE DEF d
<1>3. Fits(v.tasks, d) /\ TasksAfter(v.tasks, d) = v.tasks
  BY <1>2 DEF Fits, TasksAfter
<1>4. ApplyEvent(v, d) = Indexed(w, d)
  BY <1>1, <1>3, ApplyEventFields
<1>5. Indexed(w, d) = x
  BY <1>2 DEF Indexed, Outcomes
<1>6. QED BY <1>1, <1>3, <1>4, <1>5 DEF d

\* What a process's own events do to its indexes: the decision among them counts.
LEMMA IndexedFirst ==
    ASSUME NEW v \in ViewType, NEW events \in Seq(Event),
           \A n \in 2 .. Len(events) : events[n] \in QuietEvents
    PROVE  IndexedAll(v, events) =
              IF Len(events) = 0 THEN v ELSE Indexed(v, events[1])
<1> DEFINE N == Len(events)
           f == [n \in 0 .. N |-> IF n = 0 THEN v ELSE Indexed(v, events[1])]
           Steps(h) == h = [n \in 0 .. N |-> IF n = 0 THEN v ELSE Indexed(h[n - 1], events[n])]
           g == CHOOSE h : Steps(h)
<1>1. N \in Nat /\ \A n \in 1 .. N : events[n] \in Event
  OBVIOUS
<1>2. \A n \in 1 .. N : f[n] = Indexed(f[n - 1], events[n])
  <2> SUFFICES ASSUME NEW n \in 1 .. N PROVE f[n] = Indexed(f[n - 1], events[n])
    OBVIOUS
  <2>1. CASE n = 1
    BY <1>1, <2>1
  <2>2. CASE n # 1
    <3>1. f[n] = Indexed(v, events[1]) /\ f[n - 1] = Indexed(v, events[1])
      BY <1>1, <2>2
    <3>2. Indexed(v, events[1]) \in ViewType
      BY SMTT(30), <1>1, IndexedFields
    <3>3. events[n] \in QuietEvents
      BY <1>1, <2>2
    <3>4. QED BY <3>1, <3>2, <3>3, QuietEvent
  <2>3. QED BY <2>1, <2>2
<1>3. Steps(f)
  <2> DEFINE h == [n \in 0 .. N |-> IF n = 0 THEN v ELSE Indexed(f[n - 1], events[n])]
  <2>1. f[0] = v
    BY <1>1
  <2>2. \A n \in 0 .. N : f[n] = h[n]
    <3> HIDE DEF f, N
    <3>1. QED BY <1>1, <1>2, <2>1
  <2>3. QED BY <2>2
<1>4. f[0] = v /\ f[N] = IF N = 0 THEN v ELSE Indexed(v, events[1])
  BY <1>1
<1> HIDE DEF f, N
<1>5. Steps(g)
  BY <1>3
<1>6. IndexedAll(v, events) = g[N]
  BY DEF IndexedAll, N
<1> HIDE DEF g
<1>7. g[0] = v /\ \A n \in 1 .. N : g[n] = Indexed(g[n - 1], events[n])
  <2> DEFINE h == [n \in 0 .. N |-> IF n = 0 THEN v ELSE Indexed(g[n - 1], events[n])]
  <2>1. g = h
    BY <1>5
  <2>2. h[0] = v /\ \A n \in 1 .. N : h[n] = Indexed(g[n - 1], events[n])
    BY <1>1
  <2> HIDE DEF h
  <2>3. QED BY <2>1, <2>2
<1>8. GoAlike(f, g, N)
  BY <1>2, <1>4, <1>7 DEF GoAlike
<1>9. AreAlike(f, g, N)
  BY <1>1, <1>8, IterationUnique
<1>10. QED BY <1>1, <1>4, <1>6, <1>9 DEF AreAlike, N

\* Replaying one event, and a decision before its effects.
LEMMA FoldedOne ==
    ASSUME NEW v \in ViewType, NEW event \in Event
    PROVE  Folded(v, <<event>>) = ApplyEvent(v, event)
<1> DEFINE none == <<>>
<1>1. none \in Seq(Event) /\ <<event>> = Append(none, event) /\ Folded(v, none) = v
  BY FoldedEmpty
<1> HIDE DEF none
<1>2. QED BY <1>1, FoldedAppend

-----------------------------------------------------------------------------
(* The events of the mutators and of the ticks, replayed one at a time      *)

\* The view v, with its tasks and its place changed.
WithTasks(v, ts, seq) ==
    [tasks |-> ts, seen |-> v.seen, pending |-> v.pending,
     quarantined |-> v.quarantined, seq |-> seq]

\* Replayed after v, the event makes ts of the tasks.
Replays(v, event, ts) ==
    /\ event \in QuietEvents
    /\ ts \in Seq(TaskRecord(Key))
    /\ ApplyEvent(v, event) = WithTasks(v, ts, v.seq + 1)

\* An event other than a decision, that fits, changes the tasks alone.
LEMMA ReplaysAre ==
    ASSUME NEW v \in ViewType, NEW event \in QuietEvents, Fits(v.tasks, event)
    PROVE  Replays(v, event, TasksAfter(v.tasks, event))
<1>1. event \in Event /\ v.tasks \in Seq(TaskRecord(Key))
  BY QuietEvent DEF ViewType
<1>2. TasksAfter(v.tasks, event) \in Seq(TaskRecord(Key))
  BY <1>1, TasksAfterType
<1>3. QED BY <1>2, QuietEvent DEF Replays, WithTasks

\* A transition of one task: it gets the event's status and date.
LEMMA TransitionReplayed ==
    ASSUME NEW v \in ViewType, NEW i \in DOMAIN v.tasks, NEW event \in TaskEvents,
           event.type \in TransitionTypes, event.task = i,
           CanTransition(v.tasks[i].status, StatusAfter(event))
    PROVE  Replays(v, event,
                   [v.tasks EXCEPT ![i] = WithStatus(@, StatusAfter(event), event.at)])
<1>1. event \in QuietEvents
  BY DEF QuietEvents
<1>2. Fits(v.tasks, event)
  BY DEF Fits
<1>3. TasksAfter(v.tasks, event) =
         [v.tasks EXCEPT ![i] = WithStatus(@, StatusAfter(event), event.at)]
  BY DEF TasksAfter, TransitionTypes
<1>4. QED BY <1>1, <1>2, <1>3, ReplaysAre

\* A creation: what NewTask made is what the replay makes again.
LEMMA CreationReplayed ==
    ASSUME NEW v \in ViewType, NEW now \in Nat, NEW start \in OptionalInstant,
           NEW end \in OptionalInstant, NEW deadline \in OptionalInstant,
           NEW from \in Nat, NEW key \in Key \cup {NoKey}
    PROVE  Replays(v, CreatedEvent(NewTask(start, end, deadline, from, now, key), now),
                   Append(v.tasks, NewTask(start, end, deadline, from, now, key)))
<1> DEFINE new == NewTask(start, end, deadline, from, now, key)
           event == CreatedEvent(new, now)
<1>1. new \in TaskRecord(Key)
  BY DEF NewTask, TaskRecord, InitialStatus, Statuses, LiveStatuses, OptionalInstant, Instant
<1>2. event \in CreatedEvents
  BY <1>1 DEF CreatedEvent, CreatedEvents, TaskRecord, NewTask
<1>3. event \in QuietEvents /\ event.type = "TASK_CREATED"
  BY <1>2 DEF QuietEvents, CreatedEvent
<1>4. [NewTask(event.start, event.end, event.deadline, event.carriedFrom, event.at, event.key)
         EXCEPT !.status = event.status] = new
  BY DEF CreatedEvent, NewTask
<1> HIDE DEF event, new
<1>5. Fits(v.tasks, event) /\ TasksAfter(v.tasks, event) = Append(v.tasks, new)
  BY <1>3, <1>4 DEF Fits, TasksAfter
<1>6. Replays(v, event, Append(v.tasks, new))
  BY <1>3, <1>5, ReplaysAre
<1>7. QED BY <1>6 DEF event, new

\* The start of the work.
LEMMA WorkStartReplayed ==
    ASSUME NEW v \in ViewType, NEW i \in DOMAIN v.tasks, NEW now \in Nat
    PROVE  Replays(v, TaskEvent("TASK_WORK_STARTED", i, now, now, FALSE),
                   [v.tasks EXCEPT ![i].actualStart = now])
<1> DEFINE event == TaskEvent("TASK_WORK_STARTED", i, now, now, FALSE)
<1>1. i \in Nat
  BY DEF ViewType
<1>2. event \in QuietEvents
  BY <1>1 DEF TaskEvent, TaskEvents, QuietEvents, OptionalInstant
<1>3. event.type = "TASK_WORK_STARTED" /\ event.task = i /\ event.occurred = now
  BY DEF TaskEvent
<1> HIDE DEF event
<1>4. Fits(v.tasks, event)
  BY <1>3 DEF Fits
<1>5. TasksAfter(v.tasks, event) = [v.tasks EXCEPT ![i].actualStart = now]
  BY <1>3 DEF TasksAfter
<1>6. Replays(v, event, [v.tasks EXCEPT ![i].actualStart = now])
  BY <1>2, <1>4, <1>5, ReplaysAre
<1>7. QED BY <1>6 DEF event

-----------------------------------------------------------------------------
(* The engine's operators, as the two instances of TaskEngine know them      *)

\* They are the ones of this module.
LEMMA EngineOperators ==
    /\ Engine!NoTime = NoTime /\ Engine!NoTask = NoTask /\ Engine!NoKey = NoKey
    /\ \A from, to : Engine!CanTransition(from, to) = CanTransition(from, to)
    /\ \A t, to, now : Engine!WithStatus(t, to, now) = WithStatus(t, to, now)
    /\ \A t, now : Engine!Ticked(t, now) = Ticked(t, now)
    /\ \A start, end, deadline, from, now, key :
          Engine!NewTask(start, end, deadline, from, now, key)
             = NewTask(start, end, deadline, from, now, key)
    /\ \A t : Engine!CompletionStatus(t) = Mine!CompletionStatus(t)
    /\ \A call : Engine!MovedStatus(call) = Mine!MovedStatus(call)
    /\ \A call : Engine!CancelledStatus(call) = Mine!CancelledStatus(call)
    /\ \A S : Engine!Cardinality(S) = Cardinality(S) /\ Mine!Cardinality(S) = Cardinality(S)
<1>1. Engine!NoTime = NoTime /\ Engine!NoTask = NoTask /\ Engine!NoKey = NoKey
  BY DEF Engine!NoTime, NoTime, Engine!NoTask, NoTask, Engine!NoKey, NoKey
<1>2. \A from, to : Engine!CanTransition(from, to) = CanTransition(from, to)
  BY DEF Engine!CanTransition, CanTransition, Engine!Transitions, Transitions,
         Engine!Statuses, Statuses, Engine!LiveStatuses, LiveStatuses,
         Engine!TerminalStatuses, TerminalStatuses, Engine!EarlyExits, EarlyExits,
         Engine!LateExits, LateExits
<1>3. \A t, to, now : Engine!WithStatus(t, to, now) = WithStatus(t, to, now)
  BY DEF Engine!WithStatus, WithStatus
<1>4. \A t, now : Engine!Ticked(t, now) = Ticked(t, now)
  BY DEF Engine!Ticked, Ticked, Engine!Opened, Opened, Engine!Ended, Ended,
         Engine!Breached, Breached, Engine!WindowOpens, WindowOpens,
         Engine!WindowEnds, WindowEnds, Engine!DeadlineBreaks, DeadlineBreaks,
         Engine!Reached, Reached, Engine!NoTime, NoTime, Engine!WithStatus, WithStatus
<1>5. \A start, end, deadline, from, now, key :
          Engine!NewTask(start, end, deadline, from, now, key)
             = NewTask(start, end, deadline, from, now, key)
  BY DEF Engine!NewTask, NewTask, Engine!InitialStatus, InitialStatus, Engine!NoTime, NoTime
<1>6. \A t : Engine!CompletionStatus(t) = Mine!CompletionStatus(t)
  BY DEF Engine!CompletionStatus, Mine!CompletionStatus
<1>7. \A call : /\ Engine!MovedStatus(call) = Mine!MovedStatus(call)
                /\ Engine!CancelledStatus(call) = Mine!CancelledStatus(call)
  BY DEF Engine!MovedStatus, Mine!MovedStatus, Engine!CancelledStatus, Mine!CancelledStatus
<1>8. \A S : Engine!Cardinality(S) = Cardinality(S) /\ Mine!Cardinality(S) = Cardinality(S)
  BY DEF Engine!Cardinality, Mine!Cardinality, Cardinality
<1>9. QED BY <1>1, <1>2, <1>3, <1>4, <1>5, <1>6, <1>7, <1>8

-----------------------------------------------------------------------------
(* What a mutator does live, and what its events do in a replay             *)

\* Replayed after v, the events make ts of the tasks and quarantine nothing.
ReplaysAs(v, events, ts) ==
    /\ events \in Seq(QuietEvents)
    /\ ts \in Seq(TaskRecord(Key))
    /\ Folded(v, events) = WithTasks(v, ts, v.seq + Len(events))

\* No events leave the view as it is.
LEMMA NoneReplayed ==
    ASSUME NEW v \in ViewType
    PROVE  ReplaysAs(v, <<>>, v.tasks)
<1>1. Folded(v, <<>>) = v /\ v.seq + 0 = v.seq
  BY FoldedEmpty DEF ViewType
<1>2. v = WithTasks(v, v.tasks, v.seq) /\ v.tasks \in Seq(TaskRecord(Key))
  BY DEF WithTasks, ViewType
<1>3. QED BY <1>1, <1>2 DEF ReplaysAs

\* Two rows are one row and another.
LEMMA PairJoined ==
    ASSUME NEW a \in QuietEvents, NEW b \in QuietEvents
    PROVE  <<a, b>> = <<a>> \o <<b>>
<1>1. <<a>> \in Seq(QuietEvents) /\ <<b>> \in Seq(QuietEvents)
  OBVIOUS
<1>2. <<a>> \o <<b>> \in Seq(QuietEvents) /\ Len(<<a>> \o <<b>>) = 2
  BY <1>1
<1>3. <<a, b>> \in Seq(QuietEvents) /\ Len(<<a, b>>) = 2
  OBVIOUS
<1>4. \A n \in 1 .. 2 : <<a, b>>[n] = (<<a>> \o <<b>>)[n]
  BY <1>1
<1>5. QED BY <1>2, <1>3, <1>4, SeqEqual

\* One event that fits.
LEMMA OneReplayed ==
    ASSUME NEW v \in ViewType, NEW event, NEW ts, Replays(v, event, ts)
    PROVE  ReplaysAs(v, <<event>>, ts)
<1>1. Folded(v, <<event>>) = ApplyEvent(v, event)
  BY QuietEvent, FoldedOne DEF Replays
<1>2. <<event>> \in Seq(QuietEvents) /\ Len(<<event>>) = 1
  BY DEF Replays
<1>3. QED BY <1>1, <1>2 DEF Replays, ReplaysAs

\* Events that are replayed after others.
LEMMA JoinReplayed ==
    ASSUME NEW v \in ViewType, NEW a, NEW us, ReplaysAs(v, a, us),
           NEW b, NEW ts, ReplaysAs(WithTasks(v, us, v.seq + Len(a)), b, ts)
    PROVE  ReplaysAs(v, a \o b, ts)
<1> DEFINE w == WithTasks(v, us, v.seq + Len(a))
<1>1. /\ a \in Seq(QuietEvents) /\ b \in Seq(QuietEvents)
      /\ ts \in Seq(TaskRecord(Key))
  BY DEF ReplaysAs
<1>2. QuietEvents \subseteq Event
  BY DEF QuietEvents, Event
<1>3. a \in Seq(Event) /\ b \in Seq(Event)
  BY <1>1, <1>2, SeqMonotonic
<1>4. w.seq = v.seq + Len(a) /\ v.seq \in Nat
      /\ \A seq : WithTasks(w, ts, seq) = WithTasks(v, ts, seq)
  BY DEF WithTasks, ViewType
<1>5. Folded(v, a) = w /\ Folded(w, b) = WithTasks(w, ts, w.seq + Len(b))
  BY DEF ReplaysAs
<1> HIDE DEF w
<1>6. Folded(v, a \o b) = WithTasks(w, ts, w.seq + Len(b))
  BY <1>3, <1>5, FoldedConcat
<1>7. a \o b \in Seq(QuietEvents) /\ w.seq + Len(b) = v.seq + Len(a \o b)
  BY <1>1, <1>4
<1>8. Folded(v, a \o b) = WithTasks(v, ts, v.seq + Len(a \o b))
  BY <1>4, <1>6, <1>7
<1>9. QED BY <1>1, <1>7, <1>8 DEF ReplaysAs

\* One task is changed and one event stands for it.
LEMMA FinishReplayed ==
    ASSUME NEW v \in ViewType, NEW i \in DOMAIN v.tasks, NEW now \in Nat,
           NEW type \in TransitionTypes, NEW late \in BOOLEAN, NEW to,
           StatusAfter(TaskEvent(type, i, now, now, late)) = to,
           CanTransition(v.tasks[i].status, to)
    PROVE  Replays(v, TaskEvent(type, i, now, now, late),
                   [v.tasks EXCEPT ![i] = WithStatus(@, to, now)])
<1> DEFINE event == TaskEvent(type, i, now, now, late)
<1>1. event \in TaskEvents
  <2>1. i \in Nat /\ now \in OptionalInstant
    BY DEF ViewType, OptionalInstant
  <2>2. QED BY <2>1 DEF TaskEvent, TaskEvents
<1>2. event.type = type /\ event.task = i /\ event.at = now /\ StatusAfter(event) = to
  BY DEF TaskEvent
<1> HIDE DEF event
<1>3. Replays(v, event, [v.tasks EXCEPT ![i] = WithStatus(@, to, now)])
  BY <1>1, <1>2, TransitionReplayed
<1>4. QED BY <1>3 DEF event

\* What an accepted call does live is what its events do in a replay.
LEMMA EffectReplayed ==
    ASSUME truth \in ViewType, NEW call \in Calls, NEW now \in Nat, Engine!Accepted(call, now),
           NEW v \in ViewType, v.tasks = truth.tasks
    PROVE  ReplaysAs(v, Effect(v.tasks, call, now).events, Effect(v.tasks, call, now).tasks)
<1> DEFINE ts == v.tasks
           i == call.task
           effect == Effect(ts, call, now)
<1>1. /\ call.start \in OptionalInstant /\ call.end \in OptionalInstant
      /\ call.deadline \in OptionalInstant /\ call.key \in Key
      /\ ts \in Seq(TaskRecord(Key))
  <2>1. Calls \subseteq Engine!ActionCall
    BY EngineAssumption
  <2>2. Engine!OptionalInstant = OptionalInstant
    BY DEF Engine!OptionalInstant, OptionalInstant, Engine!NoTime, NoTime
  <2>3. QED BY <2>1, <2>2 DEF Engine!ActionCall, ViewType
<1>2. CASE Engine!CanCreate(call)
  <2> DEFINE new == NewTask(call.start, call.end, call.deadline, NoTask, now, call.key)
  <2>1. effect = [tasks |-> Append(ts, new), events |-> <<CreatedEvent(new, now)>>]
    BY <1>2 DEF Effect, Engine!CanCreate
  <2>2. NoTask \in Nat /\ call.key \in Key \cup {NoKey}
    BY <1>1 DEF NoTask
  <2>3. Replays(v, CreatedEvent(new, now), Append(ts, new))
    BY <1>1, <2>2, CreationReplayed
  <2> HIDE DEF new, effect
  <2>4. ReplaysAs(v, effect.events, effect.tasks)
    BY <2>1, <2>3, OneReplayed
  <2>5. QED BY <2>4 DEF effect
<1>3. CASE Engine!CanStart(call)
  <2>1. /\ i \in DOMAIN ts
        /\ effect = [tasks |-> [ts EXCEPT ![i].actualStart = now],
                     events |-> <<TaskEvent("TASK_WORK_STARTED", i, now, now, FALSE)>>]
    BY <1>3 DEF Effect, Engine!CanStart, Engine!Known
  <2> HIDE DEF effect
  <2>2. ReplaysAs(v, effect.events, effect.tasks)
    BY <2>1, WorkStartReplayed, OneReplayed
  <2>3. QED BY <2>2 DEF effect
<1>4. CASE Engine!CanComplete(call)
  <2> DEFINE to == Mine!CompletionStatus(ts[i])
             late == to = "COMPLETED_LATE"
             event == TaskEvent("TASK_COMPLETED", i, now, now, late)
  <2>1. /\ i \in DOMAIN ts /\ CanTransition(ts[i].status, to)
        /\ to \in {"COMPLETED", "COMPLETED_LATE"}
    BY <1>4, EngineOperators DEF Engine!CanComplete, Engine!Known, Mine!CompletionStatus
  <2>2. effect = [tasks |-> [ts EXCEPT ![i] = WithStatus(@, to, now)], events |-> <<event>>]
    BY <1>4 DEF Effect, Engine!CanComplete
  <2> HIDE DEF to, effect
  <2>3. late \in BOOLEAN /\ StatusAfter(event) = to
    BY <2>1 DEF StatusAfter, TaskEvent
  <2>4. "TASK_COMPLETED" \in TransitionTypes
    BY DEF TransitionTypes
  <2> HIDE DEF late
  <2>5. Replays(v, event, [ts EXCEPT ![i] = WithStatus(@, to, now)])
    BY <2>1, <2>3, <2>4, FinishReplayed
  <2> HIDE DEF event
  <2>6. ReplaysAs(v, effect.events, effect.tasks)
    BY <2>2, <2>5, OneReplayed
  <2>7. QED BY <2>6 DEF effect
<1>5. CASE Engine!CanCancel(call)
  <2> DEFINE to == Mine!CancelledStatus(call)
             event == TaskEvent(EventTypeOf(to), i, now, now, FALSE)
  <2>1. /\ i \in DOMAIN ts /\ CanTransition(ts[i].status, to)
        /\ to \in {"DROPPED", "CANCELLED"}
    BY <1>5, EngineOperators DEF Engine!CanCancel, Engine!Known, Mine!CancelledStatus
  <2>2. effect = [tasks |-> [ts EXCEPT ![i] = WithStatus(@, to, now)], events |-> <<event>>]
    BY <1>5 DEF Effect, Engine!CanCancel
  <2> HIDE DEF to, effect
  <2>3. EventTypeOf(to) \in TransitionTypes /\ StatusAfter(event) = to
    BY <2>1 DEF StatusAfter, TaskEvent, EventTypeOf, TransitionTypes
  <2>4. Replays(v, event, [ts EXCEPT ![i] = WithStatus(@, to, now)])
    BY <2>1, <2>3, FinishReplayed
  <2> HIDE DEF event
  <2>5. ReplaysAs(v, effect.events, effect.tasks)
    BY <2>2, <2>4, OneReplayed
  <2>6. QED BY <2>5 DEF effect
<1>6. CASE Engine!CanMove(call, now)
  <2> DEFINE to == Mine!MovedStatus(call)
             deadline == IF call.deadline # NoTime THEN call.deadline ELSE ts[i].deadline
             new == NewTask(call.start, call.end, deadline, i, now, NoKey)
             moving == TaskEvent(EventTypeOf(to), i, now, now, FALSE)
             us == [ts EXCEPT ![i] = WithStatus(@, to, now)]
             w == WithTasks(v, us, v.seq + 1)
  <2>1. /\ i \in DOMAIN ts /\ CanTransition(ts[i].status, to)
        /\ to \in {"RESCHEDULED", "CARRIED_FORWARD"}
    BY <1>6, EngineOperators DEF Engine!CanMove, Engine!Known, Mine!MovedStatus
  <2>2. effect = [tasks |-> Append(us, new), events |-> <<moving, CreatedEvent(new, now)>>]
    BY <1>6 DEF Effect, Engine!CanMove
  <2>3. deadline \in OptionalInstant /\ i \in Nat /\ NoKey \in Key \cup {NoKey}
    <3>1. ts[i] \in TaskRecord(Key) /\ i \in Nat
      BY <1>1, <2>1
    <3>2. QED BY <1>1, <3>1 DEF TaskRecord
  <2> HIDE DEF to, deadline, effect
  <2>4. EventTypeOf(to) \in TransitionTypes /\ StatusAfter(moving) = to
    BY <2>1 DEF StatusAfter, TaskEvent, EventTypeOf, TransitionTypes
  <2>5. Replays(v, moving, us)
    BY <2>1, <2>4, FinishReplayed
  <2> HIDE DEF us, moving
  <2>6. w \in ViewType /\ w.tasks = us
    BY <2>5 DEF Replays, WithTasks, ViewType
  <2> HIDE DEF w
  <2>7. Replays(w, CreatedEvent(new, now), Append(w.tasks, new))
    BY <1>1, <2>3, <2>6, CreationReplayed
  <2> HIDE DEF new
  <2>8. ReplaysAs(v, <<moving>>, us) /\ ReplaysAs(w, <<CreatedEvent(new, now)>>, Append(us, new))
    BY <2>5, <2>6, <2>7, OneReplayed
  <2>9. Len(<<moving>>) = 1
        /\ <<moving>> \o <<CreatedEvent(new, now)>> = <<moving, CreatedEvent(new, now)>>
    <3> DEFINE creating == CreatedEvent(new, now)
    <3>1. moving \in QuietEvents /\ creating \in QuietEvents
      BY <2>5, <2>7 DEF Replays
    <3> HIDE DEF creating
    <3>2. <<moving>> \o <<creating>> = <<moving, creating>>
      BY <3>1, PairJoined
    <3>3. QED BY <3>2 DEF creating
  <2>10. ReplaysAs(v, <<moving>> \o <<CreatedEvent(new, now)>>, Append(us, new))
    BY <2>8, <2>9, JoinReplayed DEF w
  <2>11. ReplaysAs(v, effect.events, effect.tasks)
    BY <2>2, <2>9, <2>10
  <2>12. QED BY <2>11 DEF effect
<1>7. QED BY <1>2, <1>3, <1>4, <1>5, <1>6 DEF Engine!Accepted

-----------------------------------------------------------------------------
(* A tick, replayed                                                         *)

TickTypes == {"TASK_STARTED", "TASK_WINDOW_ENDED", "TASK_DEADLINE_BREACHED"}
TickEvent == [type : TickTypes, occurred : OptionalInstant]

\* A boundary of the task t was not reached, or u is t past it and a row says so.
Passes(t, i, type, occurred, now, events, u) ==
    LET event == TaskEvent(type, i, occurred, now, FALSE)
        to == StatusAfter(event)
    IN  \/ events = <<>> /\ u = t
        \/ /\ events = <<event>>
           /\ CanTransition(t.status, to)
           /\ u = WithStatus(t, to, now)

\* One of the three boundaries of a task: passed, or not.
LEMMA BoundaryReplayed ==
    ASSUME NEW v \in ViewType, NEW i \in DOMAIN v.tasks, NEW now \in Nat,
           NEW type \in TickTypes, NEW occurred \in OptionalInstant, NEW events, NEW u,
           Passes(v.tasks[i], i, type, occurred, now, events, u)
    PROVE  ReplaysAs(v, events, [v.tasks EXCEPT ![i] = u])
<1> DEFINE to == StatusAfter(TaskEvent(type, i, occurred, now, FALSE))
<1>1. CASE events = <<>> /\ u = v.tasks[i]
  <2>1. [v.tasks EXCEPT ![i] = u] = v.tasks
    BY <1>1 DEF ViewType
  <2>2. QED BY <1>1, <2>1, NoneReplayed
<1>2. CASE /\ events = <<TaskEvent(type, i, occurred, now, FALSE)>>
           /\ CanTransition(v.tasks[i].status, to)
           /\ u = WithStatus(v.tasks[i], to, now)
  <2> DEFINE event == TaskEvent(type, i, occurred, now, FALSE)
  <2>1. event \in TaskEvents
    <3>1. i \in Nat
      BY DEF ViewType
    <3>2. QED BY <3>1 DEF TaskEvent, TaskEvents, TickTypes, TransitionTypes
  <2>2. /\ event.type \in TransitionTypes /\ event.task = i /\ event.at = now
        /\ to = StatusAfter(event)
    BY DEF TaskEvent, TickTypes, TransitionTypes
  <2> HIDE DEF event
  <2>3. Replays(v, event, [v.tasks EXCEPT ![i] = WithStatus(@, to, now)])
    BY <1>2, <2>1, <2>2, TransitionReplayed
  <2>4. Replays(v, event, [v.tasks EXCEPT ![i] = u])
    BY <1>2, <2>3
  <2>5. ReplaysAs(v, <<event>>, [v.tasks EXCEPT ![i] = u])
    BY <2>4, OneReplayed
  <2>6. QED BY <1>2, <2>5 DEF event
<1>3. QED BY <1>1, <1>2 DEF Passes

\* What a tick appends for one task (TickEvents), as rows of the log.
TickRows(t, i, now) ==
    [n \in DOMAIN TickEvents(t, now) |->
        TaskEvent(TickEvents(t, now)[n].type, i, TickEvents(t, now)[n].occurred, now, FALSE)]

\* A row if the boundary is passed.
RowIf(passed, type, i, occurred, now) ==
    IF passed THEN <<TaskEvent(type, i, occurred, now, FALSE)>> ELSE <<>>

\* The rows, one boundary after the other.
LEMMA TickRowsAre ==
    ASSUME NEW t \in TaskRecord(Key), NEW i \in Nat, NEW now \in Nat
    PROVE  TickRows(t, i, now) =
              RowIf(WindowOpens(t, now), "TASK_STARTED", i, t.start, now)
              \o RowIf(WindowEnds(Opened(t, now), now), "TASK_WINDOW_ENDED", i, t.end, now)
              \o RowIf(DeadlineBreaks(Ended(Opened(t, now), now), now),
                       "TASK_DEADLINE_BREACHED", i, t.deadline, now)
<1> DEFINE row(e) == TaskEvent(e.type, i, e.occurred, now, FALSE)
           F == [e \in TickEvent |-> row(e)]
           opens == WindowOpens(t, now)
           ends == WindowEnds(Opened(t, now), now)
           breaks == DeadlineBreaks(Ended(Opened(t, now), now), now)
           x == [type |-> "TASK_STARTED", occurred |-> t.start]
           y == [type |-> "TASK_WINDOW_ENDED", occurred |-> t.end]
           z == [type |-> "TASK_DEADLINE_BREACHED", occurred |-> t.deadline]
           a == IF opens THEN <<x>> ELSE <<>>
           b == IF ends THEN <<y>> ELSE <<>>
           c == IF breaks THEN <<z>> ELSE <<>>
<1>1. F \in [TickEvent -> TaskEvents]
  BY DEF TickEvent, TickTypes, TaskEvents, TransitionTypes, TaskEvent
<1>2. x \in TickEvent /\ y \in TickEvent /\ z \in TickEvent
  BY DEF TickEvent, TickTypes, TaskRecord
<1>3. TickEvents(t, now) = a \o b \o c
  BY DEF TickEvents
<1>4. /\ F[x] = TaskEvent("TASK_STARTED", i, t.start, now, FALSE)
      /\ F[y] = TaskEvent("TASK_WINDOW_ENDED", i, t.end, now, FALSE)
      /\ F[z] = TaskEvent("TASK_DEADLINE_BREACHED", i, t.deadline, now, FALSE)
  BY <1>2
<1> HIDE DEF x, y, z, opens, ends, breaks
<1>5. a \in Seq(TickEvent) /\ b \in Seq(TickEvent) /\ c \in Seq(TickEvent)
  BY <1>2
<1>6. TickRows(t, i, now) = Mapped(F, a \o b \o c)
  <2> DEFINE s == TickEvents(t, now)
  <2>1. s \in Seq(TickEvent)
    <3> HIDE DEF a, b, c, s
    <3>1. QED BY <1>3, <1>5 DEF s
  <2>2. TickRows(t, i, now) = [n \in DOMAIN s |-> row(s[n])]
    BY DEF TickRows
  <2> HIDE DEF s, row
  <2>3. \A n \in DOMAIN s : row(s[n]) = F[s[n]]
    BY <2>1
  <2> HIDE DEF F
  <2>4. [n \in DOMAIN s |-> row(s[n])] = Mapped(F, s)
    BY <2>3 DEF Mapped
  <2>5. QED BY <1>3, <2>2, <2>4 DEF s
<1> HIDE DEF F
<1>7. Mapped(F, a \o b \o c) = Mapped(F, a) \o Mapped(F, b) \o Mapped(F, c)
  <2> HIDE DEF a, b, c
  <2>1. a \o b \in Seq(TickEvent)
    BY <1>5
  <2>2. Mapped(F, a \o b \o c) = Mapped(F, a \o b) \o Mapped(F, c)
    BY <1>1, <1>5, <2>1, MapJoined
  <2>3. Mapped(F, a \o b) = Mapped(F, a) \o Mapped(F, b)
    BY <1>1, <1>5, MapJoined
  <2>4. QED BY <2>2, <2>3
<1>8. \A e : Mapped(F, <<e>>) = <<F[e]>>
  BY DEF Mapped
<1>9. Mapped(F, <<>>) = <<>>
  BY DEF Mapped
<1>10. /\ Mapped(F, a) = RowIf(opens, "TASK_STARTED", i, t.start, now)
       /\ Mapped(F, b) = RowIf(ends, "TASK_WINDOW_ENDED", i, t.end, now)
       /\ Mapped(F, c) = RowIf(breaks, "TASK_DEADLINE_BREACHED", i, t.deadline, now)
  BY <1>4, <1>8, <1>9 DEF RowIf
<1>11. QED BY <1>6, <1>7, <1>10 DEF opens, ends, breaks

\* What the rows of one task's tick do in a replay.
LEMMA TaskTickReplayed ==
    ASSUME NEW v \in ViewType, NEW i \in DOMAIN v.tasks, NEW now \in Nat
    PROVE  ReplaysAs(v, TickRows(v.tasks[i], i, now),
                     [v.tasks EXCEPT ![i] = Ticked(v.tasks[i], now)])
<1> DEFINE ts == v.tasks
           t == ts[i]
           t1 == Opened(t, now)
           t2 == Ended(t1, now)
           t3 == Breached(t2, now)
           a == RowIf(WindowOpens(t, now), "TASK_STARTED", i, t.start, now)
           b == RowIf(WindowEnds(t1, now), "TASK_WINDOW_ENDED", i, t.end, now)
           c == RowIf(DeadlineBreaks(t2, now), "TASK_DEADLINE_BREACHED", i, t.deadline, now)
           us1 == [ts EXCEPT ![i] = t1]
           us2 == [ts EXCEPT ![i] = t2]
           us3 == [ts EXCEPT ![i] = t3]
           v1 == WithTasks(v, us1, v.seq + Len(a))
           v2 == WithTasks(v, us2, v.seq + Len(a \o b))
<1>1. /\ t \in TaskRecord(Key) /\ ts \in Seq(TaskRecord(Key)) /\ i \in DOMAIN ts
      /\ i \in Nat /\ v.seq \in Nat
  BY DEF ViewType
<1>2. TickRows(t, i, now) = a \o b \o c /\ Ticked(t, now) = t3
  <2>1. TickRows(t, i, now) = a \o b \o c
    BY <1>1, TickRowsAre
  <2>2. QED BY <2>1 DEF Ticked
<1>3. /\ t1 \in TaskRecord(Key) /\ t1.end = t.end /\ t1.deadline = t.deadline
      /\ t2 \in TaskRecord(Key) /\ t2.deadline = t.deadline
      /\ t.start \in OptionalInstant /\ t.end \in OptionalInstant
      /\ t.deadline \in OptionalInstant
  <2>1. t1 \in TaskRecord(Key) /\ t1.end = t.end /\ t1.deadline = t.deadline
    BY <1>1 DEF Opened, WithStatus, TaskRecord, OptionalInstant, Statuses, LiveStatuses
  <2> HIDE DEF t1
  <2>2. t2 \in TaskRecord(Key) /\ t2.deadline = t1.deadline
    BY <2>1 DEF Ended, WithStatus, TaskRecord, OptionalInstant, Statuses, LiveStatuses
  <2>3. QED BY <1>1, <2>1, <2>2 DEF TaskRecord
<1>4. ReplaysAs(v, a, us1)
  <2> DEFINE event == TaskEvent("TASK_STARTED", i, t.start, now, FALSE)
  <2>1. StatusAfter(event) = "ACTIVE"
    BY DEF StatusAfter, TaskEvent
  <2>2. Passes(t, i, "TASK_STARTED", t.start, now, a, t1)
    BY <2>1 DEF Passes, RowIf, Opened, WindowOpens, CanTransition, Transitions, Statuses, LiveStatuses
  <2>3. "TASK_STARTED" \in TickTypes
    BY DEF TickTypes
  <2> HIDE DEF a, t1
  <2>4. QED BY <1>3, <2>2, <2>3, BoundaryReplayed
<1>5. ReplaysAs(v1, b, us2)
  <2> DEFINE event == TaskEvent("TASK_WINDOW_ENDED", i, t.end, now, FALSE)
  <2>1. StatusAfter(event) = "WINDOW_ENDED"
    BY DEF StatusAfter, TaskEvent
  <2>2. Passes(t1, i, "TASK_WINDOW_ENDED", t.end, now, b, t2)
    <3> HIDE DEF t1
    <3>1. QED BY <2>1 DEF Passes, RowIf, Ended, WindowEnds, CanTransition, Transitions, Statuses, LiveStatuses
  <2>3. "TASK_WINDOW_ENDED" \in TickTypes
    BY DEF TickTypes
  <2> HIDE DEF b, t1, t2, a
  <2>4. v1 \in ViewType /\ v1.tasks = us1
    BY <1>4 DEF ReplaysAs, WithTasks, ViewType, QuietEvents
  <2>5. i \in DOMAIN us1 /\ us1[i] = t1 /\ [us1 EXCEPT ![i] = t2] = us2
    BY <1>1, <1>3
  <2> HIDE DEF us1, us2, v1
  <2>6. QED BY <1>3, <2>2, <2>3, <2>4, <2>5, BoundaryReplayed
<1>6. ReplaysAs(v, a \o b, us2)
  <2> HIDE DEF a, b, us1, us2
  <2>1. QED BY <1>4, <1>5, JoinReplayed
<1>7. ReplaysAs(v2, c, us3)
  <2> DEFINE event == TaskEvent("TASK_DEADLINE_BREACHED", i, t.deadline, now, FALSE)
  <2>1. StatusAfter(event) = "OVERDUE"
    BY DEF StatusAfter, TaskEvent
  <2>2. Passes(t2, i, "TASK_DEADLINE_BREACHED", t.deadline, now, c, t3)
    <3> HIDE DEF t2
    <3>1. QED BY <2>1 DEF Passes, RowIf, Breached, DeadlineBreaks, CanTransition, Transitions, Statuses,
                     LiveStatuses, EarlyExits
  <2>3. "TASK_DEADLINE_BREACHED" \in TickTypes
    BY DEF TickTypes
  <2> HIDE DEF a, b, c, t1, t2, t3
  <2>4. v2 \in ViewType /\ v2.tasks = us2
    BY <1>6 DEF ReplaysAs, WithTasks, ViewType, QuietEvents
  <2>5. i \in DOMAIN us2 /\ us2[i] = t2 /\ [us2 EXCEPT ![i] = t3] = us3
    BY <1>1, <1>3
  <2> HIDE DEF us2, us3, v2
  <2>6. QED BY <1>3, <2>2, <2>3, <2>4, <2>5, BoundaryReplayed
<1>8. ReplaysAs(v, (a \o b) \o c, us3)
  <2> HIDE DEF a, b, c, us2, us3
  <2>1. QED BY <1>6, <1>7, JoinReplayed
<1>9. QED BY <1>2, <1>8

\* A tick of all tasks: what it does live is what its rows do in a replay.
LEMMA TickReplayed ==
    ASSUME NEW v \in ViewType, NEW now \in Nat
    PROVE  ReplaysAs(v, TickLog(v.tasks, now),
                     [i \in DOMAIN v.tasks |-> Ticked(v.tasks[i], now)])
<1> DEFINE ts == v.tasks
           N == Len(ts)
           parts == [i \in 1 .. N |-> TickRows(ts[i], i, now)]
           upTo(k) == [i \in 1 .. N |-> IF i <= k THEN Ticked(ts[i], now) ELSE ts[i]]
<1>1. /\ ts \in Seq(TaskRecord(Key)) /\ N \in Nat /\ DOMAIN ts = 1 .. N
      /\ v.seq \in Nat
  BY DEF ViewType
<1>2. ASSUME NEW w \in ViewType, NEW i \in DOMAIN w.tasks
      PROVE  ReplaysAs(w, TickRows(w.tasks[i], i, now),
                       [w.tasks EXCEPT ![i] = Ticked(w.tasks[i], now)])
  BY TaskTickReplayed
<1>3. parts \in Seq(Seq(QuietEvents)) /\ Len(parts) = N
  <2>1. ASSUME NEW i \in 1 .. N PROVE TickRows(ts[i], i, now) \in Seq(QuietEvents)
    BY <1>1, <1>2 DEF ReplaysAs
  <2>2. QED BY <1>1, <2>1
<1>4. TickLog(ts, now) = FlattenSeq(parts)
  BY <1>1 DEF TickLog, TickRows
<1>5. \A i \in 1 .. N : parts[i] = TickRows(ts[i], i, now)
  OBVIOUS
<1> HIDE DEF parts
<1>6. PICK f \in [0 .. N -> Seq(QuietEvents)] :
          /\ f[0] = <<>>
          /\ \A k \in 1 .. N : f[k] = f[k - 1] \o parts[k]
          /\ FlattenSeq(parts) = f[N]
  <2>1. \E f \in [0 .. Len(parts) -> Seq(QuietEvents)] :
            /\ f[0] = <<>>
            /\ \A k \in 1 .. Len(parts) : f[k] = f[k - 1] \o parts[k]
            /\ FlattenSeq(parts) = f[Len(parts)]
    BY <1>3, FlattenSteps
  <2> HIDE DEF N
  <2>2. QED BY <1>3, <2>1
<1> DEFINE T == {k \in 0 .. N : ReplaysAs(v, f[k], upTo(k))}
<1>7. 0 \in T
  <2>1. upTo(0) = ts
    <3>1. \A i \in 1 .. N : ~(i <= 0)
      BY <1>1
    <3>2. upTo(0) = [i \in 1 .. N |-> ts[i]]
      BY <3>1
    <3>3. ts = [i \in 1 .. N |-> ts[i]]
      BY <1>1
    <3>4. QED BY <3>2, <3>3
  <2>2. ReplaysAs(v, <<>>, ts)
    BY NoneReplayed
  <2> HIDE DEF N, ts, upTo
  <2>3. QED BY <1>1, <1>6, <2>1, <2>2
<1>8. ASSUME NEW k \in 0 .. N - 1, k \in T PROVE k + 1 \in T
  <2> DEFINE i == k + 1
             us == upTo(k)
             w == WithTasks(v, us, v.seq + Len(f[k]))
  <2>1. i \in 1 .. N /\ k \in 0 .. N /\ i - 1 = k
    BY <1>1
  <2>2. ReplaysAs(v, f[k], us)
    BY <1>8
  <2>3. us[i] = ts[i] /\ i \in DOMAIN us
    BY <1>1, <2>1
  <2>4. [us EXCEPT ![i] = Ticked(ts[i], now)] = upTo(i)
    <3> DEFINE new == [us EXCEPT ![i] = Ticked(ts[i], now)]
    <3>1. \A j \in 1 .. N : j <= i <=> j <= k \/ j = i
      BY <1>1, <2>1
    <3>2. \A j \in 1 .. N : new[j] = IF j = i THEN Ticked(ts[j], now) ELSE us[j]
      OBVIOUS
    <3>3. \A j \in 1 .. N : new[j] = upTo(i)[j]
      BY <3>1, <3>2
    <3>4. new = [j \in 1 .. N |-> new[j]]
      OBVIOUS
    <3>5. QED BY <3>3, <3>4
  <2> HIDE DEF i, us, ts, upTo, N
  <2>5. w \in ViewType /\ w.tasks = us
    <3>1. f[k] \in Seq(QuietEvents)
      BY <1>6, <2>1
    <3>2. QED BY <1>1, <2>2, <3>1 DEF ReplaysAs, WithTasks, ViewType
  <2>6. ReplaysAs(w, TickRows(w.tasks[i], i, now), [w.tasks EXCEPT ![i] = Ticked(w.tasks[i], now)])
    <3> HIDE DEF w
    <3>1. QED BY <1>2, <2>3, <2>5
  <2>7. ReplaysAs(w, parts[i], upTo(i))
    BY <1>5, <2>1, <2>3, <2>4, <2>5, <2>6
  <2>8. ReplaysAs(v, f[k] \o parts[i], upTo(i))
    BY <2>2, <2>7, JoinReplayed
  <2>9. f[i] = f[k] \o parts[i]
    BY <1>6, <2>1
  <2>10. i \in T
    <3>1. i \in 0 .. N /\ ReplaysAs(v, f[i], upTo(i))
      BY <1>1, <2>1, <2>8, <2>9
    <3>2. QED BY <3>1
  <2>11. QED BY <2>10 DEF i
<1>9. \A k \in 0 .. N : k \in T
  <2> HIDE DEF T, N
  <2>1. QED BY <1>1, <1>7, <1>8, Induction
<1>10. ReplaysAs(v, f[N], upTo(N))
  BY SMTT(30), <1>1, <1>9
<1>11. upTo(N) = [i \in DOMAIN ts |-> Ticked(ts[i], now)]
  BY <1>1
<1>12. QED BY <1>4, <1>6, <1>10, <1>11

-----------------------------------------------------------------------------
(* What is decided on a view that is up to date is what the engine decides   *)

\* The mutators decide on an up-to-date view as they would on the log's tasks.
LEMMA AcceptedAlike ==
    ASSUME view[txn.by] = truth, NEW call, NEW now
    PROVE  Mine!Accepted(call, now) <=> Engine!Accepted(call, now)
<1>1. Mine!CanCreate(call) <=> Engine!CanCreate(call)
  BY DEF Mine!CanCreate, Engine!CanCreate, Mine!ValidSchedule, Engine!ValidSchedule,
         Mine!NoTime, Engine!NoTime
<1>2. Mine!CanStart(call) <=> Engine!CanStart(call)
  BY DEF Mine!CanStart, Engine!CanStart, Mine!Known, Engine!Known, Mine!IsTerminal,
         Engine!IsTerminal, Mine!TerminalStatuses, Engine!TerminalStatuses,
         Mine!NoTime, Engine!NoTime
<1>3. \A from, to : Mine!CanTransition(from, to) <=> Engine!CanTransition(from, to)
  BY DEF Engine!CanTransition, Mine!CanTransition, Engine!Transitions, Mine!Transitions,
         Engine!Statuses, Mine!Statuses, Engine!LiveStatuses, Mine!LiveStatuses,
         Engine!TerminalStatuses, Mine!TerminalStatuses, Engine!EarlyExits, Mine!EarlyExits,
         Engine!LateExits, Mine!LateExits
<1>4. Mine!CanComplete(call) <=> Engine!CanComplete(call)
  BY <1>3, EngineOperators DEF Mine!CanComplete, Engine!CanComplete, Mine!Known, Engine!Known
<1>5. Mine!CanMove(call, now) <=> Engine!CanMove(call, now)
  <2>1. \A ts, i : Mine!Ancestors(ts, i) = Engine!Ancestors(ts, i)
    BY DEF Mine!Ancestors, Engine!Ancestors, Mine!NoTask, Engine!NoTask
  <2>2. Mine!RecentMoves(call.task, now) = Engine!RecentMoves(call.task, now)
    BY <2>1 DEF Mine!RecentMoves, Engine!RecentMoves, Mine!NoTime, Engine!NoTime
  <2>3. Mine!DeadlineAfter(call) = Engine!DeadlineAfter(call)
    BY DEF Mine!DeadlineAfter, Engine!DeadlineAfter, Mine!NoTime, Engine!NoTime
  <2>4. \A start, end, deadline : Mine!ValidSchedule(start, end, deadline)
                                    <=> Engine!ValidSchedule(start, end, deadline)
    BY DEF Mine!ValidSchedule, Engine!ValidSchedule, Mine!NoTime, Engine!NoTime
  <2>5. Mine!NoTime = Engine!NoTime
    BY DEF Mine!NoTime, Engine!NoTime
  <2>6. QED BY <1>3, <2>2, <2>3, <2>4, <2>5, EngineOperators
        DEF Mine!CanMove, Engine!CanMove, Mine!Known, Engine!Known
<1>6. Mine!CanCancel(call) <=> Engine!CanCancel(call)
  BY <1>3, EngineOperators DEF Mine!CanCancel, Engine!CanCancel, Mine!Known, Engine!Known
<1>7. QED BY <1>1, <1>2, <1>4, <1>5, <1>6 DEF Mine!Accepted, Engine!Accepted

\* The limit, counted in the log, is the limit, counted in the tasks.
LEMMA OverLimitAlike ==
    ASSUME log \in Seq(Event), truth = Replay(log), view[txn.by] = truth,
           NEW call, NEW now \in Nat, NEW confirmed \in BOOLEAN
    PROVE  OverLimit(call, now, confirmed) <=> Engine!OverLimit(call, now, confirmed)
<1> DEFINE since == now - CreationWindow
           E == {n \in DOMAIN log : log[n].type = "TASK_CREATED"
                                    /\ log[n].key # NoKey /\ log[n].at >= since}
           C == {i \in DOMAIN truth.tasks : truth.tasks[i].key # NoKey
                                            /\ truth.tasks[i].createdAt >= since}
<1>1. since \in Int
  BY EngineAssumption
<1> HIDE DEF since
<1>2. Cardinality(E) = Cardinality(C)
  <2>1. Cardinality(E)
          = Cardinality({i \in DOMAIN Replay(log).tasks :
                            /\ Replay(log).tasks[i].key # NoKey
                            /\ Replay(log).tasks[i].createdAt >= since})
    BY <1>1, CreationsCounted, Zenon
  <2>2. QED BY <2>1, Zenon
<1>3. Engine!CreationsSince(since) = C
  BY EngineOperators DEF Engine!CreationsSince
<1>4. OverLimit(call, now, confirmed)
         <=> /\ call.action = "create_task" /\ call.key \notin truth.seen
             /\ confirmed \/ ~call.holds
             /\ Cardinality(E) >= MaxCreations
  BY DEF OverLimit, since
<1>5. Engine!OverLimit(call, now, confirmed)
         <=> /\ call.action = "create_task" /\ call.key \notin truth.seen
             /\ confirmed \/ ~call.holds
             /\ Cardinality(Engine!CreationsSince(since)) >= MaxCreations
  BY EngineOperators DEF Engine!OverLimit, since
<1> HIDE DEF E, C
<1>6. QED BY <1>2, <1>3, <1>4, <1>5

\* Why a decision on the log's tasks may have the outcome.
Justifies(call, now, confirmed, outcome) ==
    \/ /\ outcome = "applied"
       /\ Engine!Runs(call, now, confirmed) /\ Engine!Accepted(call, now)
    \/ /\ outcome = "superseded"
       /\ call.key \in truth.seen
    \/ /\ outcome = "rejected"
       /\ call.key \notin truth.seen
       /\ \/ Engine!OverLimit(call, now, confirmed)
          \/ call.holds /\ ~confirmed /\ call.oversized
          \/ Engine!Runs(call, now, confirmed) /\ ~Engine!Accepted(call, now)
    \/ /\ outcome = "pending_confirmation"
       /\ call.key \notin truth.seen
       /\ call.holds /\ ~confirmed /\ ~call.oversized

\* The outcome of a decision on an up-to-date view is one TaskEngine gives.
LEMMA OutcomeJustified ==
    ASSUME log \in Seq(Event), truth = Replay(log), view[txn.by] = truth,
           NEW call, NEW now \in Nat, NEW confirmed \in BOOLEAN
    PROVE  /\ Outcome(call, now, confirmed) \in Outcomes
           /\ Justifies(call, now, confirmed, Outcome(call, now, confirmed))
<1> DEFINE over == Engine!OverLimit(call, now, confirmed)
           accepted == Engine!Accepted(call, now)
<1>1. Outcome(call, now, confirmed) =
         CASE over -> "rejected"
           [] OTHER ->
              CASE call.key \in truth.seen -> "superseded"
                [] OTHER ->
                   CASE call.holds /\ ~confirmed ->
                           IF call.oversized THEN "rejected" ELSE "pending_confirmation"
                     [] OTHER -> IF accepted THEN "applied" ELSE "rejected"
  <2>1. OverLimit(call, now, confirmed) <=> over
    BY OverLimitAlike
  <2>2. Mine!Accepted(call, now) <=> accepted
    BY AcceptedAlike
  <2> HIDE DEF over, accepted
  <2>3. QED BY <2>1, <2>2 DEF Outcome
<1>2. over => call.key \notin truth.seen /\ (confirmed \/ ~call.holds)
  BY DEF Engine!OverLimit
<1>3. Engine!Runs(call, now, confirmed)
         <=> call.key \notin truth.seen /\ (confirmed \/ ~call.holds) /\ ~over
  BY DEF Engine!Runs
<1> HIDE DEF over, accepted
<1>4. QED BY <1>1, <1>2, <1>3 DEF Justifies, Outcomes, over, accepted

-----------------------------------------------------------------------------
(* The events of a whole transaction                                        *)

\* The tasks after a decision, and the rows that stand for it.
TasksOf(call, now, outcome) ==
    IF outcome = "applied" THEN Effect(truth.tasks, call, now).tasks ELSE truth.tasks

EffectRows(call, now, outcome) ==
    IF outcome = "applied" THEN Effect(truth.tasks, call, now).events ELSE <<>>

RowsOf(call, now, outcome) ==
    <<DecisionEvent(call, now, outcome)>> \o EffectRows(call, now, outcome)

\* What the log's tasks and indexes become by it.
Target(call, now, outcome) ==
    LET released == {c \in truth.pending : c.key # call.key} IN
    [tasks |-> TasksOf(call, now, outcome),
     seen |-> IF outcome = "applied" THEN truth.seen \cup {call.key} ELSE truth.seen,
     pending |-> IF outcome = "pending_confirmation" THEN released \cup {call} ELSE released,
     quarantined |-> truth.quarantined,
     seq |-> truth.seq + Len(RowsOf(call, now, outcome))]

\* The rows of a decision replay to what it did.
LEMMA DecisionReplayed ==
    ASSUME truth \in ViewType, NEW call \in Calls, NEW now \in Nat, NEW outcome \in Outcomes,
           outcome = "applied" => Engine!Accepted(call, now)
    PROVE  /\ EffectRows(call, now, outcome) \in Seq(QuietEvents)
           /\ TasksOf(call, now, outcome) \in Seq(TaskRecord(Key))
           /\ RowsOf(call, now, outcome) \in Seq(Event)
           /\ Folded(truth, RowsOf(call, now, outcome)) = Target(call, now, outcome)
<1> DEFINE d == DecisionEvent(call, now, outcome)
           rest == EffectRows(call, now, outcome)
           ts == TasksOf(call, now, outcome)
           released == {c \in truth.pending : c.key # call.key}
           w == ApplyEvent(truth, d)
<1>1. /\ d \in Event
      /\ w = [tasks |-> truth.tasks,
              seen |-> IF outcome = "applied" THEN truth.seen \cup {call.key} ELSE truth.seen,
              pending |-> IF outcome = "pending_confirmation" THEN released \cup {call}
                          ELSE released,
              quarantined |-> truth.quarantined, seq |-> truth.seq + 1]
  BY DecisionApplied
<1> HIDE DEF d
<1>2. w \in ViewType
  BY <1>1, ApplyEventFields
<1>3. Folded(truth, <<d>>) = w
  BY <1>1, FoldedOne
<1> HIDE DEF w
<1>4. w.tasks = truth.tasks /\ w.seq = truth.seq + 1 /\ truth.seq \in Nat
  BY <1>1 DEF ViewType
<1>5. ReplaysAs(w, rest, ts)
  <2>1. CASE outcome = "applied"
    <3>1. ReplaysAs(w, Effect(w.tasks, call, now).events, Effect(w.tasks, call, now).tasks)
      BY <1>2, <1>4, <2>1, EffectReplayed
    <3>2. QED BY <1>4, <2>1, <3>1 DEF EffectRows, TasksOf
  <2>2. CASE outcome # "applied"
    <3>1. ReplaysAs(w, <<>>, w.tasks)
      BY <1>2, NoneReplayed
    <3>2. QED BY <1>4, <2>2, <3>1 DEF EffectRows, TasksOf
  <2>3. QED BY <2>1, <2>2
<1> HIDE DEF rest, ts
<1>6. /\ rest \in Seq(QuietEvents) /\ ts \in Seq(TaskRecord(Key))
      /\ Folded(w, rest) = WithTasks(w, ts, w.seq + Len(rest))
  BY <1>5 DEF ReplaysAs
<1>7. rest \in Seq(Event) /\ <<d>> \in Seq(Event)
  <2>1. QuietEvents \subseteq Event
    BY DEF QuietEvents, Event
  <2>2. QED BY <1>1, <1>6, <2>1, SeqMonotonic
<1>8. Folded(truth, <<d>> \o rest) = WithTasks(w, ts, w.seq + Len(rest))
  BY <1>3, <1>6, <1>7, FoldedConcat
<1>9. <<d>> \o rest \in Seq(Event) /\ w.seq + Len(rest) = truth.seq + Len(<<d>> \o rest)
  BY <1>4, <1>7
<1>10. RowsOf(call, now, outcome) = <<d>> \o rest
  BY DEF RowsOf, d, rest
<1>11. Target(call, now, outcome) = WithTasks(w, ts, truth.seq + Len(<<d>> \o rest))
  BY <1>1, <1>10 DEF Target, WithTasks, ts
<1>12. QED BY <1>6, <1>8, <1>9, <1>10, <1>11 DEF rest, ts

\* The events of a transaction of TaskEngine, begun on the log as it is.
Transaction(events) ==
    \E now \in 0 .. MaxInstant :
        \/ events = TickLog(truth.tasks, now)
        \/ \E call \in Calls :
              \/ events = RowsOf(call, now, "rejected")
              \/ \E confirmed \in BOOLEAN, outcome \in Outcomes :
                    /\ confirmed => call \in truth.pending
                    /\ Justifies(call, now, confirmed, outcome)
                    /\ Len(TasksOf(call, now, outcome)) <= MaxTasks
                    /\ events = RowsOf(call, now, outcome)

\* No event of a transaction is quarantined.
LEMMA TransactionReplayed ==
    ASSUME truth \in ViewType, NEW events, Transaction(events)
    PROVE  /\ events \in Seq(Event)
           /\ Folded(truth, events).quarantined = truth.quarantined
<1>1. PICK now \in 0 .. MaxInstant :
        \/ events = TickLog(truth.tasks, now)
        \/ \E call \in Calls :
              \/ events = RowsOf(call, now, "rejected")
              \/ \E confirmed \in BOOLEAN, outcome \in Outcomes :
                    /\ Justifies(call, now, confirmed, outcome)
                    /\ events = RowsOf(call, now, outcome)
  BY DEF Transaction
<1>2. now \in Nat
  BY <1>1, EngineAssumption
<1>3. CASE events = TickLog(truth.tasks, now)
  <2> DEFINE ts == [i \in DOMAIN truth.tasks |-> Ticked(truth.tasks[i], now)]
  <2>1. ReplaysAs(truth, events, ts)
    BY <1>2, <1>3, TickReplayed
  <2> HIDE DEF ts
  <2>2. QuietEvents \subseteq Event
    BY DEF QuietEvents, Event
  <2>3. QED BY <2>1, <2>2, SeqMonotonic DEF ReplaysAs, WithTasks
<1>4. ASSUME NEW call \in Calls, NEW outcome \in Outcomes, events = RowsOf(call, now, outcome),
             outcome = "applied" => Engine!Accepted(call, now)
      PROVE  /\ events \in Seq(Event)
             /\ Folded(truth, events).quarantined = truth.quarantined
  <2>1. events \in Seq(Event) /\ Folded(truth, events) = Target(call, now, outcome)
    BY <1>2, <1>4, DecisionReplayed
  <2>2. QED BY <2>1 DEF Target
<1>5. CASE \E call \in Calls : events = RowsOf(call, now, "rejected")
  <2>1. "rejected" \in Outcomes /\ "rejected" # "applied"
    BY DEF Outcomes
  <2>2. QED BY <1>4, <1>5, <2>1
<1>6. CASE \E call \in Calls : \E confirmed \in BOOLEAN, outcome \in Outcomes :
                    /\ Justifies(call, now, confirmed, outcome)
                    /\ events = RowsOf(call, now, outcome)
  BY <1>4, <1>6 DEF Justifies
<1>7. QED BY <1>1, <1>3, <1>5, <1>6

-----------------------------------------------------------------------------
(* A committed transaction is a step of the engine                          *)

\* The change of an accepted call is the one TaskEngine's action makes.
LEMMA EffectIsStep ==
    ASSUME truth \in ViewType, NEW call \in Calls, NEW now \in Nat, Engine!Accepted(call, now),
           Len(Effect(truth.tasks, call, now).tasks) <= MaxTasks,
           truth'.tasks = Effect(truth.tasks, call, now).tasks
    PROVE  \/ Engine!CreateTask(call, now)
           \/ Engine!StartTask(call, now)
           \/ Engine!CompleteTask(call, now)
           \/ Engine!MoveTask(call, now)
           \/ Engine!CancelTask(call, now)
<1> DEFINE ts == truth.tasks
           i == call.task
<1>1. ts \in Seq(TaskRecord(Key)) /\ Len(ts) \in Nat /\ MaxTasks \in Nat
  BY EngineAssumption DEF ViewType
<1>2. CASE Engine!CanCreate(call)
  <2> DEFINE new == NewTask(call.start, call.end, call.deadline, NoTask, now, call.key)
  <2>1. Effect(ts, call, now).tasks = Append(ts, new)
    BY <1>2 DEF Effect, Engine!CanCreate
  <2>2. new = Engine!NewTask(call.start, call.end, call.deadline, Engine!NoTask, now, call.key)
    BY EngineOperators
  <2> HIDE DEF new
  <2>3. Len(ts) < MaxTasks
    BY <1>1, <2>1
  <2>4. Engine!CreateTask(call, now)
    BY <1>2, <2>1, <2>2, <2>3 DEF Engine!CreateTask
  <2>5. QED BY <2>4
<1>3. CASE Engine!CanStart(call)
  <2>1. Effect(ts, call, now).tasks = [ts EXCEPT ![i].actualStart = now]
    BY <1>3 DEF Effect, Engine!CanStart
  <2>2. QED BY <1>3, <2>1 DEF Engine!StartTask
<1>4. CASE Engine!CanComplete(call)
  <2>1. Effect(ts, call, now).tasks =
           [ts EXCEPT ![i] = WithStatus(ts[i], Mine!CompletionStatus(ts[i]), now)]
    BY <1>4 DEF Effect, Engine!CanComplete
  <2>2. WithStatus(ts[i], Mine!CompletionStatus(ts[i]), now)
           = Engine!WithStatus(ts[i], Engine!CompletionStatus(ts[i]), now)
    BY EngineOperators
  <2>3. QED BY <1>4, <2>1, <2>2 DEF Engine!CompleteTask
<1>5. CASE Engine!CanMove(call, now)
  <2> DEFINE old == WithStatus(ts[i], Mine!MovedStatus(call), now)
             deadline == IF call.deadline # NoTime THEN call.deadline ELSE ts[i].deadline
             new == NewTask(call.start, call.end, deadline, i, now, NoKey)
  <2>1. Effect(ts, call, now).tasks = Append([ts EXCEPT ![i] = old], new)
    BY <1>5 DEF Effect, Engine!CanMove
  <2>2. old = Engine!WithStatus(ts[i], Engine!MovedStatus(call), now)
    BY EngineOperators
  <2>3. deadline = Engine!DeadlineAfter(call)
    BY EngineOperators DEF Engine!DeadlineAfter
  <2>4. new = Engine!NewTask(call.start, call.end, Engine!DeadlineAfter(call), i, now,
                             Engine!NoKey)
    <3> HIDE DEF deadline
    <3>1. QED BY <2>3, EngineOperators
  <2>5. i \in DOMAIN ts /\ old \in TaskRecord(Key)
    <3>1. i \in DOMAIN ts /\ ts[i] \in TaskRecord(Key)
      BY <1>1, <1>5 DEF Engine!CanMove, Engine!Known
    <3>2. Mine!MovedStatus(call) \in Statuses
      BY DEF Mine!MovedStatus, Statuses, TerminalStatuses
    <3>3. QED BY <3>1, <3>2 DEF WithStatus, TaskRecord, OptionalInstant
  <2> HIDE DEF new, old
  <2>6. Len(ts) < MaxTasks
    <3> DEFINE us == [ts EXCEPT ![i] = old]
    <3>1. us \in Seq(TaskRecord(Key)) /\ Len(us) = Len(ts)
      BY <1>1, <2>5, ReplacedType
    <3> HIDE DEF us
    <3>2. Len(Append(us, new)) = Len(us) + 1
      BY <3>1
    <3>3. QED BY <1>1, <2>1, <3>1, <3>2 DEF us
  <2>7. truth'.tasks = Append([ts EXCEPT ![i] = Engine!WithStatus(@, Engine!MovedStatus(call), now)],
                              new)
    BY <2>1, <2>2
  <2>8. Engine!MoveTask(call, now)
    BY <1>5, <2>4, <2>6, <2>7 DEF Engine!MoveTask
  <2>9. QED BY <2>8
<1>6. CASE Engine!CanCancel(call)
  <2>1. Effect(ts, call, now).tasks =
           [ts EXCEPT ![i] = WithStatus(ts[i], Mine!CancelledStatus(call), now)]
    BY <1>6 DEF Effect, Engine!CanCancel
  <2>2. WithStatus(ts[i], Mine!CancelledStatus(call), now)
           = Engine!WithStatus(ts[i], Engine!CancelledStatus(call), now)
    BY EngineOperators
  <2>3. QED BY <1>6, <2>1, <2>2 DEF Engine!CancelTask
<1>7. QED BY <1>2, <1>3, <1>4, <1>5, <1>6 DEF Engine!Accepted

\* Whatever the outcome, a decision that is committed is one of TaskEngine's.
LEMMA DecisionIsStep ==
    ASSUME truth \in ViewType, NEW call \in Calls, NEW now \in Nat, NEW confirmed \in BOOLEAN,
           NEW outcome \in Outcomes, Justifies(call, now, confirmed, outcome),
           Len(TasksOf(call, now, outcome)) <= MaxTasks,
           truth' = Target(call, now, outcome)
    PROVE  Engine!Decide(call, now, confirmed)
<1>1. /\ truth'.tasks = TasksOf(call, now, outcome)
      /\ truth'.seen = IF outcome = "applied" THEN truth.seen \cup {call.key} ELSE truth.seen
      /\ truth'.pending = IF outcome = "pending_confirmation"
                          THEN Engine!Released(call.key) \cup {call}
                          ELSE Engine!Released(call.key)
  BY DEF Target, Engine!Released
<1>2. CASE outcome = "applied"
  <2>1. Engine!Runs(call, now, confirmed) /\ Engine!Accepted(call, now)
    BY <1>2 DEF Justifies
  <2>2. TasksOf(call, now, outcome) = Effect(truth.tasks, call, now).tasks
    BY <1>2 DEF TasksOf
  <2>3. Engine!Apply(call, now, confirmed)
    BY <1>1, <1>2, <2>1, <2>2, EffectIsStep DEF Engine!Apply
  <2>4. QED BY <2>3 DEF Engine!Decide
<1>3. CASE outcome = "superseded"
  BY <1>1, <1>3 DEF Justifies, TasksOf, Engine!Decide, Engine!Supersede
<1>4. CASE outcome = "rejected"
  BY <1>1, <1>4 DEF Justifies, TasksOf, Engine!Decide, Engine!Refuse
<1>5. CASE outcome = "pending_confirmation"
  BY <1>1, <1>5 DEF Justifies, TasksOf, Engine!Decide, Engine!Hold
<1>6. QED BY <1>2, <1>3, <1>4, <1>5 DEF Outcomes

\* A transaction, once its events are replayed, is a step of the engine.
LEMMA TransactionIsStep ==
    ASSUME truth \in ViewType, NEW events, Transaction(events), truth' = Folded(truth, events)
    PROVE  Engine!Next
<1>1. PICK now \in 0 .. MaxInstant :
        \/ events = TickLog(truth.tasks, now)
        \/ \E call \in Calls :
              \/ events = RowsOf(call, now, "rejected")
              \/ \E confirmed \in BOOLEAN, outcome \in Outcomes :
                    /\ confirmed => call \in truth.pending
                    /\ Justifies(call, now, confirmed, outcome)
                    /\ Len(TasksOf(call, now, outcome)) <= MaxTasks
                    /\ events = RowsOf(call, now, outcome)
  BY DEF Transaction
<1>2. now \in Nat
  BY <1>1, EngineAssumption
<1>3. CASE events = TickLog(truth.tasks, now)
  <2> DEFINE ts == [i \in DOMAIN truth.tasks |-> Ticked(truth.tasks[i], now)]
  <2>1. ReplaysAs(truth, events, ts)
    BY <1>2, <1>3, TickReplayed
  <2>2. ts = [i \in DOMAIN truth.tasks |-> Engine!Ticked(truth.tasks[i], now)]
    BY EngineOperators
  <2> HIDE DEF ts
  <2>3. truth'.tasks = ts /\ truth'.seen = truth.seen /\ truth'.pending = truth.pending
    BY <2>1 DEF ReplaysAs, WithTasks
  <2>4. Engine!Tick(now)
    BY <2>2, <2>3 DEF Engine!Tick
  <2>5. QED BY <1>1, <2>4 DEF Engine!Next
<1>4. CASE \E call \in Calls : events = RowsOf(call, now, "rejected")
  <2>1. PICK call \in Calls : events = RowsOf(call, now, "rejected")
    BY <1>4
  <2>2. "rejected" \in Outcomes /\ "rejected" # "applied"
    BY DEF Outcomes
  <2>3. truth' = Target(call, now, "rejected")
    BY <1>2, <2>1, <2>2, DecisionReplayed
  <2>4. Engine!Reject(call)
    BY <2>3 DEF Target, TasksOf, Engine!Reject, Engine!Released
  <2>5. QED BY <2>4 DEF Engine!Next
<1>5. CASE \E call \in Calls : \E confirmed \in BOOLEAN, outcome \in Outcomes :
                    /\ confirmed => call \in truth.pending
                    /\ Justifies(call, now, confirmed, outcome)
                    /\ Len(TasksOf(call, now, outcome)) <= MaxTasks
                    /\ events = RowsOf(call, now, outcome)
  <2>1. PICK call \in Calls, confirmed \in BOOLEAN, outcome \in Outcomes :
                    /\ confirmed => call \in truth.pending
                    /\ Justifies(call, now, confirmed, outcome)
                    /\ Len(TasksOf(call, now, outcome)) <= MaxTasks
                    /\ events = RowsOf(call, now, outcome)
    BY <1>5
  <2>2. outcome = "applied" => Engine!Accepted(call, now)
    BY <2>1 DEF Justifies
  <2>3. truth' = Target(call, now, outcome)
    BY <1>2, <2>1, <2>2, DecisionReplayed
  <2>4. Engine!Decide(call, now, confirmed)
    BY <1>2, <2>1, <2>3, DecisionIsStep
  <2>5. CASE confirmed
    <3>1. Engine!Confirm(call, now)
      BY <2>1, <2>4, <2>5 DEF Engine!Confirm
    <3>2. QED BY <1>1, <2>1, <2>5, <3>1 DEF Engine!Next
  <2>6. CASE ~confirmed
    <3>1. Engine!Execute(call, now)
      BY <2>4, <2>6 DEF Engine!Execute
    <3>2. QED BY <1>1, <3>1 DEF Engine!Next
  <2>7. QED BY <2>5, <2>6
<1>6. QED BY <1>1, <1>3, <1>4, <1>5

-----------------------------------------------------------------------------
(* What a transaction may be depends on the log alone                       *)

\* A transaction that was decided stays one until the log changes.
LEMMA TransactionKept ==
    ASSUME UNCHANGED truth, NEW events
    PROVE  Transaction(events) => Transaction(events)'
<1>1. ASSUME NEW call, NEW now
      PROVE  Engine!Accepted(call, now)' <=> Engine!Accepted(call, now)
  BY DEF Engine!Accepted, Engine!CanCreate, Engine!CanStart, Engine!CanComplete,
         Engine!CanMove, Engine!CanCancel, Engine!Known, Engine!DeadlineAfter,
         Engine!RecentMoves
<1>2. ASSUME NEW call, NEW now, NEW confirmed
      PROVE  Engine!OverLimit(call, now, confirmed)' <=> Engine!OverLimit(call, now, confirmed)
  BY DEF Engine!OverLimit, Engine!CreationsSince
<1>3. ASSUME NEW call, NEW now, NEW confirmed, NEW outcome
      PROVE  Justifies(call, now, confirmed, outcome)' <=> Justifies(call, now, confirmed, outcome)
  BY <1>1, <1>2 DEF Justifies, Engine!Runs
<1>4. ASSUME NEW call, NEW now, NEW outcome
      PROVE  /\ RowsOf(call, now, outcome)' = RowsOf(call, now, outcome)
             /\ TasksOf(call, now, outcome)' = TasksOf(call, now, outcome)
  BY DEF RowsOf, EffectRows, TasksOf
<1>5. QED BY <1>3, <1>4 DEF Transaction

-----------------------------------------------------------------------------
(* The live view and the log during a transaction                           *)

\* The view of a process that appended the events.
Noted(v, events, seq) == [IndexedAll(v, events) EXCEPT !.seq = seq]

\* A view of the log's tasks that a mutator has changed.
Changed(ts, keys) ==
    [tasks |-> ts, seen |-> truth.seen \cup keys, pending |-> truth.pending,
     quarantined |-> truth.quarantined, seq |-> truth.seq]

KeysOf(call, outcome) == IF outcome = "applied" THEN {call.key} ELSE {}

\* The mutator's live change and the index update of append make what a replay makes.
LEMMA DecisionNoted ==
    ASSUME truth \in ViewType, NEW call \in Calls, NEW now \in Nat, NEW outcome \in Outcomes,
           outcome = "applied" => Engine!Accepted(call, now)
    PROVE  LET v == Changed(TasksOf(call, now, outcome), KeysOf(call, outcome))
               rows == RowsOf(call, now, outcome) IN
           v \in ViewType /\ Noted(v, rows, truth.seq + Len(rows)) = Folded(truth, rows)
<1> DEFINE d == DecisionEvent(call, now, outcome)
           ts == TasksOf(call, now, outcome)
           v == Changed(ts, KeysOf(call, outcome))
           rest == EffectRows(call, now, outcome)
           rows == RowsOf(call, now, outcome)
           released == {c \in truth.pending : c.key # call.key}
<1>1. /\ rest \in Seq(QuietEvents) /\ ts \in Seq(TaskRecord(Key)) /\ rows \in Seq(Event)
      /\ Folded(truth, rows) = Target(call, now, outcome)
  BY DecisionReplayed
<1>2. rows = <<d>> \o rest
  BY DEF RowsOf
<1>3. d \in Event /\ d.type = "ACTION_PROPOSED" /\ d.call = call /\ d.outcome = outcome
  BY DecisionApplied DEF DecisionEvent
<1>4. call.key \in Key
  BY EngineAssumption DEF Engine!ActionCall
<1> HIDE DEF d, rest, ts
<1>5. v \in ViewType
  BY <1>1, <1>4 DEF Changed, KeysOf, ViewType
<1>6. Len(rows) # 0 /\ rows[1] = d /\ \A n \in 2 .. Len(rows) : rows[n] \in QuietEvents
  <2>1. QuietEvents \subseteq Event
    BY DEF QuietEvents, Event
  <2>2. rest \in Seq(Event) /\ <<d>> \in Seq(Event) /\ Len(<<d>>) = 1 /\ <<d>>[1] = d
    BY <1>1, <1>3, <2>1, SeqMonotonic
  <2> HIDE DEF rows
  <2>3. /\ Len(rows) = 1 + Len(rest) /\ Len(rest) \in Nat
        /\ \A n \in 1 .. 1 + Len(rest) : rows[n] = IF n <= 1 THEN <<d>>[n] ELSE rest[n - 1]
    BY <1>2, <2>2, ConcatProperties
  <2>4. ASSUME NEW n \in 2 .. Len(rows) PROVE rows[n] \in QuietEvents
    <3>1. n - 1 \in 1 .. Len(rest) /\ rows[n] = rest[n - 1]
      BY <2>3
    <3>2. QED BY <1>1, <3>1
  <2>5. rows[1] = d /\ Len(rows) # 0
    BY <2>2, <2>3
  <2>6. QED BY <2>4, <2>5
<1>7. IndexedAll(v, rows) = Indexed(v, d)
  <2> HIDE DEF v, rows
  <2>1. QED BY <1>1, <1>5, <1>6, IndexedFirst
<1> DEFINE seen == IF outcome = "applied" THEN truth.seen \cup {call.key} ELSE truth.seen
           pending == IF outcome = "pending_confirmation" THEN released \cup {call} ELSE released
           n == truth.seq + Len(rows)
<1>8. Indexed(v, d) = [tasks |-> ts, seen |-> seen, pending |-> pending,
                       quarantined |-> truth.quarantined, seq |-> truth.seq]
  BY <1>3 DEF Indexed, Changed, KeysOf, Outcomes
<1>9. Target(call, now, outcome) = [tasks |-> ts, seen |-> seen, pending |-> pending,
                                    quarantined |-> truth.quarantined, seq |-> n]
  BY DEF Target, ts
<1>10. Noted(v, rows, n) = [Indexed(v, d) EXCEPT !.seq = n]
  BY <1>7 DEF Noted
<1>11. Noted(v, rows, n) = Target(call, now, outcome)
  <2> HIDE DEF n, v, rows, seen, pending
  <2>1. QED BY <1>8, <1>9, <1>10
<1>12. QED BY <1>1, <1>5, <1>11 DEF ts

\* So do the live tick and its events.
LEMMA TickNoted ==
    ASSUME truth \in ViewType, NEW now \in Nat
    PROVE  LET v == Changed([i \in DOMAIN truth.tasks |-> Ticked(truth.tasks[i], now)], {})
               rows == TickLog(truth.tasks, now) IN
           v \in ViewType /\ Noted(v, rows, truth.seq + Len(rows)) = Folded(truth, rows)
<1> DEFINE ts == [i \in DOMAIN truth.tasks |-> Ticked(truth.tasks[i], now)]
           v == Changed(ts, {})
           rows == TickLog(truth.tasks, now)
<1>1. ReplaysAs(truth, rows, ts)
  BY TickReplayed
<1> HIDE DEF ts
<1>2. /\ rows \in Seq(QuietEvents) /\ ts \in Seq(TaskRecord(Key))
      /\ Folded(truth, rows) = WithTasks(truth, ts, truth.seq + Len(rows))
  BY <1>1 DEF ReplaysAs
<1>3. v = WithTasks(truth, ts, truth.seq) /\ v \in ViewType
  BY <1>2 DEF Changed, WithTasks, ViewType
<1> HIDE DEF v, rows
<1>4. rows \in Seq(Event) /\ \A n \in 1 .. Len(rows) : rows[n] \in QuietEvents
  <2>1. QuietEvents \subseteq Event
    BY DEF QuietEvents, Event
  <2>2. QED BY <1>2, <2>1, SeqMonotonic
<1>5. IndexedAll(v, rows) = v
  <2>1. IndexedAll(v, rows) = IF Len(rows) = 0 THEN v ELSE Indexed(v, rows[1])
    BY <1>3, <1>4, IndexedFirst
  <2>2. Len(rows) # 0 => rows[1] \in QuietEvents
    BY <1>4
  <2>3. QED BY <1>3, <2>1, <2>2, QuietEvent
<1>6. Noted(v, rows, truth.seq + Len(rows)) = Folded(truth, rows)
  BY <1>2, <1>3, <1>5 DEF Noted, WithTasks
<1>7. QED BY <1>3, <1>6 DEF v, rows, ts

-----------------------------------------------------------------------------
(* The inductive invariant                                                  *)

Stages == {"none", "began", "decided", "appended"}

TxnType == txn \in [by : Proc \cup {NoProc}, stage : Stages, events : Seq(Event)]

\* The log is a legal history, and truth its replay.
LogInv == log \in Seq(Event) /\ truth = Replay(log) /\ truth.quarantined = {}

\* A view that is the replay of the log l up to its last_seq.
AtPrefix(v, l) == v.seq \in 0 .. Len(l) /\ v = Replay(SubSeq(l, 1, v.seq))

\* Every view is, outside a transaction.
OutsideInv == \A p \in Proc : txn.by # p => AtPrefix(view[p], log)

\* In a transaction the view began up to date; what was decided on it is a transaction
\* of the engine; and the view is, or will be once it is noted, what a replay gives.
InsideInv ==
    \A p \in Proc : txn.by = p =>
        \/ txn.stage = "began" /\ view[p] = truth
        \/ /\ txn.stage = "decided" /\ Transaction(txn.events)
           /\ Noted(view[p], txn.events, Len(log) + Len(txn.events)) = Folded(truth, txn.events)
        \/ /\ txn.stage = "appended" /\ Transaction(txn.events)
           /\ view[p] = Folded(truth, txn.events)

StoreInv ==
    /\ TxnType
    /\ view \in [Proc -> ViewType]
    /\ LogInv
    /\ OutsideInv
    /\ InsideInv

\* The replay of a log has counted it.
LEMMA WholeReplayed ==
    ASSUME NEW l \in Seq(Event)
    PROVE  Replay(l) \in ViewType /\ Replay(l).seq = Len(l) /\ AtPrefix(Replay(l), l)
<1> DEFINE v == Replay(l)
<1>1. v \in ViewType /\ v.seq = 0 + Len(l)
  BY EmptyViewType, FoldedType, FoldedSeq DEF Replay, EmptyView
<1>2. Len(l) \in Nat /\ SubSeq(l, 1, Len(l)) = l
  BY SubSeqFull
<1>3. v.seq = Len(l)
  BY <1>1, <1>2
<1>4. v = Replay(SubSeq(l, 1, v.seq)) /\ v.seq \in 0 .. Len(l)
  <2>1. SubSeq(l, 1, v.seq) = l
    BY <1>2, <1>3
  <2>2. v = Replay(SubSeq(l, 1, v.seq))
    BY <2>1
  <2>3. QED BY <1>2, <1>3, <2>2
<1>5. QED BY <1>1, <1>3, <1>4 DEF AtPrefix

\* Nothing was replayed yet.
LEMMA EmptyIsPrefix ==
    ASSUME NEW l \in Seq(Event)
    PROVE  EmptyView \in ViewType /\ AtPrefix(EmptyView, l)
<1>1. Len(l) \in Nat
  OBVIOUS
<1>2. SubSeq(l, 1, 0) = <<>>
  BY SubSeqEmpty
<1>3. Replay(<<>>) = EmptyView
  BY EmptyViewType, FoldedEmpty DEF Replay
<1>4. EmptyView.seq = 0
  BY DEF EmptyView
<1>5. EmptyView = Replay(SubSeq(l, 1, EmptyView.seq))
  BY <1>2, <1>3, <1>4
<1>6. EmptyView.seq \in 0 .. Len(l)
  BY <1>1, <1>4
<1>7. QED BY <1>5, <1>6, EmptyViewType DEF AtPrefix

\* A commit does not change what was replayed.
LEMMA PrefixKept ==
    ASSUME NEW l \in Seq(Event), NEW more \in Seq(Event), NEW v, AtPrefix(v, l)
    PROVE  AtPrefix(v, l \o more)
<1>1. /\ Len(l) \in Nat /\ Len(more) \in Nat /\ Len(l \o more) = Len(l) + Len(more)
      /\ v.seq \in 0 .. Len(l)
  BY DEF AtPrefix
<1>2. SubSeq(l \o more, 1, v.seq) = SubSeq(l, 1, v.seq)
  <2>1. CASE v.seq = 0
    BY <2>1, SubSeqEmpty
  <2>2. CASE v.seq # 0
    <3>1. 1 \in 1 .. Len(l) /\ v.seq \in 1 .. Len(l)
      BY <1>1, <2>2
    <3>2. QED BY <3>1, SubSeqOfConcat1
  <2>3. QED BY <2>1, <2>2
<1>3. v.seq \in 0 .. Len(l \o more)
  BY <1>1
<1>4. QED BY <1>2, <1>3 DEF AtPrefix

\* A refresh replays what the view has not seen, and the view is the log's.
LEMMA RefreshedIsTruth ==
    ASSUME LogInv, NEW v, AtPrefix(v, log)
    PROVE  Refreshed(v) = truth
<1> DEFINE a == SubSeq(log, 1, v.seq)
           b == SubSeq(log, v.seq + 1, Len(log))
<1>1. Len(log) \in Nat /\ v.seq \in 0 .. Len(log) /\ v = Replay(a) /\ log \in Seq(Event)
  BY DEF AtPrefix, LogInv
<1>2. a \in Seq(Event) /\ b \in Seq(Event)
  BY <1>1, SubSeqProperties
<1>3. a \o b = log
  <2>1. a \o b = SubSeq(log, 1, Len(log))
    <3>1. /\ 1 \in 1 .. Len(log) + 1 /\ v.seq \in 1 - 1 .. Len(log)
          /\ Len(log) \in v.seq .. Len(log)
      BY <1>1
    <3>2. QED BY <1>1, <3>1, ConcatAdjacentSubSeq
  <2>2. QED BY <1>1, <2>1, SubSeqFull
<1> HIDE DEF a, b
<1>4. Folded(EmptyView, a \o b) = Folded(Folded(EmptyView, a), b)
  BY <1>2, EmptyViewType, FoldedConcat
<1>5. Refreshed(v) = Folded(v, b)
  BY DEF Refreshed, b
<1>6. QED BY <1>1, <1>3, <1>4, <1>5 DEF Replay, LogInv

\* The store is new.
LEMMA StoreInit == Init => StoreInv
<1> SUFFICES ASSUME Init PROVE StoreInv
  OBVIOUS
<1> USE DEF Init
<1>1. TxnType
  BY DEF TxnType, NoTxn, Stages
<1>2. view \in [Proc -> ViewType]
  BY EmptyViewType
<1>3. LogInv
  <2>1. Replay(<<>>) = EmptyView /\ EmptyView.quarantined = {}
    BY EmptyViewType, FoldedEmpty DEF Replay, EmptyView
  <2>2. <<>> \in Seq(Event)
    OBVIOUS
  <2>3. QED BY <2>1, <2>2 DEF LogInv
<1>4. OutsideInv
  <2>1. log \in Seq(Event)
    BY <1>3 DEF LogInv
  <2>2. QED BY <2>1, EmptyIsPrefix DEF OutsideInv
<1>5. InsideInv
  BY ProcAssumption DEF InsideInv, NoTxn
<1>6. QED BY <1>1, <1>2, <1>3, <1>4, <1>5 DEF StoreInv

-----------------------------------------------------------------------------
(* Each step keeps it                                                       *)

\* What a process may decide on the log as it is: the rows are a transaction, and the
\* change of the view agrees with them.
Prepared(ts, keys, events) ==
    /\ Transaction(events) /\ events \in Seq(Event)
    /\ Changed(ts, keys) \in ViewType
    /\ Noted(Changed(ts, keys), events, truth.seq + Len(events)) = Folded(truth, events)

\* A decision, whatever its outcome.
LEMMA DecisionPrepared ==
    ASSUME truth \in ViewType, NEW call \in Calls, NEW now \in 0 .. MaxInstant,
           NEW confirmed \in BOOLEAN, NEW outcome \in Outcomes,
           confirmed => call \in truth.pending,
           Justifies(call, now, confirmed, outcome),
           Len(TasksOf(call, now, outcome)) <= MaxTasks
    PROVE  Prepared(TasksOf(call, now, outcome), KeysOf(call, outcome),
                    RowsOf(call, now, outcome))
<1>1. now \in Nat
  BY EngineAssumption
<1>2. outcome = "applied" => Engine!Accepted(call, now)
  BY DEF Justifies
<1>3. Transaction(RowsOf(call, now, outcome))
  BY DEF Transaction
<1>4. RowsOf(call, now, outcome) \in Seq(Event)
  BY <1>1, <1>2, DecisionReplayed
<1>5. QED BY <1>1, <1>2, <1>3, <1>4, DecisionNoted DEF Prepared

\* A rejection that nobody reads the view for.
LEMMA RejectionPrepared ==
    ASSUME truth \in ViewType, NEW call \in Calls, NEW now \in 0 .. MaxInstant
    PROVE  Prepared(truth.tasks, {}, RowsOf(call, now, "rejected"))
<1>1. now \in Nat
  BY EngineAssumption
<1>2. "rejected" \in Outcomes /\ "rejected" # "applied"
  BY DEF Outcomes
<1>3. Transaction(RowsOf(call, now, "rejected"))
  BY DEF Transaction
<1>4. RowsOf(call, now, "rejected") \in Seq(Event)
  BY <1>1, <1>2, DecisionReplayed
<1>5. TasksOf(call, now, "rejected") = truth.tasks /\ KeysOf(call, "rejected") = {}
  BY DEF TasksOf, KeysOf
<1>6. QED BY <1>1, <1>2, <1>3, <1>4, <1>5, DecisionNoted DEF Prepared

\* A tick.
LEMMA TickPrepared ==
    ASSUME truth \in ViewType, NEW now \in 0 .. MaxInstant
    PROVE  Prepared([i \in DOMAIN truth.tasks |-> Ticked(truth.tasks[i], now)], {},
                    TickLog(truth.tasks, now))
<1>1. now \in Nat
  BY EngineAssumption
<1>2. Transaction(TickLog(truth.tasks, now))
  BY DEF Transaction
<1>3. TickLog(truth.tasks, now) \in Seq(Event)
  BY <1>2, TransactionReplayed
<1>4. QED BY <1>1, <1>2, <1>3, TickNoted DEF Prepared

\* What the mutators may change of a view.
LEMMA LiveChange ==
    ASSUME NEW v \in ViewType, NEW ts, NEW keys
    PROVE  [v EXCEPT !.tasks = ts, !.seen = @ \cup keys] =
              [tasks |-> ts, seen |-> v.seen \cup keys, pending |-> v.pending,
               quarantined |-> v.quarantined, seq |-> v.seq]
<1> DEFINE w == [v EXCEPT !.tasks = ts]
<1>1. w = [tasks |-> ts, seen |-> v.seen, pending |-> v.pending,
           quarantined |-> v.quarantined, seq |-> v.seq]
  BY DEF ViewType
<1>2. w.seen = v.seen
  BY <1>1
<1>3. [w EXCEPT !.seen = @ \cup keys] =
         [tasks |-> ts, seen |-> v.seen \cup keys, pending |-> v.pending,
          quarantined |-> v.quarantined, seq |-> v.seq]
  <2> HIDE DEF w
  <2>1. QED BY <1>1, <1>2
<1>4. [v EXCEPT !.tasks = ts, !.seen = @ \cup keys] = [w EXCEPT !.seen = @ \cup keys]
  BY <1>2
<1>5. QED BY <1>3, <1>4

\* The views of the others do not change with the transaction of one.
LEMMA DecidedKept ==
    ASSUME StoreInv, NEW p \in Proc, Deciding(p), NEW ts, NEW keys, NEW events,
           Prepared(ts, keys, events), Decided(p, ts, keys, events)
    PROVE  StoreInv'
<1> USE DEF StoreInv
<1>1. /\ txn.by = p /\ txn.stage = "began" /\ view[p] = truth
  BY DEF Deciding, InsideInv
<1>2. /\ txn' = [txn EXCEPT !.stage = "decided", !.events = events]
      /\ view' = [view EXCEPT ![p].tasks = ts, ![p].seen = @ \cup keys]
      /\ UNCHANGED <<log, truth>>
  BY DEF Decided
<1>3. truth \in ViewType /\ truth.seq = Len(log)
  BY WholeReplayed DEF LogInv
<1>4. view' = [view EXCEPT ![p] = Changed(ts, keys)]
  <2>1. [truth EXCEPT !.tasks = ts, !.seen = @ \cup keys] = Changed(ts, keys)
    BY <1>3, LiveChange DEF Changed
  <2>2. view' = [view EXCEPT ![p] = [view[p] EXCEPT !.tasks = ts, !.seen = @ \cup keys]]
    BY <1>2
  <2>3. QED BY <1>1, <2>1, <2>2
<1>5. TxnType'
  BY <1>2 DEF TxnType, Stages, Prepared
<1>6. (view \in [Proc -> ViewType])'
  BY <1>4 DEF Prepared
<1>7. LogInv'
  BY <1>2 DEF LogInv
<1>8. txn'.by = p /\ txn'.stage = "decided" /\ txn'.events = events
  BY <1>1, <1>2 DEF TxnType
<1>9. OutsideInv'
  BY <1>1, <1>2, <1>4, <1>8 DEF OutsideInv
<1>10. InsideInv'
  <2>1. Transaction(events)'
    BY <1>2, TransactionKept DEF Prepared
  <2>2. view'[p] = Changed(ts, keys)
    BY <1>4
  <2>3. Noted(view'[p], events, Len(log) + Len(events)) = Folded(truth, events)
    BY <1>3, <2>2 DEF Prepared
  <2>4. QED BY <1>2, <1>8, <2>1, <2>3 DEF InsideInv
<1>11. QED BY <1>5, <1>6, <1>7, <1>9, <1>10

\* A decision without an effect is one row.
LEMMA AloneJoined == ASSUME NEW e PROVE <<e>> \o <<>> = <<e>>
<1>1. <<e>> \in Seq({e})
  OBVIOUS
<1>2. QED BY <1>1, ConcatEmptySeq

\* The decision a process takes on an up-to-date view is one it may take.
LEMMA DecideKept ==
    ASSUME StoreInv, NEW p \in Proc, Deciding(p), NEW call \in Calls, NEW now \in 0 .. MaxInstant,
           NEW confirmed \in BOOLEAN, confirmed => call \in view[p].pending,
           Decide(p, call, now, confirmed)
    PROVE  StoreInv'
<1> DEFINE outcome == Outcome(call, now, confirmed)
           ts == TasksOf(call, now, outcome)
           keys == KeysOf(call, outcome)
           rows == RowsOf(call, now, outcome)
<1>1. txn.by = p /\ view[p] = truth /\ log \in Seq(Event) /\ truth = Replay(log)
  BY DEF Deciding, InsideInv, StoreInv, LogInv
<1>2. truth \in ViewType
  BY <1>1, WholeReplayed
<1>3. now \in Nat
  BY EngineAssumption
<1>4. outcome \in Outcomes /\ Justifies(call, now, confirmed, outcome)
  BY <1>1, <1>3, OutcomeJustified
<1> HIDE DEF outcome
<1>5. Decided(p, ts, keys, rows)
  <2> DEFINE d == DecisionEvent(call, now, outcome)
  <2>1. CASE outcome = "applied"
    <3>1. LET effect == Effect(view[p].tasks, call, now)
          IN  Decided(p, effect.tasks, {call.key}, <<d>> \o effect.events)
      BY <2>1 DEF Decide, outcome
    <3>2. ts = Effect(truth.tasks, call, now).tasks /\ keys = {call.key}
      BY <2>1 DEF TasksOf, KeysOf
    <3>3. rows = <<d>> \o Effect(truth.tasks, call, now).events
      BY <2>1 DEF RowsOf, EffectRows
    <3>4. QED BY <1>1, <3>1, <3>2, <3>3
  <2>2. CASE outcome # "applied"
    <3>1. Decided(p, view[p].tasks, {}, <<d>>)
      BY <2>2 DEF Decide, outcome
    <3>2. ts = truth.tasks /\ keys = {}
      BY <2>2 DEF TasksOf, KeysOf
    <3>3. rows = <<d>>
      <4>1. EffectRows(call, now, outcome) = <<>>
        BY <2>2 DEF EffectRows
      <4>2. <<d>> \o <<>> = <<d>>
        BY AloneJoined
      <4>3. QED BY <4>1, <4>2 DEF RowsOf
    <3>4. QED BY <1>1, <3>1, <3>2, <3>3
  <2>3. QED BY <2>1, <2>2
<1>6. Len(ts) <= MaxTasks
  BY <1>5 DEF Decided, WithinBounds
<1>7. Prepared(ts, keys, rows)
  BY <1>1, <1>2, <1>4, <1>6, DecisionPrepared
<1>8. QED BY <1>5, <1>7, DecidedKept

\* A rejection without a decision: declined, or rejected out of hand.
LEMMA RejectionKept ==
    ASSUME StoreInv, NEW p \in Proc, Deciding(p), NEW call \in Calls, NEW now \in 0 .. MaxInstant,
           Decided(p, view[p].tasks, {}, <<DecisionEvent(call, now, "rejected")>>)
    PROVE  StoreInv'
<1> DEFINE d == DecisionEvent(call, now, "rejected")
<1>1. txn.by = p /\ view[p] = truth /\ log \in Seq(Event) /\ truth = Replay(log)
  BY DEF Deciding, InsideInv, StoreInv, LogInv
<1>2. truth \in ViewType
  BY <1>1, WholeReplayed
<1>3. RowsOf(call, now, "rejected") = <<d>>
  <2>1. EffectRows(call, now, "rejected") = <<>>
    BY DEF EffectRows
  <2>2. <<d>> \o <<>> = <<d>>
    BY AloneJoined
  <2>3. QED BY <2>1, <2>2 DEF RowsOf
<1>4. Prepared(truth.tasks, {}, <<d>>)
  BY <1>2, <1>3, RejectionPrepared
<1> HIDE DEF d
<1>5. QED BY <1>1, <1>4, DecidedKept DEF d

\* A tick on an up-to-date view.
LEMMA TickKept ==
    ASSUME StoreInv, NEW p \in Proc, NEW now \in 0 .. MaxInstant, Tick(p, now)
    PROVE  StoreInv'
<1> DEFINE ts == [i \in DOMAIN truth.tasks |-> Ticked(truth.tasks[i], now)]
           rows == TickLog(truth.tasks, now)
<1>1. Deciding(p)
  BY DEF Tick
<1>2. txn.by = p /\ view[p] = truth /\ log \in Seq(Event) /\ truth = Replay(log)
  BY <1>1 DEF Deciding, InsideInv, StoreInv, LogInv
<1>3. Decided(p, ts, {}, rows)
  BY <1>2 DEF Tick
<1>4. Prepared(ts, {}, rows)
  BY <1>2, WholeReplayed, TickPrepared
<1> HIDE DEF ts, rows
<1>5. QED BY <1>1, <1>3, <1>4, DecidedKept

\* A view that becomes the log's, of a process that is outside or begins.
LEMMA RefreshKept ==
    ASSUME StoreInv, NEW p \in Proc, Refresh(p)
    PROVE  StoreInv'
<1> USE DEF StoreInv
<1>1. txn.by # p /\ AtPrefix(view[p], log)
  BY DEF Refresh, OutsideInv
<1>2. view' = [view EXCEPT ![p] = truth] /\ UNCHANGED <<log, txn, truth>>
  BY <1>1, RefreshedIsTruth DEF Refresh
<1>3. truth \in ViewType /\ AtPrefix(truth, log)
  BY WholeReplayed DEF LogInv
<1>4. TxnType' /\ LogInv' /\ (view \in [Proc -> ViewType])'
  BY <1>2, <1>3 DEF TxnType, LogInv
<1>5. OutsideInv'
  BY <1>2, <1>3 DEF OutsideInv
<1>6. InsideInv'
  <2>1. ASSUME NEW q \in Proc, txn.by = q PROVE view'[q] = view[q]
    BY <1>1, <1>2, <2>1
  <2>2. \A events : Transaction(events) => Transaction(events)'
    BY <1>2, TransactionKept
  <2>3. QED BY <1>2, <2>1, <2>2 DEF InsideInv
<1>7. QED BY <1>4, <1>5, <1>6

\* A transaction begins on a view that is up to date.
LEMMA BeginKept ==
    ASSUME StoreInv, NEW p \in Proc, Begin(p)
    PROVE  StoreInv'
<1> USE DEF StoreInv
<1>1. txn = NoTxn /\ txn.by # p
  BY ProcAssumption DEF Begin, NoTxn
<1>2. AtPrefix(view[p], log)
  BY <1>1 DEF OutsideInv
<1>3. /\ view' = [view EXCEPT ![p] = truth] /\ UNCHANGED <<log, truth>>
      /\ txn' = [NoTxn EXCEPT !.by = p, !.stage = "began"]
  BY <1>2, RefreshedIsTruth DEF Begin
<1>4. truth \in ViewType /\ AtPrefix(truth, log)
  BY WholeReplayed DEF LogInv
<1>5. txn' = [by |-> p, stage |-> "began", events |-> <<>>]
  BY <1>3 DEF NoTxn
<1>6. TxnType' /\ LogInv' /\ (view \in [Proc -> ViewType])'
  <2>1. <<>> \in Seq(Event)
    OBVIOUS
  <2>2. TxnType'
    BY <1>5, <2>1 DEF TxnType, Stages
  <2>3. LogInv'
    BY <1>3 DEF LogInv
  <2>4. QED BY <1>3, <1>4, <2>2, <2>3
<1>7. OutsideInv'
  BY <1>1, <1>3, <1>5, ProcAssumption DEF OutsideInv, NoTxn
<1>8. InsideInv'
  BY <1>3, <1>5 DEF InsideInv
<1>9. QED BY <1>6, <1>7, <1>8

\* The rows are inserted, and the process notes them.
LEMMA AppendKept ==
    ASSUME StoreInv, NEW p \in Proc, AppendEvents(p)
    PROVE  StoreInv'
<1> USE DEF StoreInv
<1>1. txn.by = p /\ txn.stage = "decided"
  BY DEF AppendEvents
<1>2. /\ Transaction(txn.events)
      /\ Noted(view[p], txn.events, Len(log) + Len(txn.events)) = Folded(truth, txn.events)
  BY <1>1 DEF InsideInv
<1>3. /\ view' = [view EXCEPT ![p] = Noted(view[p], txn.events, Len(log) + Len(txn.events))]
      /\ txn' = [txn EXCEPT !.stage = "appended"] /\ UNCHANGED <<log, truth>>
  BY DEF AppendEvents, Noted
<1>4. Folded(truth, txn.events) \in ViewType
  BY WholeReplayed, FoldedType DEF LogInv, TxnType
<1>5. view' = [view EXCEPT ![p] = Folded(truth, txn.events)]
  BY <1>2, <1>3
<1>6. TxnType' /\ LogInv' /\ (view \in [Proc -> ViewType])'
  BY <1>3, <1>4, <1>5 DEF TxnType, LogInv, Stages
<1>7. txn'.by = p /\ txn'.stage = "appended" /\ txn'.events = txn.events
  BY <1>1, <1>3 DEF TxnType
<1>8. OutsideInv'
  BY <1>1, <1>3, <1>5, <1>7 DEF OutsideInv
<1>9. InsideInv'
  <2>1. Transaction(txn.events)'
    <3>1. PICK events : events = txn.events
      OBVIOUS
    <3>2. Transaction(events)'
      BY <1>2, <1>3, <3>1, TransactionKept
    <3>3. QED BY <1>7, <3>1, <3>2
  <2>2. view'[p] = Folded(truth', txn'.events)
    BY <1>3, <1>5, <1>7
  <2>3. QED BY <1>7, <2>1, <2>2 DEF InsideInv
<1>10. QED BY <1>6, <1>8, <1>9

\* The rows become the log's, and the view of the process is the log's already.
LEMMA CommitKept ==
    ASSUME StoreInv, NEW p \in Proc, Commit(p)
    PROVE  StoreInv'
<1> USE DEF StoreInv
<1>1. txn.by = p /\ txn.stage = "appended" /\ Transaction(txn.events)
      /\ view[p] = Folded(truth, txn.events)
  BY DEF Commit, InsideInv
<1>2. /\ log' = log \o txn.events /\ truth' = Folded(truth, txn.events)
      /\ txn' = NoTxn /\ UNCHANGED view
  BY DEF Commit
<1>3. /\ log \in Seq(Event) /\ truth = Replay(log) /\ truth.quarantined = {}
      /\ txn.events \in Seq(Event) /\ truth \in ViewType
  BY WholeReplayed DEF LogInv, TxnType
<1>4. LogInv'
  <2>1. log' \in Seq(Event)
    BY <1>2, <1>3
  <2>2. truth' = Replay(log')
    <3>1. Replay(log \o txn.events) = Folded(Replay(log), txn.events)
      BY <1>3, EmptyViewType, FoldedConcat DEF Replay
    <3>2. QED BY <1>2, <1>3, <3>1
  <2>3. truth'.quarantined = {}
    BY <1>1, <1>2, <1>3, TransactionReplayed
  <2>4. QED BY <2>1, <2>2, <2>3 DEF LogInv
<1>5. txn' = [by |-> NoProc, stage |-> "none", events |-> <<>>]
  BY <1>2 DEF NoTxn
<1>6. TxnType'
  <2>1. <<>> \in Seq(Event)
    OBVIOUS
  <2>2. QED BY <1>5, <2>1 DEF TxnType, Stages
<1>7. OutsideInv'
  <2>1. ASSUME NEW q \in Proc, q # p PROVE AtPrefix(view[q], log')
    <3>1. AtPrefix(view[q], log)
      BY <1>1, <2>1 DEF OutsideInv
    <3>2. QED BY <1>2, <1>3, <3>1, PrefixKept
  <2>2. AtPrefix(view[p], log')
    <3>1. view[p] = Replay(log') /\ log' \in Seq(Event)
      BY <1>1, <1>2, <1>4 DEF LogInv
    <3>2. QED BY <3>1, WholeReplayed
  <2>3. QED BY <1>2, <2>1, <2>2 DEF OutsideInv
<1>8. InsideInv'
  BY <1>5, ProcAssumption DEF InsideInv
<1>9. QED BY <1>2, <1>4, <1>6, <1>7, <1>8

\* The transaction, if it was the process's, is gone, and the view is made anew.
LEMMA AbortKept ==
    ASSUME StoreInv, NEW p \in Proc, NEW v \in ViewType, AtPrefix(v, log),
           view' = [view EXCEPT ![p] = v],
           txn' = IF txn.by = p THEN NoTxn ELSE txn,
           UNCHANGED <<log, truth>>
    PROVE  StoreInv'
<1> USE DEF StoreInv
<1>1. LogInv' /\ (view \in [Proc -> ViewType])'
  BY DEF LogInv
<1>2. NoTxn = [by |-> NoProc, stage |-> "none", events |-> <<>>]
  BY DEF NoTxn
<1>3. TxnType'
  <2>1. <<>> \in Seq(Event)
    OBVIOUS
  <2>2. NoTxn \in [by : Proc \cup {NoProc}, stage : Stages, events : Seq(Event)]
    BY <1>2, <2>1 DEF Stages
  <2>3. QED BY <2>2 DEF TxnType
<1>4. ASSUME NEW q \in Proc, q # p
      PROVE  view'[q] = view[q] /\ (txn'.by = q <=> txn.by = q) /\ (txn.by = q => txn' = txn)
  BY <1>2, <1>4, ProcAssumption
<1>5. txn'.by # p /\ view'[p] = v
  BY <1>2, ProcAssumption
<1>6. OutsideInv'
  BY <1>4, <1>5 DEF OutsideInv
<1>7. InsideInv'
  <2>1. \A events : Transaction(events) => Transaction(events)'
    BY TransactionKept
  <2>2. QED BY <1>4, <1>5, <2>1 DEF InsideInv
<1>8. QED BY <1>1, <1>3, <1>6, <1>7

\* A transaction that failed.
LEMMA FailKept ==
    ASSUME StoreInv, NEW p \in Proc, Fail(p)
    PROVE  StoreInv'
<1>1. PICK v \in {Replay(log), EmptyView} : view' = [view EXCEPT ![p] = v]
  BY DEF Fail
<1>2. v \in ViewType /\ AtPrefix(v, log)
  BY WholeReplayed, EmptyIsPrefix DEF StoreInv, LogInv
<1>3. txn' = (IF txn.by = p THEN NoTxn ELSE txn) /\ UNCHANGED <<log, truth>>
  BY DEF Fail
<1>4. QED BY <1>1, <1>2, <1>3, AbortKept

\* A process that died.
LEMMA CrashKept ==
    ASSUME StoreInv, NEW p \in Proc, Crash(p)
    PROVE  StoreInv'
<1>1. EmptyView \in ViewType /\ AtPrefix(EmptyView, log)
  BY EmptyIsPrefix DEF StoreInv, LogInv
<1>2. /\ view' = [view EXCEPT ![p] = EmptyView]
      /\ txn' = (IF txn.by = p THEN NoTxn ELSE txn) /\ UNCHANGED <<log, truth>>
  BY DEF Crash
<1>3. QED BY <1>1, <1>2, AbortKept

\* StoreInv is inductive.
LEMMA StoreStep == StoreInv /\ [Next]_vars => StoreInv'
<1> SUFFICES ASSUME StoreInv, [Next]_vars PROVE StoreInv'
  OBVIOUS
<1>1. CASE UNCHANGED vars
  <2>1. \A events : Transaction(events) => Transaction(events)'
    BY <1>1, TransactionKept DEF vars
  <2>2. TxnType' /\ LogInv' /\ OutsideInv' /\ (view \in [Proc -> ViewType])'
    BY <1>1 DEF vars, StoreInv, TxnType, LogInv, OutsideInv
  <2>3. InsideInv'
    BY <1>1, <2>1 DEF vars, StoreInv, InsideInv
  <2>4. QED BY <2>2, <2>3 DEF StoreInv
<1>2. ASSUME NEW p \in Proc, Refresh(p) PROVE StoreInv'
  BY <1>2, RefreshKept
<1>3. ASSUME NEW p \in Proc, Begin(p) PROVE StoreInv'
  BY <1>3, BeginKept
<1>4. ASSUME NEW p \in Proc, NEW now \in 0 .. MaxInstant, Tick(p, now) PROVE StoreInv'
  BY <1>4, TickKept
<1>5. ASSUME NEW p \in Proc, NEW now \in 0 .. MaxInstant, NEW call \in Calls,
             Execute(p, call, now)
      PROVE  StoreInv'
  BY <1>5, DecideKept DEF Execute
<1>6. ASSUME NEW p \in Proc, NEW now \in 0 .. MaxInstant, NEW call \in Calls,
             Confirm(p, call, now)
      PROVE  StoreInv'
  BY <1>6, DecideKept DEF Confirm
<1>7. ASSUME NEW p \in Proc, NEW now \in 0 .. MaxInstant, NEW call \in Calls,
             Decline(p, call, now) \/ Reject(p, call, now)
      PROVE  StoreInv'
  BY <1>7, RejectionKept DEF Decline, Reject
<1>8. ASSUME NEW p \in Proc, AppendEvents(p) PROVE StoreInv'
  BY <1>8, AppendKept
<1>9. ASSUME NEW p \in Proc, Commit(p) PROVE StoreInv'
  BY <1>9, CommitKept
<1>10. ASSUME NEW p \in Proc, Fail(p) \/ Crash(p) PROVE StoreInv'
  BY <1>10, FailKept, CrashKept
<1>11. QED
  BY <1>1, <1>2, <1>3, <1>4, <1>5, <1>6, <1>7, <1>8, <1>9, <1>10 DEF Next

\* In every state the views, the log, and what a transaction has decided fit together.
THEOREM StoreConsistent == Spec => []StoreInv
BY StoreInit, StoreStep, PTL DEF Spec

\* A view is never ahead of the log and never beside it, and the log replays without an
\* event that does not fit, whatever the processes do and wherever one fails or dies.
THEOREM ViewsFollowTheLog == Spec => []ViewIsLogPrefix
<1>1. StoreInv => ViewIsLogPrefix
  <2> SUFFICES ASSUME StoreInv PROVE ViewIsLogPrefix
    OBVIOUS
  <2>1. truth = Replay(log) /\ truth.quarantined = {}
    BY DEF StoreInv, LogInv
  <2>2. ASSUME NEW p \in Proc, txn.by # p
        PROVE  view[p] = Replay(SubSeq(log, 1, view[p].seq))
    BY <2>2 DEF StoreInv, OutsideInv, AtPrefix
  <2>3. ASSUME NEW p \in Proc, txn.by = p
        PROVE  \/ txn.stage = "began" /\ view[p] = truth
               \/ txn.stage = "decided"
               \/ txn.stage = "appended" /\ view[p] = Folded(truth, txn.events)
    BY <2>3 DEF StoreInv, InsideInv
  <2>4. QED BY <2>1, <2>2, <2>3 DEF ViewIsLogPrefix
<1>2. QED BY <1>1, StoreConsistent, PTL

-----------------------------------------------------------------------------
(* The refinement                                                           *)

\* The replay of an empty log is a new engine.
LEMMA EngineInit == Init => Engine!Init
BY DEF Init, EmptyView, Engine!Init

\* A commit is a step of the engine, and no other action is seen by a replay.
LEMMA EngineStep == StoreInv /\ [Next]_vars => [Engine!Next]_(Engine!vars)
<1> SUFFICES ASSUME StoreInv, [Next]_vars PROVE Engine!Next \/ UNCHANGED Engine!vars
  OBVIOUS
<1>1. ASSUME UNCHANGED truth PROVE UNCHANGED Engine!vars
  BY <1>1 DEF Engine!vars
<1>2. ASSUME NEW p \in Proc, Commit(p) PROVE Engine!Next
  <2>1. truth \in ViewType
    BY WholeReplayed DEF StoreInv, LogInv
  <2>2. Transaction(txn.events) /\ truth' = Folded(truth, txn.events)
    BY <1>2 DEF Commit, StoreInv, InsideInv
  <2>3. QED BY <2>1, <2>2, TransactionIsStep
<1>3. CASE UNCHANGED vars
  BY <1>1, <1>3 DEF vars
<1>4. ASSUME NEW p \in Proc,
             \/ Refresh(p) \/ Begin(p) \/ AppendEvents(p) \/ Fail(p) \/ Crash(p)
             \/ \E now \in 0 .. MaxInstant :
                   \/ Tick(p, now)
                   \/ \E call \in Calls :
                         Execute(p, call, now) \/ Confirm(p, call, now)
                         \/ Decline(p, call, now) \/ Reject(p, call, now)
      PROVE  UNCHANGED truth
  BY ZenonT(30), <1>4 DEF Refresh, Begin, AppendEvents, Fail, Crash, Tick, Execute, Confirm, Decline,
              Reject, Decide, Decided
<1>5. QED BY <1>1, <1>2, <1>3, <1>4 DEF Next

\* Seen through a replay, the log of several processes that fail and die changes only by
\* the whole decisions and ticks of TaskEngine.
THEOREM StoreImplementsEngine == Spec => EngineImplemented
BY EngineInit, EngineStep, StoreConsistent, PTL DEF Spec, EngineImplemented, Engine!Spec

-----------------------------------------------------------------------------
(* What TaskEngine guarantees, the log guarantees                           *)

Rules == INSTANCE TaskEngine_proofs WITH
    tasks <- truth.tasks, seen <- truth.seen, pending <- truth.pending

\* The engine that the log implements and the one that TaskEngine_proofs is about.
LEMMA SameOperators ==
    /\ Rules!NoTime = NoTime /\ Rules!NoTask = NoTask /\ Rules!NoKey = NoKey
    /\ \A from, to : Rules!CanTransition(from, to) <=> Engine!CanTransition(from, to)
    /\ \A t, to, now : Rules!WithStatus(t, to, now) = Engine!WithStatus(t, to, now)
    /\ \A t, now : Rules!Ticked(t, now) = Engine!Ticked(t, now)
    /\ \A start, end, deadline, from, now, key :
          Rules!NewTask(start, end, deadline, from, now, key)
             = Engine!NewTask(start, end, deadline, from, now, key)
    /\ \A start, end, deadline :
          Rules!ValidSchedule(start, end, deadline) <=> Engine!ValidSchedule(start, end, deadline)
    /\ \A t : Rules!IsTerminal(t) <=> Engine!IsTerminal(t)
    /\ \A S : Rules!Cardinality(S) = Cardinality(S)
<1>1. Rules!NoTime = NoTime /\ Rules!NoTask = NoTask /\ Rules!NoKey = NoKey
  BY DEF Rules!NoTime, NoTime, Rules!NoTask, NoTask, Rules!NoKey, NoKey
<1>2. \A from, to : Rules!CanTransition(from, to) <=> Engine!CanTransition(from, to)
  BY DEF Rules!CanTransition, Engine!CanTransition, Rules!Transitions, Engine!Transitions,
         Rules!Statuses, Engine!Statuses, Rules!LiveStatuses, Engine!LiveStatuses,
         Rules!TerminalStatuses, Engine!TerminalStatuses, Rules!EarlyExits, Engine!EarlyExits,
         Rules!LateExits, Engine!LateExits
<1>3. \A t, to, now : Rules!WithStatus(t, to, now) = Engine!WithStatus(t, to, now)
  BY DEF Rules!WithStatus, Engine!WithStatus
<1>4. \A t, now : Rules!Ticked(t, now) = Engine!Ticked(t, now)
  BY DEF Rules!Ticked, Engine!Ticked, Rules!Opened, Engine!Opened, Rules!Ended, Engine!Ended,
         Rules!Breached, Engine!Breached, Rules!WindowOpens, Engine!WindowOpens,
         Rules!WindowEnds, Engine!WindowEnds, Rules!DeadlineBreaks, Engine!DeadlineBreaks,
         Rules!Reached, Engine!Reached, Rules!WithStatus, Engine!WithStatus,
         Rules!NoTime, Engine!NoTime
<1>5. \A start, end, deadline, from, now, key :
          Rules!NewTask(start, end, deadline, from, now, key)
             = Engine!NewTask(start, end, deadline, from, now, key)
  BY DEF Rules!NewTask, Engine!NewTask, Rules!InitialStatus, Engine!InitialStatus,
         Rules!NoTime, Engine!NoTime
<1>6. \A start, end, deadline :
          Rules!ValidSchedule(start, end, deadline) <=> Engine!ValidSchedule(start, end, deadline)
  BY DEF Rules!ValidSchedule, Engine!ValidSchedule, Rules!NoTime, Engine!NoTime
<1>7. \A t : Rules!IsTerminal(t) <=> Engine!IsTerminal(t)
  BY DEF Rules!IsTerminal, Engine!IsTerminal, Rules!TerminalStatuses, Engine!TerminalStatuses
<1>8. \A S : Rules!Cardinality(S) = Cardinality(S)
  BY DEF Rules!Cardinality, Cardinality
<1>9. QED BY <1>1, <1>2, <1>3, <1>4, <1>5, <1>6, <1>7, <1>8

\* Its steps are the same steps.
LEMMA SameSteps == /\ Engine!Init => Rules!Init
                   /\ [Engine!Next]_(Engine!vars) => [Rules!Next]_(Rules!vars)
<1>1. Engine!Init => Rules!Init
  BY DEF Engine!Init, Rules!Init
<1>2. UNCHANGED Engine!vars => UNCHANGED Rules!vars
  BY DEF Engine!vars, Rules!vars
<1>3. ASSUME NEW now PROVE Engine!Tick(now) => Rules!Tick(now)
  BY SameOperators DEF Engine!Tick, Rules!Tick
<1>4. ASSUME NEW call, NEW now
      PROVE  /\ Engine!CanCreate(call) <=> Rules!CanCreate(call)
             /\ Engine!CanStart(call) <=> Rules!CanStart(call)
             /\ Engine!CanComplete(call) <=> Rules!CanComplete(call)
             /\ Engine!CanMove(call, now) <=> Rules!CanMove(call, now)
             /\ Engine!CanCancel(call) <=> Rules!CanCancel(call)
             /\ Engine!DeadlineAfter(call) = Rules!DeadlineAfter(call)
             /\ Engine!MovedStatus(call) = Rules!MovedStatus(call)
             /\ Engine!CancelledStatus(call) = Rules!CancelledStatus(call)
             /\ \A t : Engine!CompletionStatus(t) = Rules!CompletionStatus(t)
  <2>1. /\ Engine!MovedStatus(call) = Rules!MovedStatus(call)
        /\ Engine!CancelledStatus(call) = Rules!CancelledStatus(call)
        /\ \A t : Engine!CompletionStatus(t) = Rules!CompletionStatus(t)
    BY DEF Engine!MovedStatus, Rules!MovedStatus, Engine!CancelledStatus,
           Rules!CancelledStatus, Engine!CompletionStatus, Rules!CompletionStatus
  <2>2. Engine!DeadlineAfter(call) = Rules!DeadlineAfter(call)
    BY DEF Engine!DeadlineAfter, Rules!DeadlineAfter, Engine!NoTime, Rules!NoTime
  <2>3. Engine!RecentMoves(call.task, now) = Rules!RecentMoves(call.task, now)
    BY DEF Engine!RecentMoves, Rules!RecentMoves, Engine!Ancestors, Rules!Ancestors,
           Engine!NoTime, Rules!NoTime, Engine!NoTask, Rules!NoTask
  <2>4. Engine!CanCreate(call) <=> Rules!CanCreate(call)
    BY SameOperators DEF Engine!CanCreate, Rules!CanCreate
  <2>5. Engine!CanStart(call) <=> Rules!CanStart(call)
    BY SameOperators, EngineOperators
    DEF Engine!CanStart, Rules!CanStart, Engine!Known, Rules!Known
  <2>6. Engine!CanComplete(call) <=> Rules!CanComplete(call)
    BY SameOperators, <2>1 DEF Engine!CanComplete, Rules!CanComplete, Engine!Known, Rules!Known
  <2>7. Engine!CanMove(call, now) <=> Rules!CanMove(call, now)
    BY SameOperators, EngineOperators, <2>1, <2>2, <2>3
    DEF Engine!CanMove, Rules!CanMove, Engine!Known, Rules!Known
  <2>8. Engine!CanCancel(call) <=> Rules!CanCancel(call)
    BY SameOperators, <2>1 DEF Engine!CanCancel, Rules!CanCancel, Engine!Known, Rules!Known
  <2>9. QED BY <2>1, <2>2, <2>4, <2>5, <2>6, <2>7, <2>8
<1>5. ASSUME NEW call, NEW now, NEW confirmed
      PROVE  /\ Engine!OverLimit(call, now, confirmed) <=> Rules!OverLimit(call, now, confirmed)
             /\ Engine!Runs(call, now, confirmed) <=> Rules!Runs(call, now, confirmed)
             /\ Engine!Accepted(call, now) <=> Rules!Accepted(call, now)
  <2>1. \A since : Engine!CreationsSince(since) = Rules!CreationsSince(since)
    BY SameOperators, EngineOperators DEF Engine!CreationsSince, Rules!CreationsSince
  <2>2. Engine!OverLimit(call, now, confirmed) <=> Rules!OverLimit(call, now, confirmed)
    BY <2>1, SameOperators, EngineOperators DEF Engine!OverLimit, Rules!OverLimit
  <2>3. Engine!Runs(call, now, confirmed) <=> Rules!Runs(call, now, confirmed)
    BY <2>2 DEF Engine!Runs, Rules!Runs
  <2>4. Engine!Accepted(call, now) <=> Rules!Accepted(call, now)
    BY <1>4 DEF Engine!Accepted, Rules!Accepted
  <2>5. QED BY <2>2, <2>3, <2>4
<1>6. ASSUME NEW call, NEW now, NEW confirmed
      PROVE  Engine!Apply(call, now, confirmed) => Rules!Apply(call, now, confirmed)
  <2>1. Engine!CreateTask(call, now) => Rules!CreateTask(call, now)
    BY <1>4, SameOperators, EngineOperators DEF Engine!CreateTask, Rules!CreateTask
  <2>2. Engine!StartTask(call, now) => Rules!StartTask(call, now)
    BY <1>4 DEF Engine!StartTask, Rules!StartTask
  <2>3. Engine!CompleteTask(call, now) => Rules!CompleteTask(call, now)
    BY <1>4, SameOperators DEF Engine!CompleteTask, Rules!CompleteTask
  <2>4. Engine!MoveTask(call, now) => Rules!MoveTask(call, now)
    BY <1>4, SameOperators, EngineOperators DEF Engine!MoveTask, Rules!MoveTask
  <2>5. Engine!CancelTask(call, now) => Rules!CancelTask(call, now)
    BY <1>4, SameOperators DEF Engine!CancelTask, Rules!CancelTask
  <2>6. Engine!Released(call.key) = Rules!Released(call.key)
    BY DEF Engine!Released, Rules!Released
  <2>7. QED BY <1>5, <2>1, <2>2, <2>3, <2>4, <2>5, <2>6 DEF Engine!Apply, Rules!Apply
<1>7. ASSUME NEW call, NEW now, NEW confirmed
      PROVE  Engine!Decide(call, now, confirmed) => Rules!Decide(call, now, confirmed)
  BY <1>5, <1>6
  DEF Engine!Decide, Rules!Decide, Engine!Supersede, Rules!Supersede, Engine!Refuse,
      Rules!Refuse, Engine!Hold, Rules!Hold, Engine!Released, Rules!Released
<1>8. Engine!Next => Rules!Next
  BY <1>3, <1>7
  DEF Engine!Next, Rules!Next, Engine!Execute, Rules!Execute, Engine!Confirm, Rules!Confirm,
      Engine!Decline, Rules!Decline, Engine!Reject, Rules!Reject, Engine!Released,
      Rules!Released
<1>9. QED BY <1>1, <1>2, <1>8

\* What TaskEngine assumes of the constants.
LEMMA EngineConstants ==
    /\ MaxTasks \in Nat /\ MaxInstant \in Nat /\ MaxCreations \in Nat
    /\ CreationWindow \in Nat /\ MaxMoves \in Nat /\ MoveWindow \in Nat
    /\ Calls \subseteq Rules!ActionCall /\ Rules!NoKey \notin Key
BY EngineAssumption, SameOperators
DEF Engine!ActionCall, Rules!ActionCall, Engine!Actions, Rules!Actions,
    Engine!OptionalInstant, Rules!OptionalInstant, Engine!NoTime, Rules!NoTime

\* A behaviour of the store is one of the engine that the theorems are about.
LEMMA LogIsRules == Spec => Rules!Spec
<1>1. Spec => Engine!Spec
  BY StoreImplementsEngine DEF EngineImplemented
<1>2. QED BY <1>1, SameSteps, PTL DEF Engine!Spec, Rules!Spec

\* The rules that TaskEngine's theorems are about, of the tasks that the log replays to.
LogRules ==
    /\ Rules!LineageIsAChain /\ Rules!MoveCap /\ Rules!CreationLimit
    /\ Rules!OneTaskPerKey /\ Rules!HeldNotApplied /\ Rules!StatusIsJustified

\* Whatever processes share the log, fail and die, it keeps the engine's rules: moves and
\* creations are limited, a key makes one task, a moved task has one replacement.
THEOREM LogKeepsTheRules == Spec => []LogRules
<1>1. Rules!Spec => []Rules!LineageIsAChain
  BY EngineConstants, Rules!ChainCorrect
<1>2. Rules!Spec => []Rules!MoveCap
  BY EngineConstants, Rules!MoveCapCorrect
<1>3. Rules!Spec => []Rules!CreationLimit
  BY EngineConstants, Rules!CreationLimitCorrect
<1>4. Rules!Spec => []Rules!OneTaskPerKey
  BY EngineConstants, Rules!OneTaskPerKeyCorrect
<1>5. Rules!Spec => []Rules!HeldNotApplied
  BY EngineConstants, Rules!HeldNotAppliedCorrect
<1>6. Rules!Spec => []Rules!StatusIsJustified
  BY EngineConstants, Rules!StatusJustifiedCorrect
<1>7. QED BY <1>1, <1>2, <1>3, <1>4, <1>5, <1>6, LogIsRules, PTL DEF LogRules

\* And a task that is finished in the log never changes again.
THEOREM LogFinishedIsFinal == Spec => Rules!FinishedIsFinal
<1>1. Spec => Rules!Spec
  BY LogIsRules
<1>2. QED BY <1>1, EngineConstants, Rules!FinalCorrect

=============================================================================
