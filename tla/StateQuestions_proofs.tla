------------------------ MODULE StateQuestions_proofs ------------------------
(***************************************************************************)
(* Proofs about StateQuestions, for every set of titles, keys and shapes,  *)
(* and every limit and bound.                                              *)
(***************************************************************************)
EXTENDS StateQuestions, TaskEngine_proofs, SetInduction

-----------------------------------------------------------------------------
(* Replaying the events that were recorded by an instant                    *)

TaskList == Seq(TaskRecord(Key))

NoteTypes == {"TASK_STARTED", "TASK_WINDOW_ENDED", "TASK_DEADLINE_BREACHED",
              "TASK_MOVED", "TASK_COMPLETED", "TASK_CANCELLED"}

\* An event that gives a task a status.
Notes == [type : NoteTypes, task : Nat, status : Statuses, at : Nat]

\* ... and one that records a new task.
Births == [type : {"TASK_CREATED"}, task : Nat, record : TaskRecord(Key), at : Nat]

LogEvents == Notes \cup Births

\* What an event makes of the tasks is a list of tasks again.
LEMMA ApplyTyped ==
    ASSUME NEW ts \in TaskList, NEW e \in LogEvents
    PROVE  ApplyToTasks(ts, e) \in TaskList
<1>1. CASE e \in Births
  BY <1>1 DEF Births, ApplyToTasks, TaskList
<1>2. CASE e \in Notes
  <2>1. e.type # "TASK_CREATED" /\ e.status \in Statuses /\ e.at \in Nat
    BY <1>2 DEF Notes, NoteTypes
  <2>2. \A t \in TaskRecord(Key) : WithStatus(t, e.status, e.at) \in TaskRecord(Key)
    BY <2>1 DEF WithStatus, TaskRecord, OptionalInstant
  <2> DEFINE us == [ts EXCEPT ![e.task] = WithStatus(@, e.status, e.at)]
  <2>3. CASE e.task \in 1 .. Len(ts)
    <3>1. ts[e.task] \in TaskRecord(Key)
      BY <2>3 DEF TaskList
    <3>2. us \in TaskList
      BY <2>2, <2>3, <3>1, ExceptSeq DEF TaskList
    <3>3. QED BY <2>1, <3>2 DEF ApplyToTasks
  <2>4. CASE e.task \notin 1 .. Len(ts)
    <3>1. us = ts
      BY <2>4 DEF TaskList
    <3>2. QED BY <2>1, <3>1 DEF ApplyToTasks
  <2>5. QED BY <2>3, <2>4
<1>3. QED BY <1>1, <1>2 DEF LogEvents

\* What the replay as of an instant makes of one event.
Step(ts, e, at) == IF e.at <= at THEN ApplyToTasks(ts, e) ELSE ts

\* f goes through the lists of a replay.
Unfolds(f, ts, events, at) ==
    /\ f \in [0 .. Len(events) -> TaskList]
    /\ f[0] = ts
    /\ \A n \in 1 .. Len(events) : f[n] = Step(f[n - 1], events[n], at)
    /\ Replayed(ts, events, at) = f[Len(events)]

\* A replay goes from list to list, one event at a time (view_as_of).
LEMMA ReplayedSteps ==
    ASSUME NEW ts \in TaskList, NEW events \in Seq(LogEvents), NEW at
    PROVE  \E f : Unfolds(f, ts, events, at)
<1> DEFINE N == Len(events)
           Steps(f) == f = [n \in 0 .. N |->
                               IF n = 0 THEN ts
                               ELSE IF events[n].at <= at THEN ApplyToTasks(f[n - 1], events[n])
                               ELSE f[n - 1]]
           step == [n \in 1 .. N |-> [w \in TaskList |-> Step(w, events[n], at)]]
           g == CHOOSE f : Steps(f)
<1>1. N \in Nat /\ \A n \in 1 .. N : events[n] \in LogEvents
  OBVIOUS
<1>2. step \in [1 .. N -> [TaskList -> TaskList]]
  BY <1>1, ApplyTyped DEF Step
<1>3. PICK f \in [0 .. N -> TaskList] : Iterates(f, ts, N, step)
  <2> HIDE DEF step, N
  <2>1. QED BY <1>1, <1>2, IterationExists
<1>4. f[0] = ts /\ \A n \in 1 .. N : f[n] = Step(f[n - 1], events[n], at)
  <2>1. f[0] = ts
    BY <1>3 DEF Iterates
  <2>2. ASSUME NEW n \in 1 .. N PROVE f[n] = Step(f[n - 1], events[n], at)
    <3>1. f[n - 1] \in TaskList
      BY <1>1, <1>3
    <3>2. QED BY <1>3, <3>1 DEF Iterates
  <2>3. QED BY <2>1, <2>2
<1> HIDE DEF step, N
<1>5. Steps(f)
  <2> DEFINE h == [n \in 0 .. N |->
                      IF n = 0 THEN ts
                      ELSE IF events[n].at <= at THEN ApplyToTasks(f[n - 1], events[n])
                      ELSE f[n - 1]]
  <2>1. \A n \in 0 .. N : f[n] = h[n]
    BY <1>1, <1>4 DEF Step
  <2>2. QED BY <1>3, <2>1
<1>6. Steps(g)
  BY <1>5
<1>7. Replayed(ts, events, at) = g[N]
  BY DEF Replayed, N
<1> HIDE DEF g
<1>8. g[0] = ts /\ \A n \in 1 .. N : g[n] = Step(g[n - 1], events[n], at)
  <2> DEFINE h == [n \in 0 .. N |->
                      IF n = 0 THEN ts
                      ELSE IF events[n].at <= at THEN ApplyToTasks(g[n - 1], events[n])
                      ELSE g[n - 1]]
  <2>1. g = h
    BY <1>6
  <2>2. h[0] = ts /\ \A n \in 1 .. N : h[n] = Step(g[n - 1], events[n], at)
    BY <1>1 DEF Step
  <2> HIDE DEF h
  <2>3. QED BY <2>1, <2>2
<1>9. AreAlike(f, g, N)
  <2>1. GoAlike(f, g, N)
    BY <1>4, <1>8 DEF GoAlike
  <2>2. QED BY <1>1, <2>1, IterationUnique
<1>10. Unfolds(f, ts, events, at)
  BY <1>1, <1>3, <1>4, <1>7, <1>9 DEF N, AreAlike, Unfolds
<1>11. QED BY <1>10

\* The replay gives a list of tasks.
LEMMA ReplayedType ==
    ASSUME NEW ts \in TaskList, NEW events \in Seq(LogEvents), NEW at
    PROVE  Replayed(ts, events, at) \in TaskList
<1>1. PICK f : Unfolds(f, ts, events, at)
  BY ReplayedSteps
<1>2. Len(events) \in 0 .. Len(events)
  OBVIOUS
<1>3. QED BY <1>1, <1>2 DEF Unfolds

\* Nothing to replay.
LEMMA ReplayedEmpty ==
    ASSUME NEW ts \in TaskList, NEW at
    PROVE  Replayed(ts, <<>>, at) = ts
<1> DEFINE none == <<>>
<1>1. none \in Seq(LogEvents) /\ Len(none) = 0
  OBVIOUS
<1> HIDE DEF none
<1>2. PICK f : Unfolds(f, ts, none, at)
  BY <1>1, ReplayedSteps
<1>3. QED BY <1>1, <1>2 DEF none, Unfolds

\* One event.
LEMMA ReplayedOne ==
    ASSUME NEW ts \in TaskList, NEW e \in LogEvents, NEW at
    PROVE  Replayed(ts, <<e>>, at) = Step(ts, e, at)
<1>1. <<e>> \in Seq(LogEvents) /\ Len(<<e>>) = 1 /\ <<e>>[1] = e
  OBVIOUS
<1> DEFINE one == <<e>>
<1> HIDE DEF one
<1>2. PICK f : Unfolds(f, ts, one, at)
  BY <1>1, ReplayedSteps DEF one
<1>3. f[0] = ts /\ f[1] = Step(f[0], e, at) /\ Replayed(ts, one, at) = f[1]
  BY <1>1, <1>2 DEF Unfolds, one
<1>4. QED BY <1>3 DEF one

\* Events that are replayed in two parts, or at once.
LEMMA ReplayedConcat ==
    ASSUME NEW ts \in TaskList, NEW a \in Seq(LogEvents), NEW b \in Seq(LogEvents), NEW at
    PROVE  Replayed(ts, a \o b, at) = Replayed(Replayed(ts, a, at), b, at)
<1> DEFINE w == Replayed(ts, a, at)
           m == Len(a)
           N == Len(a) + Len(b)
<1>1. /\ a \o b \in Seq(LogEvents) /\ Len(a \o b) = N /\ N \in Nat /\ m \in 0 .. N
      /\ \A n \in 1 .. N : (a \o b)[n] = IF n <= m THEN a[n] ELSE b[n - m]
  OBVIOUS
<1>2. w \in TaskList
  BY ReplayedType
<1>3. PICK f : /\ f[0] = ts
               /\ \A n \in 1 .. Len(a) : f[n] = Step(f[n - 1], a[n], at)
               /\ w = f[Len(a)]
  <2>1. \E f : Unfolds(f, ts, a, at)
    BY ReplayedSteps
  <2>2. QED BY <2>1 DEF Unfolds
<1> HIDE DEF w
<1>4. PICK h : Unfolds(h, w, b, at)
  BY <1>2, ReplayedSteps
<1>5. PICK g : Unfolds(g, ts, a \o b, at)
  BY <1>1, ReplayedSteps
<1> DEFINE k == [n \in 0 .. N |-> IF n <= m THEN f[n] ELSE h[n - m]]
<1>6. k[0] = ts /\ k[N] = h[Len(b)]
  <2>1. k[0] = f[0]
    BY <1>1
  <2>2. CASE Len(b) = 0
    BY <1>1, <1>3, <1>4, <2>2 DEF Unfolds
  <2>3. CASE Len(b) # 0
    <3>1. ~ (N <= m) /\ N - m = Len(b) /\ N \in 0 .. N
      BY <1>1, <2>3
    <3>2. QED BY <1>3, <2>1, <3>1
  <2>4. QED BY <2>1, <2>2, <2>3
<1>7. ASSUME NEW n \in 1 .. N PROVE k[n] = Step(k[n - 1], (a \o b)[n], at)
  <2>1. CASE n <= m
    <3>1. k[n] = f[n] /\ k[n - 1] = f[n - 1] /\ (a \o b)[n] = a[n] /\ n \in 1 .. m
      BY <1>1, <2>1
    <3>2. QED BY <1>3, <3>1
  <2>2. CASE n = m + 1
    <3>1. k[n] = h[1] /\ k[n - 1] = w /\ (a \o b)[n] = b[1] /\ 1 \in 1 .. Len(b)
      BY <1>1, <1>3, <2>2
    <3>2. h[1] = Step(h[0], b[1], at)
      BY <1>4, <3>1 DEF Unfolds
    <3>3. QED BY <1>4, <3>1, <3>2 DEF Unfolds
  <2>3. CASE n > m + 1
    <3>1. k[n] = h[n - m] /\ k[n - 1] = h[n - m - 1] /\ (a \o b)[n] = b[n - m]
      BY <1>1, <2>3
    <3>2. n - m \in 1 .. Len(b)
      BY <1>1, <2>3
    <3>3. QED BY <1>4, <3>1, <3>2 DEF Unfolds
  <2>4. QED BY <1>1, <2>1, <2>2, <2>3
<1> HIDE DEF k, m, N
<1>8. GoAlike(g, k, N)
  BY <1>1, <1>5, <1>6, <1>7 DEF GoAlike, Unfolds
<1>9. AreAlike(g, k, N)
  BY <1>1, <1>8, IterationUnique
<1>10. g[N] = k[N]
  BY <1>1, <1>9 DEF AreAlike
<1>11. QED BY <1>1, <1>4, <1>5, <1>6, <1>10 DEF w, Unfolds

\* Two instants before and after which the same events were recorded are alike.
LEMMA ReplayedAlike ==
    ASSUME NEW ts \in TaskList, NEW events \in Seq(LogEvents), NEW at, NEW later,
           \A n \in 1 .. Len(events) : events[n].at <= at <=> events[n].at <= later
    PROVE  Replayed(ts, events, at) = Replayed(ts, events, later)
<1> DEFINE N == Len(events)
<1>1. PICK f : Unfolds(f, ts, events, at)
  BY ReplayedSteps
<1>2. PICK g : Unfolds(g, ts, events, later)
  BY ReplayedSteps
<1>3. N \in Nat
  OBVIOUS
<1>4. \A n \in 1 .. N : \A us : Step(us, events[n], at) = Step(us, events[n], later)
  BY DEF Step
<1> HIDE DEF N
<1>5. GoAlike(f, g, N)
  BY <1>1, <1>2, <1>4 DEF GoAlike, Unfolds, N
<1>6. AreAlike(f, g, N)
  BY <1>3, <1>5, IterationUnique
<1>7. QED BY <1>1, <1>2, <1>3, <1>6 DEF AreAlike, Unfolds, N

\* Events that were recorded later change nothing.
LEMMA ReplayedLater ==
    ASSUME NEW ts \in TaskList, NEW events \in Seq(LogEvents), NEW at,
           \A n \in 1 .. Len(events) : ~(events[n].at <= at)
    PROVE  Replayed(ts, events, at) = ts
<1> DEFINE N == Len(events)
           g == [n \in 0 .. N |-> ts]
<1>1. PICK f : Unfolds(f, ts, events, at)
  BY ReplayedSteps
<1>2. N \in Nat /\ \A n \in 0 .. N : g[n] = ts
  OBVIOUS
<1>3. \A n \in 1 .. N : f[n] = f[n - 1] /\ g[n] = ts /\ g[n - 1] = ts
  BY <1>1 DEF Step, Unfolds
<1> HIDE DEF N, g
<1>4. GoAlike(f, g, N)
  BY <1>1, <1>2, <1>3 DEF GoAlike, Unfolds, N
<1>5. AreAlike(f, g, N)
  BY <1>2, <1>4, IterationUnique
<1>6. QED BY <1>1, <1>2, <1>5 DEF AreAlike, Unfolds, N

-----------------------------------------------------------------------------
(* What a pass tells the log                                                *)

TickNote == [type : {"TASK_STARTED", "TASK_WINDOW_ENDED", "TASK_DEADLINE_BREACHED"},
             occurred : OptionalInstant]

\* What a pass tells of one task.
Told(t, i) ==
    [n \in DOMAIN TickEvents(t, clock) |->
        Event(TickEvents(t, clock)[n].type, i, Noticed[TickEvents(t, clock)[n].type])]

\* An event if the boundary is passed.
NoteIf(reached, type, i, status) == IF reached THEN <<Event(type, i, status)>> ELSE <<>>

\* The events, one boundary after the other.
LEMMA ToldIs ==
    ASSUME NEW t \in TaskRecord(Key), NEW i \in Nat, clock \in Nat
    PROVE  Told(t, i) =
              NoteIf(WindowOpens(t, clock), "TASK_STARTED", i, "ACTIVE")
              \o NoteIf(WindowEnds(Opened(t, clock), clock), "TASK_WINDOW_ENDED", i, "WINDOW_ENDED")
              \o NoteIf(DeadlineBreaks(Ended(Opened(t, clock), clock), clock),
                        "TASK_DEADLINE_BREACHED", i, "OVERDUE")
<1> DEFINE note(e) == Event(e.type, i, Noticed[e.type])
           F == [e \in TickNote |-> note(e)]
           B == {note(e) : e \in TickNote}
           opens == WindowOpens(t, clock)
           ends == WindowEnds(Opened(t, clock), clock)
           breaks == DeadlineBreaks(Ended(Opened(t, clock), clock), clock)
           x == [type |-> "TASK_STARTED", occurred |-> t.start]
           y == [type |-> "TASK_WINDOW_ENDED", occurred |-> t.end]
           z == [type |-> "TASK_DEADLINE_BREACHED", occurred |-> t.deadline]
           a == IF opens THEN <<x>> ELSE <<>>
           b == IF ends THEN <<y>> ELSE <<>>
           c == IF breaks THEN <<z>> ELSE <<>>
<1>1. F \in [TickNote -> B]
  OBVIOUS
<1>2. x \in TickNote /\ y \in TickNote /\ z \in TickNote
  BY DEF TickNote, TaskRecord
<1>3. TickEvents(t, clock) = a \o b \o c
  BY DEF TickEvents
<1>4. /\ F[x] = Event("TASK_STARTED", i, "ACTIVE")
      /\ F[y] = Event("TASK_WINDOW_ENDED", i, "WINDOW_ENDED")
      /\ F[z] = Event("TASK_DEADLINE_BREACHED", i, "OVERDUE")
  BY <1>2 DEF Noticed
<1> HIDE DEF x, y, z, opens, ends, breaks, B
<1>5. a \in Seq(TickNote) /\ b \in Seq(TickNote) /\ c \in Seq(TickNote)
  BY <1>2
<1>6. Told(t, i) = Mapped(F, a \o b \o c)
  <2> DEFINE s == TickEvents(t, clock)
  <2>1. s \in Seq(TickNote)
    <3> HIDE DEF a, b, c, s
    <3>1. QED BY <1>3, <1>5 DEF s
  <2>2. Told(t, i) = [n \in DOMAIN s |-> note(s[n])]
    BY DEF Told
  <2> HIDE DEF s, note
  <2>3. \A n \in DOMAIN s : note(s[n]) = F[s[n]]
    BY <2>1
  <2> HIDE DEF F
  <2>4. [n \in DOMAIN s |-> note(s[n])] = Mapped(F, s)
    BY <2>3 DEF Mapped
  <2>5. QED BY <1>3, <2>2, <2>4 DEF s
<1> HIDE DEF F
<1>7. Mapped(F, a \o b \o c) = Mapped(F, a) \o Mapped(F, b) \o Mapped(F, c)
  <2> HIDE DEF a, b, c
  <2>1. a \o b \in Seq(TickNote)
    BY <1>5
  <2>2. Mapped(F, a \o b \o c) = Mapped(F, a \o b) \o Mapped(F, c)
    BY <1>1, <1>5, <2>1, MapJoined
  <2>3. Mapped(F, a \o b) = Mapped(F, a) \o Mapped(F, b)
    BY <1>1, <1>5, MapJoined
  <2>4. QED BY <2>2, <2>3
<1>8. \A e : Mapped(F, <<e>>) = <<F[e]>>
  BY DEF Mapped
<1>9. Mapped(F, <<>>) = <<>>
  BY DEF Mapped
<1>10. /\ Mapped(F, a) = NoteIf(opens, "TASK_STARTED", i, "ACTIVE")
       /\ Mapped(F, b) = NoteIf(ends, "TASK_WINDOW_ENDED", i, "WINDOW_ENDED")
       /\ Mapped(F, c) = NoteIf(breaks, "TASK_DEADLINE_BREACHED", i, "OVERDUE")
  BY <1>4, <1>8, <1>9 DEF NoteIf
<1>11. QED BY <1>6, <1>7, <1>10 DEF opens, ends, breaks

\* The events events of this instant turn ts into us.
Tells(ts, events, us) ==
    /\ events \in Seq(LogEvents)
    /\ \A n \in 1 .. Len(events) : events[n].at = clock
    /\ us \in TaskList
    /\ Replayed(ts, events, clock) = us

\* What is told in two parts.
LEMMA TellsJoined ==
    ASSUME clock \in Nat, NEW ts \in TaskList, NEW us, NEW vs, NEW a, NEW b,
           Tells(ts, a, us), Tells(us, b, vs)
    PROVE  Tells(ts, a \o b, vs)
<1>1. a \in Seq(LogEvents) /\ b \in Seq(LogEvents) /\ us \in TaskList /\ vs \in TaskList
  BY DEF Tells
<1>2. Replayed(ts, a \o b, clock) = vs
  BY <1>1, ReplayedConcat DEF Tells
<1>3. a \o b \in Seq(LogEvents)
  BY <1>1
<1>4. ASSUME NEW n \in 1 .. Len(a \o b) PROVE (a \o b)[n].at = clock
  <2>1. CASE n <= Len(a)
    <3>1. (a \o b)[n] = a[n] /\ n \in 1 .. Len(a)
      BY <1>1, <2>1
    <3>2. QED BY <3>1 DEF Tells
  <2>2. CASE ~(n <= Len(a))
    <3>1. (a \o b)[n] = b[n - Len(a)] /\ n - Len(a) \in 1 .. Len(b)
      BY <1>1, <2>2
    <3>2. QED BY <3>1 DEF Tells
  <2>3. QED BY <2>1, <2>2
<1>5. QED BY <1>1, <1>2, <1>3, <1>4 DEF Tells

\* Nothing told, and one event told.
LEMMA TellsNone ==
    ASSUME clock \in Nat, NEW ts \in TaskList
    PROVE  Tells(ts, <<>>, ts)
BY ReplayedEmpty DEF Tells

\* An event that is dated now tells what it does.
LEMMA TellsOne ==
    ASSUME clock \in Nat, NEW ts \in TaskList, NEW e \in LogEvents, e.at = clock
    PROVE  Tells(ts, <<e>>, ApplyToTasks(ts, e))
<1>1. Replayed(ts, <<e>>, clock) = ApplyToTasks(ts, e)
  BY ReplayedOne DEF Step
<1>2. <<e>> \in Seq(LogEvents) /\ \A n \in 1 .. Len(<<e>>) : <<e>>[n] = e
  OBVIOUS
<1>3. ApplyToTasks(ts, e) \in TaskList
  BY ApplyTyped
<1>4. QED BY <1>1, <1>2, <1>3 DEF Tells

\* A boundary of a task, passed or not.
LEMMA BoundaryTold ==
    ASSUME clock \in Nat, NEW ts \in TaskList, NEW i \in DOMAIN ts, NEW reached,
           NEW type \in NoteTypes, NEW status \in Statuses
    PROVE  Tells(ts, NoteIf(reached, type, i, status),
                 [ts EXCEPT ![i] = IF reached THEN WithStatus(@, status, clock) ELSE @])
<1>1. CASE reached
  <2> DEFINE e == Event(type, i, status)
  <2>1. e \in LogEvents /\ e.at = clock
    <3>1. i \in Nat
      BY DEF TaskList
    <3>2. QED BY <3>1 DEF Event, LogEvents, Notes
  <2>2. ApplyToTasks(ts, e) = [ts EXCEPT ![i] = WithStatus(@, status, clock)]
    BY DEF Event, ApplyToTasks, NoteTypes
  <2> HIDE DEF e
  <2>3. Tells(ts, <<e>>, ApplyToTasks(ts, e))
    BY <2>1, TellsOne
  <2>4. QED BY <1>1, <2>2, <2>3 DEF NoteIf, e
<1>2. CASE ~reached
  <2>1. [ts EXCEPT ![i] = @] = ts
    BY DEF TaskList
  <2>2. QED BY <1>2, <2>1, TellsNone DEF NoteIf
<1>3. QED BY <1>1, <1>2

\* What is told of one task's tick does to the list what the tick does.
LEMMA TaskTickTold ==
    ASSUME clock \in Nat, NEW ts \in TaskList, NEW i \in DOMAIN ts
    PROVE  Tells(ts, Told(ts[i], i), [ts EXCEPT ![i] = Ticked(ts[i], clock)])
<1> DEFINE t == ts[i]
           t1 == Opened(t, clock)
           t2 == Ended(t1, clock)
           t3 == Breached(t2, clock)
           a == NoteIf(WindowOpens(t, clock), "TASK_STARTED", i, "ACTIVE")
           b == NoteIf(WindowEnds(t1, clock), "TASK_WINDOW_ENDED", i, "WINDOW_ENDED")
           c == NoteIf(DeadlineBreaks(t2, clock), "TASK_DEADLINE_BREACHED", i, "OVERDUE")
           us1 == [ts EXCEPT ![i] = t1]
           us2 == [ts EXCEPT ![i] = t2]
           us3 == [ts EXCEPT ![i] = t3]
<1>1. t \in TaskRecord(Key) /\ i \in Nat /\ ts \in Seq(TaskRecord(Key))
  BY DEF TaskList
<1>2. Told(t, i) = a \o b \o c /\ Ticked(t, clock) = t3
  BY <1>1, ToldIs DEF Ticked
<1>3. /\ {"TASK_STARTED", "TASK_WINDOW_ENDED", "TASK_DEADLINE_BREACHED"} \subseteq NoteTypes
      /\ {"ACTIVE", "WINDOW_ENDED", "OVERDUE"} \subseteq Statuses
  BY DEF NoteTypes, Statuses, LiveStatuses
<1>4. Tells(ts, a, us1)
  <2>1. us1 = [ts EXCEPT ![i] = IF WindowOpens(t, clock) THEN WithStatus(@, "ACTIVE", clock) ELSE @]
    BY DEF Opened
  <2> HIDE DEF us1, t
  <2>2. QED BY <1>3, <2>1, BoundaryTold
<1>5. us1 \in TaskList /\ i \in DOMAIN us1 /\ us1[i] = t1
      /\ \A u : [us1 EXCEPT ![i] = u] = [ts EXCEPT ![i] = u]
  <2>1. us1 \in TaskList
    BY <1>4 DEF Tells
  <2>2. QED BY <1>1, <2>1
<1>6. Tells(us1, b, us2)
  <2> HIDE DEF us1, t1
  <2>1. us2 = [us1 EXCEPT ![i] = IF WindowEnds(t1, clock) THEN WithStatus(@, "WINDOW_ENDED", clock) ELSE @]
    BY <1>5 DEF Ended
  <2> HIDE DEF us2
  <2>2. QED BY <1>3, <1>5, <2>1, BoundaryTold
<1>7. us2 \in TaskList /\ i \in DOMAIN us2 /\ us2[i] = t2
      /\ \A u : [us2 EXCEPT ![i] = u] = [ts EXCEPT ![i] = u]
  <2>1. us2 \in TaskList
    BY <1>6 DEF Tells
  <2>2. QED BY <1>1, <2>1
<1>8. Tells(us2, c, us3)
  <2> HIDE DEF us2, t2
  <2>1. us3 = [us2 EXCEPT ![i] = IF DeadlineBreaks(t2, clock) THEN WithStatus(@, "OVERDUE", clock) ELSE @]
    BY <1>7 DEF Breached
  <2> HIDE DEF us3
  <2>2. QED BY <1>3, <1>7, <2>1, BoundaryTold
<1>9. Tells(ts, (a \o b) \o c, us3)
  <2> HIDE DEF a, b, c, us1, us2, us3
  <2>1. Tells(ts, a \o b, us2)
    BY <1>4, <1>6, TellsJoined
  <2>2. QED BY <1>8, <2>1, TellsJoined
<1>10. QED BY <1>2, <1>9

\* What a pass tells the log does to the tasks what the pass does.
LEMMA PassTold ==
    ASSUME clock \in Nat, tasks \in TaskList
    PROVE  Tells(tasks, PassEvents, [i \in DOMAIN tasks |-> Ticked(tasks[i], clock)])
<1> DEFINE N == Len(tasks)
           parts == [i \in 1 .. N |-> Told(tasks[i], i)]
           upTo(k) == [i \in 1 .. N |-> IF i <= k THEN Ticked(tasks[i], clock) ELSE tasks[i]]
<1>1. N \in Nat /\ DOMAIN tasks = 1 .. N
  BY DEF TaskList
<1>2. parts \in Seq(Seq(LogEvents)) /\ Len(parts) = N
  <2>1. ASSUME NEW i \in 1 .. N PROVE Told(tasks[i], i) \in Seq(LogEvents)
    BY <1>1, TaskTickTold DEF Tells
  <2>2. QED BY <1>1, <2>1
<1>3. PassEvents = FlattenSeq(parts)
  BY <1>1 DEF PassEvents, Told
<1>4. \A i \in 1 .. N : parts[i] = Told(tasks[i], i)
  OBVIOUS
<1> HIDE DEF parts
<1>5. PICK f \in [0 .. N -> Seq(LogEvents)] :
          /\ f[0] = <<>>
          /\ \A k \in 1 .. N : f[k] = f[k - 1] \o parts[k]
          /\ FlattenSeq(parts) = f[N]
  <2>1. \E f \in [0 .. Len(parts) -> Seq(LogEvents)] :
            /\ f[0] = <<>>
            /\ \A k \in 1 .. Len(parts) : f[k] = f[k - 1] \o parts[k]
            /\ FlattenSeq(parts) = f[Len(parts)]
    BY <1>2, FlattenSteps
  <2> HIDE DEF N
  <2>2. QED BY <1>2, <2>1
<1> DEFINE T == {k \in 0 .. N : Tells(tasks, f[k], upTo(k))}
<1>6. 0 \in T
  <2>1. upTo(0) = tasks
    <3>1. \A i \in 1 .. N : ~(i <= 0)
      BY <1>1
    <3>2. upTo(0) = [i \in 1 .. N |-> tasks[i]]
      BY <3>1
    <3>3. tasks = [i \in 1 .. N |-> tasks[i]]
      BY <1>1 DEF TaskList
    <3>4. QED BY <3>2, <3>3
  <2>2. Tells(tasks, <<>>, tasks)
    BY TellsNone
  <2> HIDE DEF N, upTo
  <2>3. QED BY <1>1, <1>5, <2>1, <2>2
<1>7. ASSUME NEW k \in 0 .. N - 1, k \in T PROVE k + 1 \in T
  <2> DEFINE i == k + 1
             us == upTo(k)
  <2>1. i \in 1 .. N /\ k \in 0 .. N /\ i - 1 = k
    BY <1>1
  <2>2. Tells(tasks, f[k], us)
    BY <1>7
  <2>3. us[i] = tasks[i] /\ i \in DOMAIN us
    BY <1>1, <2>1
  <2>4. [us EXCEPT ![i] = Ticked(tasks[i], clock)] = upTo(i)
    <3> DEFINE new == [us EXCEPT ![i] = Ticked(tasks[i], clock)]
    <3>1. \A j \in 1 .. N : j <= i <=> j <= k \/ j = i
      BY <1>1, <2>1
    <3>2. \A j \in 1 .. N : new[j] = IF j = i THEN Ticked(tasks[j], clock) ELSE us[j]
      OBVIOUS
    <3>3. \A j \in 1 .. N : new[j] = upTo(i)[j]
      BY <3>1, <3>2
    <3>4. new = [j \in 1 .. N |-> new[j]]
      OBVIOUS
    <3>5. QED BY <3>3, <3>4
  <2> HIDE DEF i, us, upTo, N
  <2>5. us \in TaskList
    BY <2>2 DEF Tells
  <2>6. Tells(us, parts[i], upTo(i))
    <3>1. Tells(us, Told(us[i], i), [us EXCEPT ![i] = Ticked(us[i], clock)])
      BY <2>3, <2>5, TaskTickTold
    <3>2. QED BY <1>4, <2>1, <2>3, <2>4, <3>1
  <2>7. Tells(tasks, f[k] \o parts[i], upTo(i))
    BY <2>2, <2>6, TellsJoined
  <2>8. f[i] = f[k] \o parts[i]
    BY <1>5, <2>1
  <2>9. i \in T
    <3>1. i \in 0 .. N /\ Tells(tasks, f[i], upTo(i))
      BY <1>1, <2>1, <2>7, <2>8
    <3>2. QED BY <3>1
  <2>10. QED BY <2>9 DEF i
<1>8. \A k \in 0 .. N : k \in T
  <2> HIDE DEF T, N
  <2>1. QED BY <1>1, <1>6, <1>7, Induction
<1>9. Tells(tasks, f[N], upTo(N))
  BY <1>1, <1>8
<1>10. upTo(N) = [i \in DOMAIN tasks |-> Ticked(tasks[i], clock)]
  BY <1>1
<1>11. QED BY <1>3, <1>5, <1>9, <1>10

-----------------------------------------------------------------------------
(* The inductive invariant                                                  *)

Versions(t) == fact[t].versions

Fact == [start : OptionalInstant, end : OptionalInstant, deadline : OptionalInstant,
         doneAt : OptionalInstant, cancelled : BOOLEAN, versions : Seq(Nat)]

\* Nothing waits for confirmation, and every task has its dependencies.
ScriptTyped ==
    /\ TypeOK /\ pending = {}
    /\ clock \in Nat /\ passed \in BOOLEAN
    /\ log \in Seq(LogEvents)
    /\ dependsOn \in Seq(SUBSET Nat) /\ Len(dependsOn) = Len(tasks)
    /\ fact \in [Title -> Fact]
    /\ depends \in [Title -> Title \cup {NoTitle}]

\* The versions of a title are one lineage, and every task is a version of one title.
LineageOf(t) ==
    \A n \in 1 .. Len(Versions(t)) :
        /\ Versions(t)[n] \in 1 .. Len(tasks)
        /\ tasks[Versions(t)[n]].carriedFrom = IF n = 1 THEN NoTask ELSE Versions(t)[n - 1]

VersionsDiffer ==
    \A t, u \in Title : \A n \in 1 .. Len(Versions(t)), m \in 1 .. Len(Versions(u)) :
        Versions(t)[n] = Versions(u)[m] => t = u /\ n = m

IsVersion(i) == \E t \in Title : \E n \in 1 .. Len(Versions(t)) : Versions(t)[n] = i

VersionsHold ==
    /\ \A t \in Title : LineageOf(t)
    /\ VersionsDiffer
    /\ \A i \in 1 .. Len(tasks) : IsVersion(i)

\* A version depends on nothing, or on a version of the title its title depends on.
DependsHold ==
    \A t \in Made : \A n \in 1 .. Len(Versions(t)) :
        \/ depends[t] = NoTitle /\ dependsOn[Versions(t)[n]] = {}
        \/ /\ depends[t] \in Made
           /\ \E m \in 1 .. Len(Versions(depends[t])) :
                 dependsOn[Versions(t)[n]] = {Versions(depends[t])[m]}

\* What the script knows of a title is so of its newest version.
FactHolds(f, task) ==
    /\ task.start = f.start /\ task.end = f.end /\ task.deadline = f.deadline
    /\ f.cancelled => task.status = "CANCELLED"
    /\ f.doneAt # NoTime =>
          /\ ~f.cancelled
          /\ task.status = IF Reached(f.end, f.doneAt) \/ Reached(f.deadline, f.doneAt)
                           THEN "COMPLETED_LATE" ELSE "COMPLETED"
    /\ f.doneAt = NoTime /\ ~f.cancelled => task.status \in LiveStatuses

FactsHold == \A t \in Made : FactHolds(fact[t], tasks[Current(t)])

\* No boundary is left to notice.
Settled(task, now) ==
    ~WindowOpens(task, now) /\ ~WindowEnds(task, now) /\ ~DeadlineBreaks(task, now)

\* A task has a start, or none, as its first status says.
Born(task) ==
    /\ task.status = "CREATED" => task.start = NoTime
    /\ task.status = "SCHEDULED" => task.start # NoTime

\* A task is dated by now, and settled if the pass is over.
Timely(task, over, now) ==
    /\ task.lastTransitionAt <= now
    /\ Born(task)
    /\ over => Settled(task, now)

TasksAreTimely == \A i \in 1 .. Len(tasks) : Timely(tasks[i], passed, clock)

\* The log was recorded by now, and its replay is the live list.
LogIsLive ==
    /\ \A n \in 1 .. Len(log) : log[n].at <= clock
    /\ ViewAsOf(log, clock) = tasks

ScriptInv ==
    /\ ScriptTyped
    /\ LineageIsAChain
    /\ StatusIsJustified
    /\ VersionsHold
    /\ DependsHold
    /\ FactsHold
    /\ TasksAreTimely
    /\ LogIsLive

-----------------------------------------------------------------------------
(* One task after a pass                                                    *)

\* A tick changes the status and its date only.
LEMMA TickedFields ==
    ASSUME NEW task \in TaskRecord(Key), NEW now \in Nat
    PROVE  LET t == Ticked(task, now) IN
           /\ t.start = task.start /\ t.end = task.end /\ t.deadline = task.deadline
           /\ t = task \/ (t.lastTransitionAt = now /\ t.status \in LiveStatuses \ {"CREATED", "SCHEDULED"})
<1> DEFINE Same(t, u) ==
        /\ u \in TaskRecord(Key)
        /\ u.start = t.start /\ u.end = t.end /\ u.deadline = t.deadline
        /\ \/ u = t
           \/ u.lastTransitionAt = now /\ u.status \in LiveStatuses \ {"CREATED", "SCHEDULED"}
<1>1. ASSUME NEW t \in TaskRecord(Key), NEW to \in LiveStatuses \ {"CREATED", "SCHEDULED"}
      PROVE  Same(t, WithStatus(t, to, now))
  BY ZenonT(30), <1>1 DEF TaskRecord, WithStatus, Statuses, LiveStatuses, OptionalInstant
<1>2. ASSUME NEW t \in TaskRecord(Key) PROVE Same(t, Opened(t, now))
  BY <1>1 DEF Opened, LiveStatuses
<1>3. ASSUME NEW t \in TaskRecord(Key) PROVE Same(t, Ended(t, now))
  BY <1>1 DEF Ended, LiveStatuses
<1>4. ASSUME NEW t \in TaskRecord(Key) PROVE Same(t, Breached(t, now))
  BY <1>1 DEF Breached, LiveStatuses
<1>5. Same(task, Ticked(task, now))
  <2>1. ASSUME NEW t, NEW u, NEW v, Same(t, u), Same(u, v) PROVE Same(t, v)
    BY <2>1
  <2> HIDE DEF Same
  <2>2. Same(task, Ended(Opened(task, now), now))
    BY <1>2, <1>3, <2>1 DEF Same
  <2>3. QED BY <2>2, <1>4, <2>1 DEF Same, Ticked
<1>6. QED BY <1>5

\* One tick notices every boundary that is reached, a pass may jump over several.
LEMMA TickSettles ==
    ASSUME NEW task \in TaskRecord(Key), NEW now \in Nat
    PROVE  Settled(Ticked(task, now), now)
<1> DEFINE t1 == Opened(task, now)
           t2 == Ended(t1, now)
           t3 == Breached(t2, now)
<1>1. /\ t1 \in TaskRecord(Key) /\ t1.start = task.start
      /\ ~WindowOpens(t1, now)
  BY DEF Opened, WindowOpens, WithStatus, TaskRecord, OptionalInstant, Statuses, LiveStatuses
<1> HIDE DEF t1
<1>2. /\ t2 \in TaskRecord(Key)
      /\ ~WindowOpens(t2, now) /\ ~WindowEnds(t2, now)
  <2>1. CASE WindowEnds(t1, now)
    <3>1. t2 = WithStatus(t1, "WINDOW_ENDED", now)
      BY <2>1 DEF Ended
    <3>2. t2 \in TaskRecord(Key) /\ t2.status = "WINDOW_ENDED"
      BY <1>1, <3>1 DEF WithStatus, TaskRecord, OptionalInstant, Statuses, LiveStatuses
    <3>3. QED BY <3>2 DEF WindowOpens, WindowEnds
  <2>2. CASE ~WindowEnds(t1, now)
    BY <1>1, <2>2 DEF Ended
  <2>3. QED BY <2>1, <2>2
<1> HIDE DEF t2
<1>3. Settled(t3, now)
  BY <1>2 DEF Settled, Breached, DeadlineBreaks, WindowOpens, WindowEnds, WithStatus, TaskRecord,
              OptionalInstant, Statuses, LiveStatuses
<1>4. QED BY <1>3 DEF t1, t2, Ticked

\* A tick leaves a settled task alone.
LEMMA SettledStays ==
    ASSUME NEW task, NEW now, Settled(task, now)
    PROVE  Ticked(task, now) = task
BY DEF Settled, Ticked, Opened, Ended, Breached

\* The status of a live task that is settled is what the rules give for its boundaries.
LEMMA SettledStatus ==
    ASSUME NEW task \in TaskRecord(Key), NEW now \in Nat, Justified(task),
           Timely(task, TRUE, now), task.status \in LiveStatuses
    PROVE  task.status = IF Reached(task.deadline, now) THEN "OVERDUE"
                         ELSE IF task.start = NoTime THEN "CREATED"
                         ELSE IF Reached(task.end, now) THEN "WINDOW_ENDED"
                         ELSE IF now >= task.start THEN "ACTIVE" ELSE "SCHEDULED"
<1>1. /\ task.start \in OptionalInstant /\ task.end \in OptionalInstant
      /\ task.deadline \in OptionalInstant /\ task.lastTransitionAt \in OptionalInstant
  BY DEF TaskRecord
<1>2. \A b \in OptionalInstant : Reached(b, task.lastTransitionAt) => Reached(b, now)
  BY <1>1 DEF Timely, Reached, OptionalInstant, NoTime
<1>3. ValidSchedule(task.start, task.end, task.deadline)
  BY DEF Justified
<1>4. task.start # NoTime => (Reached(task.start, now) <=> now >= task.start)
  BY DEF Reached
<1>5. task.start # NoTime /\ Reached(task.end, now) => now >= task.start
  BY <1>1, <1>3 DEF ValidSchedule, Reached, OptionalInstant, NoTime
<1>6. CASE task.status = "OVERDUE"
  BY <1>1, <1>2, <1>6 DEF Justified
<1>7. CASE task.status = "WINDOW_ENDED"
  <2>1. Reached(task.end, now) /\ task.start # NoTime
    BY <1>1, <1>2, <1>3, <1>7 DEF Justified, ValidSchedule, Reached
  <2>2. ~Reached(task.deadline, now)
    BY <1>7 DEF Timely, Settled, DeadlineBreaks
  <2>3. QED BY <1>7, <2>1, <2>2
<1>8. CASE task.status = "ACTIVE"
  <2>1. Reached(task.start, now) /\ task.start # NoTime
    BY <1>1, <1>2, <1>8 DEF Justified, Reached
  <2>2. ~Reached(task.deadline, now) /\ ~Reached(task.end, now)
    BY <1>8 DEF Timely, Settled, DeadlineBreaks, WindowEnds
  <2>3. QED BY <1>4, <1>8, <2>1, <2>2
<1>9. CASE task.status = "SCHEDULED"
  <2>1. task.start # NoTime /\ ~Reached(task.start, now) /\ ~Reached(task.deadline, now)
    BY <1>9 DEF Timely, Settled, DeadlineBreaks, WindowOpens, Born
  <2>2. QED BY <1>4, <1>5, <1>9, <2>1
<1>10. CASE task.status = "CREATED"
  BY <1>10 DEF Timely, Settled, DeadlineBreaks, Born
<1>11. QED BY <1>6, <1>7, <1>8, <1>9, <1>10 DEF LiveStatuses

\* ... so that a completion right after a pass is late just if a boundary is over.
LEMMA SettledLateness ==
    ASSUME NEW task \in TaskRecord(Key), NEW now \in Nat, Justified(task),
           Timely(task, TRUE, now), task.status \in LiveStatuses
    PROVE  CompletionStatus(task) =
              IF Reached(task.end, now) \/ Reached(task.deadline, now)
              THEN "COMPLETED_LATE" ELSE "COMPLETED"
<1>1. task.start = NoTime => ~Reached(task.end, now)
  BY DEF Justified, ValidSchedule, Reached
<1>2. QED BY <1>1, SettledStatus DEF CompletionStatus

-----------------------------------------------------------------------------
(* Titles and lineages                                                      *)

\* The newest version of a title is a task.
LEMMA CurrentIs ==
    ASSUME ScriptTyped, VersionsHold, NEW t \in Made
    PROVE  /\ t \in Title /\ Len(Versions(t)) \in Nat \ {0}
           /\ Len(Versions(t)) \in 1 .. Len(Versions(t))
           /\ Current(t) = Versions(t)[Len(Versions(t))]
           /\ Current(t) \in 1 .. Len(tasks)
           /\ tasks[Current(t)] \in TaskRecord(Key)
<1>1. t \in Title /\ fact[t] \in Fact /\ fact[t].versions # <<>>
  BY DEF Made, ScriptTyped
<1>2. Versions(t) \in Seq(Nat) /\ Versions(t) # <<>>
  BY <1>1 DEF Versions, Fact
<1>3. Len(Versions(t)) \in Nat \ {0} /\ Len(Versions(t)) \in 1 .. Len(Versions(t))
  BY <1>2
<1>4. Current(t) = Versions(t)[Len(Versions(t))]
  BY DEF Current, Last, Versions
<1>5. Current(t) \in 1 .. Len(tasks)
  BY <1>1, <1>3, <1>4 DEF VersionsHold, LineageOf
<1>6. tasks[Current(t)] \in TaskRecord(Key)
  BY <1>5 DEF ScriptTyped, TypeOK
<1>7. QED BY <1>1, <1>3, <1>4, <1>5, <1>6

\* Titles do not share their tasks.
LEMMA CurrentApart ==
    ASSUME ScriptTyped, VersionsHold, NEW t \in Made, NEW u \in Made, t # u
    PROVE  Current(t) # Current(u)
BY CurrentIs DEF VersionsHold, VersionsDiffer

Older(t, n) == {Versions(t)[m] : m \in 1 .. n - 1}

\* The walk from a version visits the older ones (task.py: carried_from).
LEMMA WalkOfVersion ==
    ASSUME ScriptTyped, VersionsHold, NEW t \in Title
    PROVE  \A n \in 1 .. Len(Versions(t)) : Ancestors(tasks, Versions(t)[n]) = Older(t, n)
<1> DEFINE N == Len(Versions(t))
           v == Versions(t)
           T == {n \in 0 .. N : n # 0 => Ancestors(tasks, v[n]) = Older(t, n)}
<1>1. N \in Nat /\ DOMAIN tasks = 1 .. Len(tasks) /\ Len(tasks) \in Nat
  BY DEF ScriptTyped, Versions, Fact, TypeOK
<1>2. \A n \in 1 .. N : /\ v[n] \in 1 .. Len(tasks)
                        /\ tasks[v[n]].carriedFrom = IF n = 1 THEN NoTask ELSE v[n - 1]
  BY DEF VersionsHold, LineageOf, IsVersion
<1>3. \A k \in DOMAIN tasks : tasks[k].carriedFrom \in DOMAIN tasks \cup {NoTask}
  <2> SUFFICES ASSUME NEW k \in 1 .. Len(tasks)
               PROVE  tasks[k].carriedFrom \in 1 .. Len(tasks) \cup {NoTask}
    BY <1>1
  <2>1. PICK u \in Title : \E n \in 1 .. Len(Versions(u)) : Versions(u)[n] = k
    BY DEF VersionsHold, LineageOf, IsVersion
  <2>2. PICK n \in 1 .. Len(Versions(u)) : Versions(u)[n] = k
    BY <2>1
  <2>3. Len(Versions(u)) \in Nat
    BY DEF ScriptTyped, Versions, Fact
  <2>4. CASE n = 1
    BY <2>2, <2>4 DEF VersionsHold, LineageOf
  <2>5. CASE n # 1
    <3>1. n - 1 \in 1 .. Len(Versions(u))
      BY <2>3, <2>5
    <3>2. QED BY <2>2, <2>5, <3>1 DEF VersionsHold, LineageOf
  <2>6. QED BY <2>4, <2>5
<1> HIDE DEF v, N
<1>4. 0 \in T
  BY <1>1
<1>5. ASSUME NEW n \in 0 .. N - 1, n \in T PROVE n + 1 \in T
  <2>1. n + 1 \in 1 .. N /\ n + 1 \in 0 .. N /\ n + 1 - 1 = n
    BY <1>1
  <2>2. CASE n = 0
    <3>1. tasks[v[1]].carriedFrom = NoTask /\ v[1] \in 1 .. Len(tasks)
      BY <1>2, <2>1, <2>2
    <3>2. Ancestors(tasks, v[1]) = {}
      <4> DEFINE S == {}
      <4>1. S \in SUBSET DOMAIN tasks /\ \A k \in S \cup {v[1]} : tasks[k].carriedFrom \in S \cup {NoTask}
        BY <3>1
      <4>2. QED BY <4>1 DEF Ancestors
    <3>3. Older(t, 1) = {}
      BY DEF Older
    <3>4. QED BY <2>1, <2>2, <3>2, <3>3
  <2>3. CASE n # 0
    <3>1. n \in 1 .. N
      BY <1>1, <2>3
    <3>2. /\ v[n + 1] \in DOMAIN tasks /\ v[n] \in DOMAIN tasks
          /\ tasks[v[n + 1]].carriedFrom = v[n]
      BY <1>1, <1>2, <2>1, <2>3, <3>1
    <3>3. NoTask \notin DOMAIN tasks
      BY <1>1 DEF NoTask
    <3>4. Ancestors(tasks, v[n + 1]) = {v[n]} \cup Ancestors(tasks, v[n])
      BY <1>3, <3>2, <3>3, AncestorsOfChild
    <3>5. Ancestors(tasks, v[n]) = Older(t, n)
      BY <1>5, <2>3
    <3>6. {v[n]} \cup Older(t, n) = Older(t, n + 1)
      <4>1. \A m : m \in 1 .. n + 1 - 1 <=> m \in 1 .. n - 1 \/ m = n
        BY <1>1, <3>1
      <4> HIDE DEF T
      <4>2. QED BY <4>1 DEF Older, v
    <3>7. QED BY <2>1, <3>4, <3>5, <3>6
  <2>4. QED BY <2>2, <2>3
<1>6. \A n \in 0 .. N : n \in T
  <2> HIDE DEF T
  <2>1. QED BY <1>1, <1>4, <1>5, Induction
<1>7. \A n \in 1 .. N : n \in 0 .. N /\ n # 0
  BY <1>1
<1>8. QED BY <1>6, <1>7 DEF v, N

\* A version is superseded just if there is a newer one.
LEMMA MovedVersions ==
    ASSUME ScriptTyped, VersionsHold, LineageIsAChain, NEW t \in Title,
           NEW n \in 1 .. Len(Versions(t))
    PROVE  /\ IsMoved(tasks[Versions(t)[n]]) <=> n < Len(Versions(t))
           /\ n < Len(Versions(t)) => Successors(Versions(t)[n]) # {}
<1> DEFINE i == Versions(t)[n]
           N == Len(Versions(t))
<1>1. N \in Nat /\ DOMAIN tasks = 1 .. Len(tasks) /\ Len(tasks) \in Nat /\ i \in 1 .. Len(tasks)
  BY DEF ScriptTyped, Versions, Fact, TypeOK, VersionsHold, LineageOf
<1>2. IsMoved(tasks[i]) <=> \E j \in 1 .. Len(tasks) : tasks[j].carriedFrom = i
  BY <1>1 DEF LineageIsAChain
<1>3. CASE n < N
  <2>1. n + 1 \in 1 .. N /\ n + 1 # 1 /\ n + 1 - 1 = n
    BY <1>1, <1>3
  <2>2. Versions(t)[n + 1] \in 1 .. Len(tasks) /\ tasks[Versions(t)[n + 1]].carriedFrom = i
    BY <2>1 DEF VersionsHold, LineageOf
  <2>3. QED BY <1>1, <1>2, <1>3, <2>2 DEF Successors
<1>4. CASE ~(n < N)
  <2>1. ASSUME NEW j \in 1 .. Len(tasks), tasks[j].carriedFrom = i PROVE FALSE
    <3>1. PICK u \in Title : \E m \in 1 .. Len(Versions(u)) : Versions(u)[m] = j
      BY DEF VersionsHold, LineageOf, IsVersion
    <3>2. PICK m \in 1 .. Len(Versions(u)) : Versions(u)[m] = j
      BY <3>1
    <3>3. Len(Versions(u)) \in Nat
      BY DEF ScriptTyped, Versions, Fact
    <3>4. i # NoTask
      BY <1>1 DEF NoTask
    <3>5. m # 1
      BY <2>1, <3>2, <3>4 DEF VersionsHold, LineageOf
    <3>6. m - 1 \in 1 .. Len(Versions(u)) /\ Versions(u)[m - 1] = i
      <4>1. m - 1 \in 1 .. Len(Versions(u))
        BY <3>3, <3>5
      <4>2. QED BY <2>1, <3>2, <3>5, <4>1 DEF VersionsHold, LineageOf
    <3>7. u = t /\ m - 1 = n
      BY <3>2, <3>6 DEF VersionsHold, VersionsDiffer
    <3>8. QED BY <1>1, <1>4, <3>2, <3>7
  <2>2. QED BY <1>2, <1>4, <2>1
<1>5. QED BY <1>3, <1>4

\* Whichever version one starts from, the end of the lineage is the newest one
\* (planning.lineage_heads).
LEMMA HeadIsCurrent ==
    ASSUME ScriptTyped, VersionsHold, LineageIsAChain, NEW t \in Made,
           NEW n \in 1 .. Len(Versions(t))
    PROVE  LineageHeads(Versions(t)[n]) = {Current(t)}
<1> DEFINE i == Versions(t)[n]
           N == Len(Versions(t))
           Later == {i} \cup {k \in DOMAIN tasks : i \in Ancestors(tasks, k)}
<1>1. /\ t \in Title /\ N \in Nat /\ N \in 1 .. N /\ Current(t) = Versions(t)[N]
      /\ DOMAIN tasks = 1 .. Len(tasks)
  BY CurrentIs DEF ScriptTyped, TypeOK
<1>2. \A m \in 1 .. N : Versions(t)[m] \in 1 .. Len(tasks)
  BY <1>1 DEF VersionsHold, LineageOf
<1>3. \A m \in 1 .. N : n < m => Versions(t)[m] \in Later
  <2> SUFFICES ASSUME NEW m \in 1 .. N, n < m PROVE i \in Ancestors(tasks, Versions(t)[m])
    BY <1>1, <1>2
  <2>1. n \in 1 .. m - 1
    BY <1>1
  <2>2. i \in Older(t, m)
    BY <2>1 DEF Older
  <2>3. QED BY <1>1, <2>2, WalkOfVersion
<1>4. ASSUME NEW k \in Later PROVE \E m \in 1 .. N : k = Versions(t)[m]
  <2>1. CASE k = i
    BY <2>1
  <2>2. CASE k # i
    <3>1. k \in 1 .. Len(tasks) /\ i \in Ancestors(tasks, k)
      BY <1>1, <2>2
    <3>2. PICK u \in Title : \E m \in 1 .. Len(Versions(u)) : Versions(u)[m] = k
      BY <3>1 DEF VersionsHold, IsVersion
    <3>3. PICK m \in 1 .. Len(Versions(u)) : Versions(u)[m] = k
      BY <3>2
    <3>4. i \in Older(u, m)
      BY <3>1, <3>3, WalkOfVersion
    <3>5. Len(Versions(u)) \in Nat
      BY DEF ScriptTyped, Versions, Fact
    <3>6. PICK l \in 1 .. m - 1 : i = Versions(u)[l]
      BY <3>4 DEF Older
    <3>7. l \in 1 .. Len(Versions(u))
      BY <3>5
    <3>8. u = t
      BY <1>1, <3>6, <3>7 DEF VersionsHold, VersionsDiffer
    <3>9. QED BY <3>3, <3>8
  <2>3. QED BY <2>1, <2>2
<1> DEFINE Ends(j) == ~IsMoved(tasks[j]) \/ Successors(j) = {}
<1>5. \A m \in 1 .. N : Ends(Versions(t)[m]) <=> m = N
  <2>1. \A m \in 1 .. N : m < N <=> m # N
    BY <1>1
  <2>2. QED BY <1>1, <2>1, MovedVersions
<1>6. Current(t) \in Later
  BY <1>1, <1>3
<1>7. LineageHeads(i) = {j \in Later : Ends(j)}
  BY DEF LineageHeads
<1> HIDE DEF Later, Ends
<1>8. QED BY <1>1, <1>4, <1>5, <1>6, <1>7

\* A title the script has finished is finished in the list, and no other is.
LEMMA FinishedIs ==
    ASSUME ScriptTyped, VersionsHold, FactsHold, NEW t \in Made
    PROVE  LET status == tasks[Current(t)].status IN
           /\ Finished(t) => /\ status \in TerminalStatuses
                             /\ status \in Done \/ status \in Abandoned
           /\ ~Finished(t) => /\ status \in LiveStatuses
                              /\ status \notin TerminalStatuses
                              /\ status \notin Done /\ status \notin Abandoned
BY DEF FactsHold, FactHolds, Finished, Done, Abandoned, LiveStatuses, TerminalStatuses

\* The newest version of t depends on nothing, or on a version of another title,
\* whose lineage ends in that title's newest version.
LEMMA DependencyIs ==
    ASSUME ScriptTyped, VersionsHold, DependsHold, LineageIsAChain, NEW t \in Made
    PROVE  \/ depends[t] = NoTitle /\ dependsOn[Current(t)] = {}
           \/ /\ depends[t] # NoTitle /\ depends[t] \in Made
              /\ \E d : /\ dependsOn[Current(t)] = {d}
                        /\ LineageHeads(d) = {Current(depends[t])}
<1> DEFINE u == depends[t]
           i == Current(t)
<1>1. \/ u = NoTitle /\ dependsOn[i] = {}
      \/ /\ u \in Made
         /\ \E m \in 1 .. Len(Versions(u)) : dependsOn[i] = {Versions(u)[m]}
  <2> DEFINE N == Len(Versions(t))
  <2>1. N \in 1 .. N /\ Versions(t)[N] = i
    BY CurrentIs
  <2>2. \/ u = NoTitle /\ dependsOn[Versions(t)[N]] = {}
        \/ /\ u \in Made
           /\ \E m \in 1 .. Len(Versions(u)) : dependsOn[Versions(t)[N]] = {Versions(u)[m]}
    BY <2>1 DEF DependsHold
  <2>3. QED BY <2>1, <2>2
<1>2. u \in Made => u # NoTitle
  BY TitleAssumption DEF Made
<1> HIDE DEF u, i
<1>3. ASSUME u \in Made, NEW m \in 1 .. Len(Versions(u)), dependsOn[i] = {Versions(u)[m]}
      PROVE  \E d : dependsOn[i] = {d} /\ LineageHeads(d) = {Current(u)}
  BY <1>3, HeadIsCurrent
<1>4. QED BY <1>1, <1>2, <1>3 DEF u, i

\* A title is blocked just if it depends on one that is not finished
\* (planning.dependency_state).
LEMMA BlockedIs ==
    ASSUME ScriptTyped, VersionsHold, DependsHold, FactsHold, LineageIsAChain, NEW t \in Made
    PROVE  BlockedBy(Current(t)) # {} <=> depends[t] # NoTitle /\ ~Finished(depends[t])
<1>1. CASE depends[t] = NoTitle /\ dependsOn[Current(t)] = {}
  BY <1>1 DEF BlockedBy
<1>2. CASE /\ depends[t] # NoTitle /\ depends[t] \in Made
           /\ \E d : dependsOn[Current(t)] = {d} /\ LineageHeads(d) = {Current(depends[t])}
  <2>1. PICK d : dependsOn[Current(t)] = {d} /\ LineageHeads(d) = {Current(depends[t])}
    BY <1>2
  <2> DEFINE s == tasks[Current(depends[t])].status
  <2>2. {tasks[h].status : h \in LineageHeads(d)} = {s}
    BY <2>1
  <2> HIDE DEF s
  <2>3. d \in BlockedBy(Current(t)) <=> s \notin Done /\ s \notin Abandoned
    BY <2>1, <2>2 DEF BlockedBy
  <2>4. BlockedBy(Current(t)) \subseteq {d}
    BY <2>1 DEF BlockedBy
  <2>5. s \notin Done /\ s \notin Abandoned <=> ~Finished(depends[t])
    BY <1>2, FinishedIs DEF s
  <2>6. QED BY <1>2, <2>3, <2>4, <2>5
<1>3. QED BY <1>1, <1>2, DependencyIs

-----------------------------------------------------------------------------
(* The oracle                                                               *)

\* After a pass the engine reports for a title what the rules give for its facts.
LEMMA ReportIsDerived ==
    ASSUME ScriptInv, passed, NEW t \in Made
    PROVE  Reported(t) = DeriveStatus(t)
<1> DEFINE i == Current(t)
           task == tasks[Current(t)]
           f == fact[t]
           late == Reached(f.end, f.doneAt) \/ Reached(f.deadline, f.doneAt)
<1> USE DEF ScriptInv
<1>1. task \in TaskRecord(Key) /\ i \in 1 .. Len(tasks) /\ clock \in Nat
  BY CurrentIs DEF ScriptTyped
<1>2. FactHolds(f, task)
  BY DEF FactsHold
<1>3. BlockedBy(i) # {} <=> depends[t] # NoTitle /\ ~Finished(depends[t])
  BY BlockedIs
<1>4. IsTerminal(task) <=> Finished(t)
  BY FinishedIs DEF IsTerminal
<1>5. Reported(t) = IF ~IsTerminal(task) /\ BlockedBy(i) # {} THEN "BLOCKED" ELSE task.status
  BY DEF Reported
<1> HIDE DEF task, f, i
<1>6. CASE f.cancelled
  <2>1. Finished(t) /\ task.status = "CANCELLED" /\ f.doneAt = NoTime
    BY <1>2, <1>6 DEF Finished, f, FactHolds
  <2>2. DeriveStatus(t) = "CANCELLED"
    BY <1>6, <2>1 DEF DeriveStatus, f
  <2>3. QED BY <1>4, <1>5, <2>1, <2>2
<1>7. CASE ~f.cancelled /\ f.doneAt # NoTime
  <2>1. Finished(t) /\ task.status = IF late THEN "COMPLETED_LATE" ELSE "COMPLETED"
    BY <1>2, <1>7 DEF Finished, f, FactHolds
  <2>2. DeriveStatus(t) = IF late THEN "COMPLETED_LATE" ELSE "COMPLETED"
    BY <1>7, <2>1 DEF DeriveStatus, f
  <2>3. QED BY <1>4, <1>5, <2>1, <2>2
<1>8. CASE ~f.cancelled /\ f.doneAt = NoTime
  <2>1. ~Finished(t) /\ task.status \in LiveStatuses
    BY <1>2, <1>8 DEF Finished, f, FactHolds
  <2>2. CASE BlockedBy(i) # {}
    <3>1. IsBlocked(t)
      BY <1>3, <2>1, <2>2 DEF IsBlocked
    <3>2. DeriveStatus(t) = "BLOCKED"
      BY <1>8, <2>1, <3>1 DEF DeriveStatus, f
    <3>3. QED BY <1>4, <1>5, <2>1, <2>2, <3>2
  <2>3. CASE BlockedBy(i) = {}
    <3>1. ~IsBlocked(t)
      BY <1>3, <2>3 DEF IsBlocked
    <3>2. DeriveStatus(t) = IF Reached(f.deadline, clock) THEN "OVERDUE"
                            ELSE IF f.start = NoTime THEN "CREATED"
                            ELSE IF Reached(f.end, clock) THEN "WINDOW_ENDED"
                            ELSE IF clock >= f.start THEN "ACTIVE" ELSE "SCHEDULED"
      BY <1>8, <2>1, <3>1 DEF DeriveStatus, f
    <3>3. Justified(task)
      BY <1>1, CurrentIs DEF StatusIsJustified, Justified, task, i, ScriptTyped, TypeOK
    <3>4. Timely(task, TRUE, clock)
      BY <1>1 DEF TasksAreTimely, task, i, Timely
    <3>5. task.start = f.start /\ task.end = f.end /\ task.deadline = f.deadline
      BY <1>2 DEF FactHolds
    <3>6. QED BY <1>1, <1>4, <1>5, <2>1, <2>3, <3>2, <3>3, <3>4, <3>5, SettledStatus
  <2>4. QED BY <2>2, <2>3
<1>9. QED BY <1>6, <1>7, <1>8

\* ... and the state as of now is the live state.
LEMMA NowIsReplayed ==
    ASSUME ScriptInv, passed
    PROVE  StateAsOf(log, clock) = tasks
<1>1. ViewAsOf(log, clock) = tasks /\ tasks \in Seq(TaskRecord(Key))
  BY DEF ScriptInv, LogIsLive, ScriptTyped, TypeOK
<1>2. \A i \in DOMAIN tasks : Ticked(tasks[i], clock) = tasks[i]
  BY <1>1, SettledStays DEF ScriptInv, TasksAreTimely, Timely
<1>3. StateAsOf(log, clock) = [i \in DOMAIN tasks |-> tasks[i]]
  BY <1>1, <1>2 DEF StateAsOf
<1>4. tasks = [i \in DOMAIN tasks |-> tasks[i]]
  BY <1>1
<1>5. QED BY <1>3, <1>4

\* What the engine reports after a pass is what derive_status works out.
LEMMA InvGivesOracle == ScriptInv => OracleAgrees
BY ReportIsDerived, NowIsReplayed DEF OracleAgrees

-----------------------------------------------------------------------------
(* The reports over dependencies and overlaps                               *)

\* A plan that contradicts its dependencies is reported (schedule_order_problems).
LEMMA OrderIsReported ==
    ASSUME ScriptInv, NEW t \in Made
    PROVE  LET d == depends[t]
               due == IF fact[d].end # NoTime THEN fact[d].end ELSE fact[d].deadline
           IN  ScheduledBefore(Current(t)) # {} <=>
                  d # NoTitle /\ ~Finished(d) /\ fact[t].start # NoTime /\ due > fact[t].start
<1> USE DEF ScriptInv
<1> DEFINE i == Current(t)
           u == depends[t]
           due == IF fact[u].end # NoTime THEN fact[u].end ELSE fact[u].deadline
<1>1. tasks[i].start = fact[t].start
  BY DEF FactsHold, FactHolds
<1>2. CASE u = NoTitle /\ dependsOn[i] = {}
  BY <1>2 DEF ScheduledBefore
<1>3. CASE /\ u # NoTitle /\ u \in Made
           /\ \E d : dependsOn[i] = {d} /\ LineageHeads(d) = {Current(u)}
  <2>1. PICK d : dependsOn[i] = {d} /\ LineageHeads(d) = {Current(u)}
    BY <1>3
  <2> DEFINE head == tasks[Current(u)]
             finish == IF head.end # NoTime THEN head.end ELSE head.deadline
  <2>2. finish = due
    BY <1>3 DEF FactsHold, FactHolds
  <2>3. head.status \notin Done \cup Abandoned <=> ~Finished(u)
    BY <1>3, FinishedIs
  <2>4. d \in ScheduledBefore(i) <=>
            /\ tasks[i].start # NoTime
            /\ head.status \notin Done \cup Abandoned /\ finish > tasks[i].start
    BY <2>1 DEF ScheduledBefore
  <2>5. ScheduledBefore(i) \subseteq {d}
    BY <2>1 DEF ScheduledBefore
  <2> HIDE DEF head, finish, i, u, due
  <2>6. QED BY <1>1, <1>3, <2>2, <2>3, <2>4, <2>5 DEF i, u, due
<1>4. QED BY <1>2, <1>3, DependencyIs

\* The windows of unfinished tasks are not empty.
LEMMA WindowIs ==
    ASSUME ScriptInv, NEW i \in Windowed
    PROVE  /\ i \in Nat /\ i \in DOMAIN tasks /\ ~IsTerminal(tasks[i]) /\ HasWindow(tasks[i])
           /\ tasks[i].start \in Nat /\ tasks[i].end \in Nat
           /\ tasks[i].start < tasks[i].end
<1>1. i \in DOMAIN tasks /\ ~IsTerminal(tasks[i]) /\ HasWindow(tasks[i])
  BY DEF Windowed
<1>2. tasks[i] \in TaskRecord(Key) /\ i \in Nat
  BY <1>1 DEF ScriptInv, ScriptTyped, TypeOK
<1>3. tasks[i].status \in LiveStatuses
  BY <1>1, <1>2 DEF IsTerminal, TaskRecord, Statuses
<1>4. ValidSchedule(tasks[i].start, tasks[i].end, tasks[i].deadline)
  BY <1>1, <1>3 DEF ScriptInv, StatusIsJustified
<1>5. tasks[i].start \in Nat /\ tasks[i].end \in Nat
  BY <1>1, <1>2 DEF HasWindow, TaskRecord, OptionalInstant
<1>6. tasks[i].start < tasks[i].end
  BY <1>1, <1>4 DEF HasWindow, ValidSchedule
<1>7. QED BY <1>1, <1>2, <1>5, <1>6

\* The sweep orders the windows.
LEMMA SweepOrders ==
    ASSUME ScriptInv
    PROVE  \A i, j \in Windowed :
              /\ ~(Before(i, j) /\ Before(j, i))
              /\ i # j => Before(i, j) \/ Before(j, i)
              /\ ~Before(j, j)
              /\ ~Before(j, i) => tasks[i].start <= tasks[j].start
<1> SUFFICES ASSUME NEW i \in Windowed, NEW j \in Windowed
             PROVE  /\ ~(Before(i, j) /\ Before(j, i))
                    /\ i # j => Before(i, j) \/ Before(j, i)
                    /\ ~Before(j, j)
                    /\ ~Before(j, i) => tasks[i].start <= tasks[j].start
  OBVIOUS
<1>1. i \in Nat /\ j \in Nat /\ tasks[i].start \in Nat /\ tasks[j].start \in Nat
  BY WindowIs
<1>2. QED BY <1>1 DEF Before

\* The sweep finds a pair just if a look at one of the two finds the other.
LEMMA SweepFinds ==
    ASSUME ScriptInv, NEW i \in Windowed, NEW j \in Windowed, Before(i, j)
    PROVE  <<i, j>> \in FindConflicts <=> WindowsOverlap(tasks[i], tasks[j])
<1>1. /\ tasks[i].start \in Nat /\ tasks[i].end \in Nat /\ tasks[i].start < tasks[i].end
      /\ tasks[j].start \in Nat /\ tasks[j].end \in Nat /\ tasks[j].start < tasks[j].end
  BY WindowIs
<1>2. tasks[i].start <= tasks[j].start /\ ~Before(j, j)
  BY SweepOrders
<1>3. WindowsOverlap(tasks[i], tasks[j]) <=> tasks[j].start < tasks[i].end
  BY <1>1, <1>2 DEF WindowsOverlap
<1>4. <<i, j>> \in FindConflicts <=>
          \A k \in Windowed : Before(i, k) /\ ~Before(j, k) => tasks[k].start < tasks[i].end
  BY DEF FindConflicts
<1>5. ASSUME tasks[j].start < tasks[i].end, NEW k \in Windowed, Before(i, k), ~Before(j, k)
      PROVE  tasks[k].start < tasks[i].end
  <2>1. tasks[k].start <= tasks[j].start /\ tasks[k].start \in Nat
    BY <1>5, SweepOrders, WindowIs
  <2>2. QED BY <1>1, <1>5, <2>1
<1>6. QED BY <1>2, <1>3, <1>4, <1>5

\* The reports of planning.py and overlap.py leave nothing out.
LEMMA InvGivesReports == ScriptInv => ReportsAreComplete
<1> SUFFICES ASSUME ScriptInv PROVE ReportsAreComplete
  OBVIOUS
<1>1. ASSUME NEW pair \in FindConflicts PROVE <<pair[2], pair[1]>> \notin FindConflicts
  <2>1. pair[1] \in Windowed /\ pair[2] \in Windowed /\ Before(pair[1], pair[2])
    BY DEF FindConflicts
  <2>2. ~Before(pair[2], pair[1])
    BY <2>1, SweepOrders
  <2>3. QED BY <2>2 DEF FindConflicts
<1>2. ASSUME NEW i \in Windowed, NEW j \in Windowed, i # j
      PROVE  j \in FindOverlapping(i) <=> {<<i, j>>, <<j, i>>} \cap FindConflicts # {}
  <2>1. j \in FindOverlapping(i) <=> WindowsOverlap(tasks[i], tasks[j])
    BY <1>2, WindowIs DEF FindOverlapping
  <2>2. WindowsOverlap(tasks[i], tasks[j]) <=> WindowsOverlap(tasks[j], tasks[i])
    BY DEF WindowsOverlap
  <2>3. \A a, b \in Windowed : <<a, b>> \in FindConflicts => Before(a, b)
    BY DEF FindConflicts
  <2>4. CASE Before(i, j)
    <3>1. <<j, i>> \notin FindConflicts
      BY <2>3, <2>4, SweepOrders
    <3>2. QED BY <2>1, <2>4, <3>1, SweepFinds
  <2>5. CASE Before(j, i)
    <3>1. <<i, j>> \notin FindConflicts
      BY <2>3, <2>5, SweepOrders
    <3>2. QED BY <2>1, <2>2, <2>5, <3>1, SweepFinds
  <2>6. QED BY <1>2, <2>4, <2>5, SweepOrders
<1>3. QED BY <1>1, <1>2, OrderIsReported DEF ReportsAreComplete

-----------------------------------------------------------------------------
(* What the steps of the script do                                          *)

\* The call of a step is a call, with a key that was not used.
LEMMA CallIs ==
    ASSUME ScriptTyped, seen # Key, NEW action \in Actions, NEW i \in Nat,
           NEW shape \in OptionalInstant \X OptionalInstant \X OptionalInstant
    PROVE  LET call == Call(action, i, shape) IN
           /\ call \in ActionCall
           /\ call.action = action /\ call.task = i
           /\ call.start = shape[1] /\ call.end = shape[2] /\ call.deadline = shape[3]
           /\ call.key \in Key /\ call.key # NoKey
<1>1. \E k \in Key : k \notin seen
  BY DEF ScriptTyped, TypeOK
<1>2. FreshKey \in Key
  BY <1>1 DEF FreshKey
<1>3. shape[1] \in OptionalInstant /\ shape[2] \in OptionalInstant /\ shape[3] \in OptionalInstant
  OBVIOUS
<1> HIDE DEF FreshKey
<1>4. QED BY <1>2, <1>3, KeyAssumption DEF Call, ActionCall

\* A call of the script is applied after a pass, at the time of the clock.
LEMMA ActIsStep ==
    ASSUME ScriptTyped, NEW call \in ActionCall, Act(call)
    PROVE  /\ EngineStep
           /\ passed = TRUE /\ passed' = FALSE /\ clock' = clock /\ clock \in Nat
           /\ pending' = {} /\ tasks' \in Seq(TaskRecord(Key)) /\ seen' \subseteq Key
           /\ seen # Key
<1>1. /\ passed = TRUE /\ passed' = FALSE /\ clock' = clock /\ clock \in Nat /\ seen # Key
      /\ Apply(call, clock, FALSE)
  BY DEF Act, ScriptTyped
<1>2. EngineStep
  BY <1>1 DEF EngineStep
<1>3. pending' = {}
  BY <1>1 DEF Apply, Released, ScriptTyped
<1>4. TypeOK
  BY DEF ScriptTyped
<1>5. QED BY <1>1, <1>2, <1>3, <1>4, ListStep

\* Titles but t keep what is known of them.
OthersKept(t) == \A u \in Title : u # t => fact'[u] = fact[u]

\* A step adds the task new to the list, as the newest version of t.
Grows(t, new) ==
    LET n == Len(tasks) + 1 IN
    /\ new \in TaskRecord(Key)
    /\ new.status = InitialStatus(new.start) /\ new.lastTransitionAt = NoTime
    /\ new.carriedFrom = IF t \in Made THEN Current(t) ELSE NoTask
    /\ tasks' \in Seq(TaskRecord(Key)) /\ Len(tasks') = n /\ tasks'[n] = new
    /\ \A i \in 1 .. Len(tasks) :
          /\ tasks'[i].carriedFrom = tasks[i].carriedFrom
          /\ ~(t \in Made /\ i = Current(t)) => tasks'[i] = tasks[i]
          /\ t \in Made /\ i = Current(t) =>
                tasks'[i].status \notin LiveStatuses /\ tasks'[i].lastTransitionAt = clock
    /\ t \in Title /\ fact' \in [Title -> Fact]
    /\ OthersKept(t)
    /\ fact'[t].versions = Append(fact[t].versions, n)
    /\ fact'[t].start = new.start /\ fact'[t].end = new.end /\ fact'[t].deadline = new.deadline
    /\ fact'[t].doneAt = NoTime /\ fact'[t].cancelled = FALSE

\* A step finishes the newest version of t, with the status to.
Finishes(t, to) ==
    LET i == Current(t) IN
    /\ t \in Made /\ to \in TerminalStatuses
    /\ tasks' = [tasks EXCEPT ![i] = WithStatus(@, to, clock)]
    /\ ~IsTerminal(tasks[i])
    /\ fact' \in [Title -> Fact]
    /\ OthersKept(t)
    /\ fact'[t].versions = fact[t].versions
    /\ FactHolds(fact'[t], WithStatus(tasks[i], to, clock))

\* A log that has grown by events which do to the tasks what the step does.
LogGrows(events) == log' = log \o events /\ Tells(tasks, events, tasks')

\* A new title.
LEMMA CreateEffect ==
    ASSUME ScriptInv, NEW t \in Title, Create(t)
    PROVE  /\ EngineStep
           /\ passed = TRUE /\ passed' = FALSE /\ clock' = clock /\ pending' = {} /\ seen' \subseteq Key
           /\ \E new : Grows(t, new) /\ t \notin Made
           /\ \E events : LogGrows(events)
           /\ \E d \in {NoTitle} \cup (Made \ {t}) :
                 /\ dependsOn' = Append(dependsOn, IF d = NoTitle THEN {} ELSE {Current(d)})
                 /\ depends' = [depends EXCEPT ![t] = d]
<1> USE DEF ScriptInv
<1>1. PICK shape \in Shapes, d \in {NoTitle} \cup (Made \ {t}) :
          /\ t \notin Made
          /\ Act(Call("create_task", NoTask, shape))
          /\ dependsOn' = Append(dependsOn, IF d = NoTitle THEN {} ELSE {Current(d)})
          /\ log' = Append(log, Created(Len(tasks'), Last(tasks')))
          /\ fact' = [fact EXCEPT ![t] = [Unknown EXCEPT !.start = shape[1], !.end = shape[2],
                                             !.deadline = shape[3], !.versions = <<Len(tasks')>>]]
          /\ depends' = [depends EXCEPT ![t] = d]
  BY DEF Create
<1> DEFINE call == Call("create_task", NoTask, shape)
           new == NewTask(shape[1], shape[2], shape[3], NoTask, clock, call.key)
           n == Len(tasks) + 1
<1>2. /\ shape \in OptionalInstant \X OptionalInstant \X OptionalInstant
      /\ shape[1] \in OptionalInstant /\ shape[2] \in OptionalInstant /\ shape[3] \in OptionalInstant
  BY ShapesAssumption
<1>3. seen # Key /\ Apply(call, clock, FALSE)
  BY <1>1 DEF Act
<1>4. /\ call \in ActionCall /\ call.action = "create_task"
      /\ call.start = shape[1] /\ call.end = shape[2] /\ call.deadline = shape[3]
      /\ call.key \in Key
  BY <1>2, <1>3, CallIs DEF Actions, NoTask
<1> HIDE DEF call
<1>5. /\ EngineStep
      /\ passed = TRUE /\ passed' = FALSE /\ clock' = clock /\ clock \in Nat
      /\ pending' = {} /\ tasks' \in Seq(TaskRecord(Key)) /\ seen' \subseteq Key
  BY <1>1, <1>4, ActIsStep DEF call
<1>6. tasks' = Append(tasks, new)
  BY <1>3, <1>4 DEF Apply, CreateTask, StartTask, CanStart, CompleteTask, CanComplete,
                    MoveTask, CanMove, CancelTask, CanCancel
<1>7. new \in TaskRecord(Key)
  BY <1>2, <1>4, <1>5, NewTaskType DEF NoTask
<1>8. /\ new.status = InitialStatus(new.start) /\ new.lastTransitionAt = NoTime
      /\ new.carriedFrom = NoTask
      /\ new.start = shape[1] /\ new.end = shape[2] /\ new.deadline = shape[3]
  BY DEF NewTask
<1> HIDE DEF new
<1>9. /\ tasks \in Seq(TaskRecord(Key)) /\ Len(tasks) \in Nat
      /\ Len(tasks') = n /\ tasks'[n] = new
      /\ \A i \in 1 .. Len(tasks) : tasks'[i] = tasks[i]
  BY <1>6, <1>7 DEF ScriptTyped, TypeOK
<1>10. fact \in [Title -> Fact] /\ fact[t].versions = <<>>
  BY <1>1 DEF ScriptTyped, Made
<1> DEFINE f == [Unknown EXCEPT !.start = shape[1], !.end = shape[2],
                                !.deadline = shape[3], !.versions = <<Len(tasks')>>]
<1>11. /\ f \in Fact /\ f.versions = <<n>>
       /\ f.start = shape[1] /\ f.end = shape[2] /\ f.deadline = shape[3]
       /\ f.doneAt = NoTime /\ f.cancelled = FALSE
  <2> DEFINE vs == <<Len(tasks')>>
             first == [start |-> shape[1], end |-> shape[2], deadline |-> shape[3],
                       doneAt |-> NoTime, cancelled |-> FALSE, versions |-> vs]
  <2>1. vs = <<n>> /\ vs \in Seq(Nat) /\ NoTime \in OptionalInstant
    BY <1>9 DEF OptionalInstant
  <2>2. f = [Unknown EXCEPT !.start = shape[1], !.end = shape[2], !.deadline = shape[3],
                            !.versions = vs]
    OBVIOUS
  <2> HIDE DEF vs, f, n
  <2>3. f = first
    BY <2>2 DEF Unknown
  <2>4. QED BY <1>2, <2>1, <2>3 DEF Fact
<1> HIDE DEF f
<1>12. fact' = [fact EXCEPT ![t] = f]
  BY <1>1 DEF f
<1>13. Append(fact[t].versions, n) = <<n>>
  BY <1>10
<1>14. /\ fact' \in [Title -> Fact] /\ fact'[t] = f /\ OthersKept(t)
  BY <1>10, <1>11, <1>12 DEF OthersKept
<1>15. Grows(t, new)
  BY <1>1, <1>5, <1>7, <1>8, <1>9, <1>11, <1>13, <1>14 DEF Grows
<1>16. LogGrows(<<Created(n, new)>>)
  <2> DEFINE e == Created(n, new)
  <2>1. e \in LogEvents /\ e.at = clock
    BY <1>5, <1>7, <1>9 DEF Created, LogEvents, Births
  <2>2. ApplyToTasks(tasks, e) = tasks'
    BY <1>6 DEF Created, ApplyToTasks
  <2>3. Last(tasks') = new
    BY <1>9 DEF Last
  <2>4. log' = Append(log, e)
    BY <1>1, <1>9, <2>3
  <2>5. log \in Seq(LogEvents)
    BY DEF ScriptTyped
  <2>6. tasks \in TaskList
    BY <1>9 DEF TaskList
  <2> HIDE DEF e
  <2>7. Tells(tasks, <<e>>, tasks')
    BY <1>5, <2>1, <2>2, <2>6, TellsOne
  <2>8. log' = log \o <<e>>
    BY <2>1, <2>4, <2>5
  <2>9. QED BY <2>7, <2>8 DEF LogGrows, e
<1>17. QED BY <1>1, <1>5, <1>15, <1>16

\* Two events, one after the other.
LEMMA PairOf == ASSUME NEW e, NEW c PROVE <<e>> \o <<c>> = <<e, c>>
<1> DEFINE S == {e, c}
           two == <<e>> \o <<c>>
<1>1. <<e>> \in Seq(S) /\ <<c>> \in Seq(S)
  OBVIOUS
<1>2. two \in Seq(S) /\ Len(two) = 2
  BY <1>1
<1>3. <<e, c>> \in Seq(S) /\ Len(<<e, c>>) = 2
  OBVIOUS
<1>4. \A n \in 1 .. 2 : two[n] = <<e, c>>[n]
  BY <1>1
<1> HIDE DEF two
<1>5. two = <<e, c>>
  BY <1>2, <1>3, <1>4, SeqEqual
<1>6. QED BY <1>5 DEF two

\* A title gets a new version.
LEMMA MoveEffect ==
    ASSUME ScriptInv, NEW t \in Title, Move(t)
    PROVE  /\ EngineStep
           /\ passed = TRUE /\ passed' = FALSE /\ clock' = clock /\ pending' = {} /\ seen' \subseteq Key
           /\ \E new : Grows(t, new) /\ t \in Made
           /\ \E events : LogGrows(events)
           /\ dependsOn' = Append(dependsOn, dependsOn[Current(t)])
           /\ depends' = depends
<1> USE DEF ScriptInv
<1> DEFINE p == Current(t)
           n == Len(tasks) + 1
<1>1. PICK shape \in Shapes, action \in {"reschedule_task", "carry_forward_task"} :
          LET call == Call(action, p, <<shape[1], shape[2], NoTime>>) IN
          /\ t \in Made
          /\ Act(call)
          /\ dependsOn' = Append(dependsOn, dependsOn[p])
          /\ log' = log \o <<Event("TASK_MOVED", p, MovedStatus(call)),
                             Created(Len(tasks'), Last(tasks'))>>
          /\ fact' = [fact EXCEPT ![t].start = shape[1], ![t].end = shape[2],
                                  ![t].versions = Append(@, Len(tasks'))]
          /\ depends' = depends
  BY DEF Move
<1> DEFINE call == Call(action, p, <<shape[1], shape[2], NoTime>>)
           to == MovedStatus(call)
           old == WithStatus(tasks[p], to, clock)
           moved == [tasks EXCEPT ![p] = old]
           new == NewTask(shape[1], shape[2], tasks[p].deadline, p, clock, NoKey)
<1>2. shape[1] \in OptionalInstant /\ shape[2] \in OptionalInstant /\ NoTime \in OptionalInstant
  BY ShapesAssumption DEF OptionalInstant
<1>3. seen # Key /\ Apply(call, clock, FALSE)
  BY <1>1 DEF Act
<1>4. /\ p \in 1 .. Len(tasks) /\ p \in Nat /\ tasks[p] \in TaskRecord(Key)
      /\ tasks \in Seq(TaskRecord(Key)) /\ Len(tasks) \in Nat
  BY <1>1, CurrentIs DEF ScriptTyped, TypeOK
<1> HIDE DEF p
<1>5. /\ call \in ActionCall /\ call.action = action /\ call.task = p
      /\ call.start = shape[1] /\ call.end = shape[2] /\ call.deadline = NoTime
  <2> DEFINE s == <<shape[1], shape[2], NoTime>>
  <2>1. s \in OptionalInstant \X OptionalInstant \X OptionalInstant
        /\ s[1] = shape[1] /\ s[2] = shape[2] /\ s[3] = NoTime
    BY <1>2
  <2>2. action \in Actions
    BY DEF Actions
  <2> HIDE DEF s
  <2>3. QED BY <1>3, <1>4, <2>1, <2>2, CallIs DEF s
<1> HIDE DEF call
<1>6. /\ EngineStep
      /\ passed = TRUE /\ passed' = FALSE /\ clock' = clock /\ clock \in Nat
      /\ pending' = {} /\ tasks' \in Seq(TaskRecord(Key)) /\ seen' \subseteq Key
  BY <1>1, <1>5, ActIsStep DEF call
<1>7. MoveTask(call, clock)
  BY <1>3, <1>5 DEF Apply, CreateTask, CanCreate, StartTask, CanStart, CompleteTask, CanComplete,
                    CancelTask, CanCancel
<1>8. DeadlineAfter(call) = tasks[p].deadline
  BY <1>5 DEF DeadlineAfter
<1>9. tasks' = Append(moved, new)
  BY <1>5, <1>7, <1>8 DEF MoveTask
<1>10. ~IsTerminal(tasks[p])
  BY <1>5, <1>6, <1>7, MoveShape DEF ScriptTyped
<1>11. new \in TaskRecord(Key)
  <2>1. tasks[p].deadline \in OptionalInstant
    BY <1>4 DEF TaskRecord
  <2>2. QED BY <1>2, <1>4, <1>6, <2>1, NewTaskType
<1>12. /\ new.status = InitialStatus(new.start) /\ new.lastTransitionAt = NoTime
       /\ new.carriedFrom = p
       /\ new.start = shape[1] /\ new.end = shape[2] /\ new.deadline = tasks[p].deadline
  BY DEF NewTask
<1> HIDE DEF new
<1>13. to \in {"RESCHEDULED", "CARRIED_FORWARD"}
  BY DEF MovedStatus
<1> HIDE DEF to
<1>14. /\ old \in TaskRecord(Key) /\ old.status \notin LiveStatuses /\ old.lastTransitionAt = clock
       /\ old.carriedFrom = tasks[p].carriedFrom
  BY <1>4, <1>6, <1>13 DEF WithStatus, TaskRecord, OptionalInstant, Statuses, TerminalStatuses, LiveStatuses
<1> HIDE DEF old
<1>15. /\ moved \in Seq(TaskRecord(Key)) /\ Len(moved) = Len(tasks)
       /\ \A i \in 1 .. Len(tasks) : moved[i] = IF i = p THEN old ELSE tasks[i]
  BY <1>4, <1>14, ExceptSeq
<1> HIDE DEF moved
<1>16. /\ Len(tasks') = n /\ tasks'[n] = new
       /\ \A i \in 1 .. Len(tasks) : tasks'[i] = moved[i]
  BY <1>4, <1>9, <1>11, <1>15
<1>17. \A i \in 1 .. Len(tasks) :
          /\ tasks'[i].carriedFrom = tasks[i].carriedFrom
          /\ i # p => tasks'[i] = tasks[i]
          /\ i = p => tasks'[i].status \notin LiveStatuses /\ tasks'[i].lastTransitionAt = clock
  BY <1>14, <1>15, <1>16
<1>18. /\ fact \in [Title -> Fact] /\ fact[t] \in Fact
       /\ fact[t].deadline = tasks[p].deadline
       /\ fact[t].doneAt = NoTime /\ fact[t].cancelled = FALSE
  <2>1. fact \in [Title -> Fact] /\ fact[t] \in Fact
    BY DEF ScriptTyped
  <2>2. FactHolds(fact[t], tasks[p])
    BY <1>1 DEF FactsHold, p
  <2>3. tasks[p].status \notin TerminalStatuses
    BY <1>10 DEF IsTerminal
  <2>4. fact[t].cancelled \in BOOLEAN
    BY <2>1 DEF Fact
  <2>5. QED BY <2>1, <2>2, <2>3, <2>4 DEF FactHolds, TerminalStatuses
<1> DEFINE f == [fact[t] EXCEPT !.start = shape[1], !.end = shape[2], !.versions = Append(@, n)]
<1>19. /\ f \in Fact /\ f.versions = Append(fact[t].versions, n)
       /\ f.start = shape[1] /\ f.end = shape[2] /\ f.deadline = fact[t].deadline
       /\ f.doneAt = fact[t].doneAt /\ f.cancelled = fact[t].cancelled
  <2>1. Append(fact[t].versions, n) \in Seq(Nat)
    BY <1>4, <1>18 DEF Fact
  <2>2. QED BY <1>2, <1>18, <2>1 DEF Fact
<1>20. fact' = [fact EXCEPT ![t] = f]
  BY <1>1, <1>16, <1>18
<1> HIDE DEF f
<1>21. fact' \in [Title -> Fact] /\ fact'[t] = f /\ OthersKept(t)
  BY <1>18, <1>19, <1>20 DEF OthersKept
<1>22. Grows(t, new)
  <2>1. t \in Made /\ t \in Title
    BY <1>1
  <2>2. /\ fact'[t].versions = Append(fact[t].versions, n)
        /\ fact'[t].start = new.start /\ fact'[t].end = new.end /\ fact'[t].deadline = new.deadline
        /\ fact'[t].doneAt = NoTime /\ fact'[t].cancelled = FALSE
    BY <1>12, <1>18, <1>19, <1>21
  <2>3. QED BY <1>6, <1>11, <1>12, <1>16, <1>17, <1>21, <2>1, <2>2 DEF Grows, p
<1>23. LogGrows(<<Event("TASK_MOVED", p, to), Created(n, new)>>)
  <2> DEFINE e == Event("TASK_MOVED", p, to)
             c == Created(n, new)
  <2>1. e \in LogEvents /\ e.at = clock /\ c \in LogEvents /\ c.at = clock
    <3>1. e \in LogEvents /\ e.at = clock
      BY <1>4, <1>6, <1>13 DEF Event, LogEvents, Notes, NoteTypes, Statuses, TerminalStatuses
    <3>2. c \in LogEvents /\ c.at = clock
      BY <1>4, <1>6, <1>11 DEF Created, LogEvents, Births
    <3>3. QED BY <3>1, <3>2
  <2>2. ApplyToTasks(tasks, e) = moved
    BY DEF Event, ApplyToTasks, moved, old
  <2>3. ApplyToTasks(moved, c) = tasks'
    BY <1>9 DEF Created, ApplyToTasks
  <2>4. Last(tasks') = new
    BY <1>16 DEF Last
  <2>5. log' = log \o <<e, c>>
    BY <1>1, <1>16, <2>4 DEF call, to
  <2>6. tasks \in TaskList /\ moved \in TaskList
    BY <1>4, <1>15 DEF TaskList
  <2> HIDE DEF e, c
  <2>7. Tells(tasks, <<e>>, moved) /\ Tells(moved, <<c>>, tasks')
    BY <1>6, <2>1, <2>2, <2>3, <2>6, TellsOne
  <2>8. Tells(tasks, <<e>> \o <<c>>, tasks')
    BY <1>6, <2>6, <2>7, TellsJoined
  <2>9. <<e>> \o <<c>> = <<e, c>>
    BY PairOf
  <2>10. Tells(tasks, <<e, c>>, tasks')
    BY <2>8, <2>9
  <2>11. QED BY <2>5, <2>10 DEF LogGrows, e, c
<1>24. QED BY <1>1, <1>6, <1>22, <1>23 DEF p

\* What is known of a title that is not finished.
LEMMA LiveTitle ==
    ASSUME ScriptInv, NEW t \in Made, ~IsTerminal(tasks[Current(t)])
    PROVE  LET task == tasks[Current(t)]
               f == fact[t] IN
           /\ f \in Fact /\ f.doneAt = NoTime /\ f.cancelled = FALSE
           /\ task \in TaskRecord(Key) /\ task.status \in LiveStatuses
           /\ task.start = f.start /\ task.end = f.end /\ task.deadline = f.deadline
           /\ Justified(task)
           /\ Timely(task, passed, clock)
<1> USE DEF ScriptInv
<1> DEFINE task == tasks[Current(t)]
           f == fact[t]
<1>1. /\ task \in TaskRecord(Key) /\ Current(t) \in 1 .. Len(tasks) /\ t \in Title
      /\ DOMAIN tasks = 1 .. Len(tasks)
  BY CurrentIs DEF ScriptTyped, TypeOK
<1>2. f \in Fact /\ f.cancelled \in BOOLEAN
  BY <1>1 DEF ScriptTyped, Fact
<1>3. FactHolds(f, task)
  BY DEF FactsHold
<1>4. task.status \notin TerminalStatuses
  BY DEF IsTerminal
<1>5. Justified(task)
  BY <1>1 DEF StatusIsJustified, Justified
<1>6. Timely(task, passed, clock)
  BY <1>1 DEF TasksAreTimely
<1> HIDE DEF task, f
<1>7. f.doneAt = NoTime /\ f.cancelled = FALSE
  BY <1>2, <1>3, <1>4 DEF FactHolds, TerminalStatuses
<1>8. task.status \in LiveStatuses /\ task.start = f.start /\ task.end = f.end /\ task.deadline = f.deadline
  BY <1>3, <1>7 DEF FactHolds
<1>9. QED BY <1>1, <1>2, <1>5, <1>6, <1>7, <1>8 DEF task, f

\* A step that gives the newest version of t a finished status tells the log so.
LEMMA FinishTold ==
    ASSUME ScriptTyped, VersionsHold, NEW t \in Made, NEW to \in TerminalStatuses,
           NEW type \in NoteTypes,
           tasks' = [tasks EXCEPT ![Current(t)] = WithStatus(@, to, clock)],
           log' = Append(log, Event(type, Current(t), to))
    PROVE  LogGrows(<<Event(type, Current(t), to)>>)
<1> DEFINE e == Event(type, Current(t), to)
<1>1. Current(t) \in Nat /\ clock \in Nat /\ log \in Seq(LogEvents) /\ tasks \in TaskList
  BY CurrentIs DEF ScriptTyped, TypeOK, TaskList
<1>2. e \in LogEvents /\ e.at = clock
  BY <1>1 DEF Event, LogEvents, Notes, Statuses
<1>3. ApplyToTasks(tasks, e) = tasks'
  BY DEF Event, ApplyToTasks, NoteTypes
<1> HIDE DEF e
<1>4. Tells(tasks, <<e>>, tasks')
  BY <1>1, <1>2, <1>3, TellsOne
<1>5. log' = log \o <<e>>
  BY <1>1, <1>2 DEF e
<1>6. QED BY <1>4, <1>5 DEF LogGrows, e

\* A title is done.
LEMMA CompleteEffect ==
    ASSUME ScriptInv, NEW t \in Title, Complete(t)
    PROVE  /\ EngineStep
           /\ passed = TRUE /\ passed' = FALSE /\ clock' = clock /\ pending' = {} /\ seen' \subseteq Key
           /\ \E to : Finishes(t, to)
           /\ \E events : LogGrows(events)
           /\ dependsOn' = dependsOn /\ depends' = depends
<1> USE DEF ScriptInv
<1> DEFINE p == Current(t)
           call == Call("complete_task", p, Shapeless)
           to == CompletionStatus(tasks[p])
           f == [fact[t] EXCEPT !.doneAt = clock]
<1>1. /\ t \in Made /\ Act(call)
      /\ log' = Append(log, Event("TASK_COMPLETED", p, to))
      /\ fact' = [fact EXCEPT ![t].doneAt = clock]
      /\ dependsOn' = dependsOn /\ depends' = depends
  BY DEF Complete
<1>2. seen # Key /\ Apply(call, clock, FALSE)
  BY <1>1 DEF Act
<1>3. /\ p \in 1 .. Len(tasks) /\ p \in Nat /\ tasks[p] \in TaskRecord(Key)
      /\ clock \in Nat
  BY <1>1, CurrentIs DEF ScriptTyped
<1> HIDE DEF p
<1>4. call \in ActionCall /\ call.action = "complete_task" /\ call.task = p
  <2>1. "complete_task" \in Actions
    BY DEF Actions
  <2>2. Shapeless \in OptionalInstant \X OptionalInstant \X OptionalInstant
    BY DEF Shapeless, OptionalInstant
  <2>3. QED BY <1>2, <1>3, <2>1, <2>2, CallIs
<1> HIDE DEF call
<1>5. /\ EngineStep
      /\ passed = TRUE /\ passed' = FALSE /\ clock' = clock
      /\ pending' = {} /\ seen' \subseteq Key
  BY <1>1, <1>4, ActIsStep
<1>6. CompleteTask(call, clock)
  BY <1>2, <1>4 DEF Apply, CreateTask, CanCreate, StartTask, CanStart, MoveTask, CanMove,
                    CancelTask, CanCancel
<1>7. /\ tasks' = [tasks EXCEPT ![p] = WithStatus(@, to, clock)]
      /\ CanTransition(tasks[p].status, to)
  BY <1>4, <1>6 DEF CompleteTask, CanComplete
<1>8. to \in TerminalStatuses
  BY DEF CompletionStatus, TerminalStatuses
<1>9. ~IsTerminal(tasks[p])
  BY <1>3, <1>7 DEF CanTransition, Transitions, IsTerminal, TerminalStatuses, Statuses, TaskRecord
<1> DEFINE task == tasks[p]
<1>10. /\ fact[t] \in Fact /\ fact[t].doneAt = NoTime /\ fact[t].cancelled = FALSE
       /\ task.status \in LiveStatuses /\ Justified(task) /\ Timely(task, TRUE, clock)
       /\ task.start = fact[t].start /\ task.end = fact[t].end /\ task.deadline = fact[t].deadline
  BY <1>1, <1>5, <1>9, LiveTitle DEF p
<1>11. to = IF Reached(task.end, clock) \/ Reached(task.deadline, clock)
            THEN "COMPLETED_LATE" ELSE "COMPLETED"
  BY <1>3, <1>10, SettledLateness
<1>12. /\ f \in Fact /\ f.versions = fact[t].versions /\ f.doneAt = clock
       /\ f.start = fact[t].start /\ f.end = fact[t].end /\ f.deadline = fact[t].deadline
       /\ f.cancelled = FALSE
  BY <1>3, <1>10 DEF Fact, OptionalInstant
<1> DEFINE done == WithStatus(task, to, clock)
<1>13. /\ done.start = task.start /\ done.end = task.end /\ done.deadline = task.deadline
       /\ done.status = to
  BY <1>3 DEF WithStatus, TaskRecord
<1>14. FactHolds(f, done)
  <2>1. clock # NoTime
    BY <1>3 DEF NoTime
  <2> HIDE DEF f, done, to, task
  <2>2. QED BY <1>10, <1>11, <1>12, <1>13, <2>1 DEF FactHolds
<1>15. fact \in [Title -> Fact] /\ fact' = [fact EXCEPT ![t] = f]
  BY <1>1 DEF ScriptTyped
<1> HIDE DEF f, to
<1>16. fact' \in [Title -> Fact] /\ fact'[t] = f /\ OthersKept(t)
  BY <1>12, <1>15 DEF OthersKept
<1>17. Finishes(t, to)
  BY <1>1, <1>7, <1>8, <1>9, <1>12, <1>14, <1>16 DEF Finishes, p
<1>18. LogGrows(<<Event("TASK_COMPLETED", p, to)>>)
  <2>1. "TASK_COMPLETED" \in NoteTypes
    BY DEF NoteTypes
  <2>2. QED BY <1>1, <1>7, <1>8, <2>1, FinishTold DEF p
<1>19. QED BY <1>1, <1>5, <1>17, <1>18

\* A title is given up.
LEMMA CancelEffect ==
    ASSUME ScriptInv, NEW t \in Title, Cancel(t)
    PROVE  /\ EngineStep
           /\ passed = TRUE /\ passed' = FALSE /\ clock' = clock /\ pending' = {} /\ seen' \subseteq Key
           /\ \E to : Finishes(t, to)
           /\ \E events : LogGrows(events)
           /\ dependsOn' = dependsOn /\ depends' = depends
<1> USE DEF ScriptInv
<1> DEFINE p == Current(t)
           call == Call("cancel_task", p, Shapeless)
           to == "CANCELLED"
           f == [fact[t] EXCEPT !.cancelled = TRUE]
<1>1. /\ t \in Made /\ Act(call)
      /\ log' = Append(log, Event("TASK_CANCELLED", p, to))
      /\ fact' = [fact EXCEPT ![t].cancelled = TRUE]
      /\ dependsOn' = dependsOn /\ depends' = depends
  BY DEF Cancel
<1>2. seen # Key /\ Apply(call, clock, FALSE)
  BY <1>1 DEF Act
<1>3. /\ p \in 1 .. Len(tasks) /\ p \in Nat /\ tasks[p] \in TaskRecord(Key)
      /\ clock \in Nat
  BY <1>1, CurrentIs DEF ScriptTyped
<1> HIDE DEF p
<1>4. call \in ActionCall /\ call.action = "cancel_task" /\ call.task = p
  <2>1. "cancel_task" \in Actions
    BY DEF Actions
  <2>2. Shapeless \in OptionalInstant \X OptionalInstant \X OptionalInstant
    BY DEF Shapeless, OptionalInstant
  <2>3. QED BY <1>2, <1>3, <2>1, <2>2, CallIs
<1> HIDE DEF call
<1>5. /\ EngineStep
      /\ passed = TRUE /\ passed' = FALSE /\ clock' = clock
      /\ pending' = {} /\ seen' \subseteq Key
  BY <1>1, <1>4, ActIsStep
<1>6. CancelTask(call, clock)
  BY <1>2, <1>4 DEF Apply, CreateTask, CanCreate, StartTask, CanStart, MoveTask, CanMove,
                    CompleteTask, CanComplete
<1>7. /\ tasks' = [tasks EXCEPT ![p] = WithStatus(@, to, clock)]
      /\ CanTransition(tasks[p].status, to)
  BY <1>4, <1>6 DEF CancelTask, CanCancel, CancelledStatus
<1>8. to \in TerminalStatuses
  BY DEF TerminalStatuses
<1>9. ~IsTerminal(tasks[p])
  BY <1>3, <1>7 DEF CanTransition, Transitions, IsTerminal, TerminalStatuses, Statuses, TaskRecord
<1> DEFINE task == tasks[p]
<1>10. /\ fact[t] \in Fact /\ fact[t].doneAt = NoTime
       /\ task.start = fact[t].start /\ task.end = fact[t].end /\ task.deadline = fact[t].deadline
  BY <1>1, <1>9, LiveTitle DEF p
<1>11. /\ f \in Fact /\ f.versions = fact[t].versions /\ f.doneAt = NoTime
       /\ f.start = fact[t].start /\ f.end = fact[t].end /\ f.deadline = fact[t].deadline
       /\ f.cancelled = TRUE
  BY <1>10 DEF Fact
<1> DEFINE given == WithStatus(task, to, clock)
<1>12. /\ given.start = task.start /\ given.end = task.end /\ given.deadline = task.deadline
       /\ given.status = to
  BY <1>3 DEF WithStatus, TaskRecord
<1>13. FactHolds(f, given)
  <2> HIDE DEF f, given, task
  <2>1. QED BY <1>10, <1>11, <1>12 DEF FactHolds
<1>14. fact \in [Title -> Fact] /\ fact' = [fact EXCEPT ![t] = f]
  BY <1>1 DEF ScriptTyped
<1> HIDE DEF f, to
<1>15. fact' \in [Title -> Fact] /\ fact'[t] = f /\ OthersKept(t)
  BY <1>11, <1>14 DEF OthersKept
<1>16. Finishes(t, to)
  BY <1>1, <1>7, <1>8, <1>9, <1>11, <1>13, <1>15 DEF Finishes, p
<1>17. LogGrows(<<Event("TASK_CANCELLED", p, to)>>)
  <2>1. "TASK_CANCELLED" \in NoteTypes
    BY DEF NoteTypes
  <2>2. QED BY <1>1, <1>7, <1>8, <2>1, FinishTold DEF p
<1>18. QED BY <1>1, <1>5, <1>16, <1>17

-----------------------------------------------------------------------------
(* What the steps keep                                                      *)

\* The log's replay stays the live list when the log says what the step did.
LEMMA LogKept ==
    ASSUME ScriptInv, NEW events, LogGrows(events), clock' = clock
    PROVE  log' \in Seq(LogEvents) /\ LogIsLive'
<1> DEFINE none == <<>>
<1>1. /\ log \in Seq(LogEvents) /\ events \in Seq(LogEvents) /\ none \in TaskList /\ tasks \in TaskList
      /\ clock \in Nat
  BY DEF ScriptInv, ScriptTyped, TypeOK, LogGrows, Tells, TaskList
<1>2. log' = log \o events /\ log' \in Seq(LogEvents)
  BY <1>1 DEF LogGrows
<1>3. Replayed(none, log, clock) = tasks
  BY DEF ScriptInv, LogIsLive, ViewAsOf
<1>4. Replayed(tasks, events, clock) = tasks'
  BY DEF LogGrows, Tells
<1> HIDE DEF none
<1>5. Replayed(none, log \o events, clock) = tasks'
  BY <1>1, <1>3, <1>4, ReplayedConcat
<1>6. ViewAsOf(log', clock') = tasks'
  BY <1>2, <1>5 DEF ViewAsOf, none
<1>7. ASSUME NEW n \in 1 .. Len(log') PROVE log'[n].at <= clock'
  <2>1. CASE n <= Len(log)
    <3>1. log'[n] = log[n] /\ n \in 1 .. Len(log)
      BY <1>1, <1>2, <2>1
    <3>2. QED BY <3>1 DEF ScriptInv, LogIsLive
  <2>2. CASE ~(n <= Len(log))
    <3>1. log'[n] = events[n - Len(log)] /\ n - Len(log) \in 1 .. Len(events)
      BY <1>1, <1>2, <2>2
    <3>2. log'[n].at = clock
      BY <3>1 DEF LogGrows, Tells
    <3>3. QED BY <1>1, <3>2
  <2>3. QED BY <2>1, <2>2
<1>8. QED BY <1>2, <1>6, <1>7 DEF LogIsLive

\* Whatever is told later, what was recorded by an earlier instant is the same.
LEMMA PastIsKept ==
    ASSUME ScriptInv, NEW events, LogGrows(events), NEW at \in 0 .. clock - 1
    PROVE  ViewAsOf(log', at) = ViewAsOf(log, at)
<1> DEFINE none == <<>>
<1>1. /\ log \in Seq(LogEvents) /\ events \in Seq(LogEvents) /\ none \in TaskList /\ clock \in Nat
  BY DEF ScriptInv, ScriptTyped, LogGrows, Tells, TaskList
<1>2. \A n \in 1 .. Len(events) : ~(events[n].at <= at)
  BY <1>1 DEF LogGrows, Tells
<1> HIDE DEF none
<1>3. Replayed(none, log, at) \in TaskList
  BY <1>1, ReplayedType
<1>4. Replayed(Replayed(none, log, at), events, at) = Replayed(none, log, at)
  BY <1>1, <1>2, <1>3, ReplayedLater
<1>5. Replayed(none, log \o events, at) = Replayed(none, log, at)
  BY <1>1, <1>4, ReplayedConcat
<1>6. QED BY <1>5 DEF ViewAsOf, LogGrows, none

\* A new version of t joins the lineage of t.
LEMMA GrownVersions ==
    ASSUME ScriptInv, NEW t, NEW new, Grows(t, new)
    PROVE  VersionsHold'
<1> USE DEF ScriptInv
<1> DEFINE n == Len(tasks) + 1
           N == Len(Versions(t))
           V(u) == fact[u].versions
           W(u) == fact'[u].versions
<1>1. /\ t \in Title /\ Len(tasks) \in Nat /\ n \in Nat /\ Len(tasks') = n
      /\ \A u \in Title : V(u) \in Seq(Nat)
  BY DEF Grows, ScriptTyped, TypeOK, Fact
<1>2. /\ W(t) = Append(V(t), n)
      /\ \A u \in Title : u # t => W(u) = V(u)
  BY DEF Grows, OthersKept
<1>3. N = Len(V(t)) /\ N \in Nat
  BY <1>1 DEF Versions
<1>4. /\ \A u \in Title : \A k \in 1 .. Len(V(u)) : k \in 1 .. Len(W(u)) /\ W(u)[k] = V(u)[k]
      /\ N + 1 \in 1 .. Len(W(t)) /\ W(t)[N + 1] = n
      /\ \A u \in Title : \A k \in 1 .. Len(W(u)) :
            \/ k \in 1 .. Len(V(u)) /\ W(u)[k] = V(u)[k]
            \/ u = t /\ k = N + 1
  <2>1. /\ \A k \in 1 .. N : k \in 1 .. Len(W(t)) /\ W(t)[k] = V(t)[k]
        /\ N + 1 \in 1 .. Len(W(t)) /\ W(t)[N + 1] = n
        /\ \A k \in 1 .. Len(W(t)) : k \in 1 .. N \/ k = N + 1
    BY <1>1, <1>2, <1>3
  <2>2. ASSUME NEW u \in Title, u # t
        PROVE  W(u) = V(u)
    BY <1>2, <2>2
  <2> HIDE DEF V, W, N
  <2>3. QED BY <1>1, <1>3, <2>1, <2>2
<1>5. \A u \in Title : \A k \in 1 .. Len(V(u)) :
          /\ V(u)[k] \in 1 .. Len(tasks)
          /\ tasks[V(u)[k]].carriedFrom = IF k = 1 THEN NoTask ELSE V(u)[k - 1]
  BY DEF VersionsHold, LineageOf, Versions
<1>6. /\ \A i \in 1 .. Len(tasks) : tasks'[i].carriedFrom = tasks[i].carriedFrom
      /\ tasks'[n].carriedFrom = IF t \in Made THEN Current(t) ELSE NoTask
  BY DEF Grows
<1>7. (t \in Made <=> N # 0) /\ (N # 0 => Current(t) = V(t)[N] /\ N \in 1 .. N)
  <2>1. t \in Made <=> V(t) # <<>>
    BY <1>1 DEF Made
  <2>2. V(t) = <<>> <=> N = 0
    BY <1>1, <1>3
  <2>3. t \in Made => Current(t) = V(t)[N]
    BY CurrentIs DEF Versions
  <2>4. QED BY <1>3, <2>1, <2>2, <2>3
<1>8. \A u, w \in Title : \A k \in 1 .. Len(V(u)), m \in 1 .. Len(V(w)) :
          V(u)[k] = V(w)[m] => u = w /\ k = m
  BY DEF VersionsHold, VersionsDiffer, Versions
<1>9. \A i \in 1 .. Len(tasks) : \E u \in Title : \E k \in 1 .. Len(V(u)) : V(u)[k] = i
  BY DEF VersionsHold, IsVersion, Versions
<1> HIDE DEF V, W, N, n
<1>10. ASSUME NEW u \in Title, NEW k \in 1 .. Len(W(u))
       PROVE  /\ W(u)[k] \in 1 .. Len(tasks')
              /\ tasks'[W(u)[k]].carriedFrom = IF k = 1 THEN NoTask ELSE W(u)[k - 1]
  <2>1. CASE k \in 1 .. Len(V(u)) /\ W(u)[k] = V(u)[k]
    <3>1. W(u)[k] \in 1 .. Len(tasks)
      BY <1>5, <2>1
    <3>2. k # 1 => W(u)[k - 1] = V(u)[k - 1]
      <4>1. k # 1 => k - 1 \in 1 .. Len(V(u))
        BY <1>1, <2>1
      <4>2. QED BY <1>4, <4>1
    <3>3. W(u)[k] \in 1 .. Len(tasks')
      BY <1>1, <3>1 DEF n
    <3>4. QED BY <1>5, <1>6, <2>1, <3>1, <3>2, <3>3
  <2>2. CASE u = t /\ k = N + 1
    <3>1. W(u)[k] = n /\ n \in 1 .. Len(tasks')
      BY <1>1, <1>4, <2>2 DEF n
    <3>2. CASE N = 0
      BY <1>6, <1>7, <2>2, <3>1, <3>2
    <3>3. CASE N # 0
      <4>1. k # 1 /\ k - 1 = N /\ N \in 1 .. Len(V(t))
        BY <1>3, <1>7, <2>2, <3>3
      <4>2. W(u)[k - 1] = V(t)[N]
        BY <1>1, <1>4, <2>2, <4>1
      <4>3. QED BY <1>6, <1>7, <3>1, <3>3, <4>1, <4>2
    <3>4. QED BY <3>2, <3>3
  <2>3. QED BY <1>4, <2>1, <2>2
<1>11. ASSUME NEW u \in Title, NEW w \in Title, NEW k \in 1 .. Len(W(u)), NEW m \in 1 .. Len(W(w)),
              W(u)[k] = W(w)[m]
       PROVE  u = w /\ k = m
  <2>1. ASSUME NEW x \in Title, NEW j \in 1 .. Len(V(x)) PROVE V(x)[j] # n
    <3>1. V(x)[j] \in 1 .. Len(tasks)
      BY <1>5
    <3>2. QED BY <1>1, <3>1 DEF n
  <2>2. CASE (k \in 1 .. Len(V(u)) /\ W(u)[k] = V(u)[k]) /\ (m \in 1 .. Len(V(w)) /\ W(w)[m] = V(w)[m])
    <3>1. k \in 1 .. Len(V(u)) /\ m \in 1 .. Len(V(w)) /\ V(u)[k] = V(w)[m]
      BY <1>11, <2>2
    <3>2. \A j \in 1 .. Len(V(u)), l \in 1 .. Len(V(w)) : V(u)[j] = V(w)[l] => u = w /\ j = l
      BY <1>8
    <3> HIDE <1>8
    <3>3. QED BY <3>1, <3>2
  <2>3. CASE (k \in 1 .. Len(V(u)) /\ W(u)[k] = V(u)[k]) /\ (w = t /\ m = N + 1)
    <3>1. W(w)[m] = n
      BY <1>4, <2>3
    <3>2. V(u)[k] # n
      BY <2>1, <2>3
    <3>3. QED BY <1>11, <2>3, <3>1, <3>2
  <2>4. CASE (u = t /\ k = N + 1) /\ (m \in 1 .. Len(V(w)) /\ W(w)[m] = V(w)[m])
    <3>1. W(u)[k] = n
      BY <1>4, <2>4
    <3>2. V(w)[m] # n
      BY <2>1, <2>4
    <3>3. QED BY <1>11, <2>4, <3>1, <3>2
  <2>5. CASE (u = t /\ k = N + 1) /\ (w = t /\ m = N + 1)
    BY <2>5
  <2>6. QED
    <3>1. (k \in 1 .. Len(V(u)) /\ W(u)[k] = V(u)[k]) \/ (u = t /\ k = N + 1)
      BY <1>4
    <3>2. (m \in 1 .. Len(V(w)) /\ W(w)[m] = V(w)[m]) \/ (w = t /\ m = N + 1)
      BY <1>4
    <3>3. QED BY <2>2, <2>3, <2>4, <2>5, <3>1, <3>2
<1>12. ASSUME NEW i \in 1 .. Len(tasks')
       PROVE  \E u \in Title : \E k \in 1 .. Len(W(u)) : W(u)[k] = i
  <2>1. CASE i = n
    BY <1>1, <1>4, <2>1
  <2>2. CASE i # n
    <3>1. i \in 1 .. Len(tasks)
      BY <1>1, <2>2 DEF n
    <3>2. PICK u \in Title : \E k \in 1 .. Len(V(u)) : V(u)[k] = i
      BY <1>9, <3>1
    <3>3. PICK k \in 1 .. Len(V(u)) : V(u)[k] = i
      BY <3>2
    <3>4. k \in 1 .. Len(W(u)) /\ W(u)[k] = i
      BY <1>4, <3>3
    <3>5. QED BY <3>4
  <2>3. QED BY <2>1, <2>2
<1>13. QED BY <1>10, <1>11, <1>12 DEF VersionsHold, VersionsDiffer, IsVersion, LineageOf, Versions, W

\* What the new version is, is what is known of t.
LEMMA GrownFacts ==
    ASSUME ScriptInv, NEW t, NEW new, Grows(t, new), clock' = clock, passed' = FALSE
    PROVE  FactsHold' /\ TasksAreTimely'
<1> USE DEF ScriptInv
<1> DEFINE n == Len(tasks) + 1
<1>1. /\ t \in Title /\ Len(tasks) \in Nat /\ Len(tasks') = n /\ tasks'[n] = new
      /\ new \in TaskRecord(Key) /\ clock \in Nat
      /\ fact[t].versions \in Seq(Nat)
  BY DEF Grows, ScriptTyped, TypeOK, Fact
<1>2. new.status = InitialStatus(new.start) /\ new.lastTransitionAt = NoTime
  BY DEF Grows
<1>3. FactHolds(fact'[t], new)
  BY <1>2 DEF Grows, FactHolds, InitialStatus, LiveStatuses
<1>4. fact'[t].versions # <<>> /\ Last(fact'[t].versions) = n
  <2>1. fact'[t].versions = Append(fact[t].versions, n)
    BY DEF Grows
  <2> DEFINE v == fact[t].versions
             w == Append(v, n)
  <2>2. v \in Seq(Nat) /\ n \in Nat
    BY <1>1
  <2> HIDE DEF v, n
  <2>3. w # <<>> /\ Len(w) = Len(v) + 1 /\ w[Len(v) + 1] = n
    BY <2>2
  <2>4. QED BY <2>1, <2>3 DEF Last, v
<1>5. ASSUME NEW u \in Title, fact'[u].versions # <<>>
      PROVE  FactHolds(fact'[u], tasks'[Last(fact'[u].versions)])
  <2>1. CASE u = t
    BY <1>1, <1>3, <1>4, <2>1
  <2>2. CASE u # t
    <3>1. fact'[u] = fact[u]
      BY <2>2 DEF Grows, OthersKept
    <3>2. u \in Made
      BY <1>5, <3>1 DEF Made
    <3>3. Last(fact'[u].versions) = Current(u) /\ Current(u) \in 1 .. Len(tasks)
      BY <3>1, <3>2, CurrentIs DEF Current
    <3>4. ~(t \in Made /\ Current(u) = Current(t))
      BY <2>2, <3>2, CurrentApart
    <3>5. tasks'[Current(u)] = tasks[Current(u)]
      BY <3>3, <3>4 DEF Grows
    <3>6. QED BY <3>1, <3>2, <3>3, <3>5 DEF FactsHold
  <2>3. QED BY <2>1, <2>2
<1>6. FactsHold'
  BY <1>5 DEF FactsHold, Made, Current
<1>7. ASSUME NEW i \in 1 .. Len(tasks') PROVE Timely(tasks'[i], FALSE, clock)
  <2>1. CASE i = n
    BY <1>1, <1>2, <2>1 DEF Timely, Born, InitialStatus, NoTime
  <2>2. CASE i # n
    <3>1. i \in 1 .. Len(tasks)
      BY <1>1, <2>2
    <3>2. CASE t \in Made /\ i = Current(t)
      <4>1. tasks'[i].status \notin LiveStatuses /\ tasks'[i].lastTransitionAt = clock
        BY <3>1, <3>2 DEF Grows
      <4>2. QED BY <1>1, <4>1 DEF Timely, Born, LiveStatuses
    <3>3. CASE ~(t \in Made /\ i = Current(t))
      <4>1. tasks'[i] = tasks[i]
        BY <3>1, <3>3 DEF Grows
      <4>2. QED BY <3>1, <4>1 DEF TasksAreTimely, Timely
    <3>4. QED BY <3>2, <3>3
  <2>3. QED BY <2>1, <2>2
<1>8. TasksAreTimely'
  BY <1>7 DEF TasksAreTimely
<1>9. QED BY <1>6, <1>8

\* The dependencies of a title are the dependencies of each of its versions.
LEMMA GrownDepends ==
    ASSUME ScriptInv, NEW t, NEW new, Grows(t, new), NEW deps,
           dependsOn' = Append(dependsOn, deps),
           \A u \in Title : u # t => depends'[u] = depends[u],
           t \in Made => depends'[t] = depends[t],
           \/ depends'[t] = NoTitle /\ deps = {}
           \/ /\ depends'[t] \in Made
              /\ \E m \in 1 .. Len(Versions(depends'[t])) : deps = {Versions(depends'[t])[m]}
    PROVE  DependsHold'
<1> USE DEF ScriptInv
<1> DEFINE n == Len(tasks) + 1
           V(u) == fact[u].versions
           W(u) == fact'[u].versions
           Fits(u, i) ==
               \/ depends'[u] = NoTitle /\ dependsOn'[i] = {}
               \/ /\ W(depends'[u]) # <<>> /\ depends'[u] \in Title
                  /\ \E m \in 1 .. Len(W(depends'[u])) : dependsOn'[i] = {W(depends'[u])[m]}
<1>1. /\ t \in Title /\ Len(tasks) \in Nat /\ Len(dependsOn) = Len(tasks)
      /\ dependsOn \in Seq(SUBSET Nat) /\ W(t) = Append(V(t), n)
      /\ \A u \in Title : V(u) \in Seq(Nat)
      /\ \A u \in Title : u # t => W(u) = V(u)
  BY DEF Grows, OthersKept, ScriptTyped, TypeOK, Fact
<1>2. /\ \A i \in 1 .. Len(tasks) : dependsOn'[i] = dependsOn[i]
      /\ dependsOn'[n] = deps
  BY <1>1
<1>3. ASSUME NEW u \in Title, V(u) # <<>>
      PROVE  /\ W(u) # <<>>
             /\ \A m \in 1 .. Len(V(u)) : m \in 1 .. Len(W(u)) /\ W(u)[m] = V(u)[m]
  <2>1. CASE u = t
    BY SMTT(30), <1>1, <2>1
  <2>2. CASE u # t
    BY <1>1, <1>3, <2>2
  <2>3. QED BY <2>1, <2>2
<1>4. ASSUME NEW u \in Title, u \in Made, depends'[u] = depends[u], NEW k \in 1 .. Len(V(u))
      PROVE  Fits(u, V(u)[k])
  <2>1. V(u)[k] \in 1 .. Len(tasks)
    BY DEF VersionsHold, LineageOf, Versions
  <2>2. \/ depends[u] = NoTitle /\ dependsOn[V(u)[k]] = {}
        \/ /\ depends[u] \in Made
           /\ \E m \in 1 .. Len(V(depends[u])) : dependsOn[V(u)[k]] = {V(depends[u])[m]}
    BY <1>4 DEF DependsHold, Versions
  <2>3. depends[u] \in Made => depends[u] \in Title /\ V(depends[u]) # <<>>
    BY DEF Made
  <2>4. CASE depends[u] = NoTitle /\ dependsOn[V(u)[k]] = {}
    BY <1>2, <1>4, <2>1, <2>4
  <2>5. ASSUME depends[u] \in Made, NEW m \in 1 .. Len(V(depends[u])),
               dependsOn[V(u)[k]] = {V(depends[u])[m]}
        PROVE  Fits(u, V(u)[k])
    <3> DEFINE d == depends[u]
    <3>1. d \in Title /\ V(d) # <<>> /\ m \in 1 .. Len(V(d))
      BY <2>3, <2>5
    <3> HIDE DEF d, V, W
    <3>2. W(d) # <<>> /\ m \in 1 .. Len(W(d)) /\ W(d)[m] = V(d)[m]
      BY <1>3, <3>1
    <3>3. dependsOn'[V(u)[k]] = {W(d)[m]}
      BY <1>2, <2>1, <2>5, <3>2 DEF d
    <3>4. depends'[u] = d
      BY <1>4 DEF d
    <3>5. QED BY <3>1, <3>2, <3>3, <3>4
  <2>6. QED BY <2>2, <2>4, <2>5
<1>5. Fits(t, n)
  <2>1. depends'[t] \in Made => depends'[t] \in Title /\ V(depends'[t]) # <<>>
    BY DEF Made
  <2>2. \/ depends'[t] = NoTitle /\ deps = {}
        \/ /\ depends'[t] \in Made
           /\ \E m \in 1 .. Len(V(depends'[t])) : deps = {V(depends'[t])[m]}
    BY DEF Versions
  <2> HIDE DEF V, W
  <2>3. QED BY <1>2, <1>3, <2>1, <2>2
<1>6. ASSUME NEW u \in Title, W(u) # <<>>, NEW k \in 1 .. Len(W(u))
      PROVE  Fits(u, W(u)[k])
  <2>1. CASE u # t
    <3>1. W(u) = V(u) /\ u \in Made /\ depends'[u] = depends[u]
      BY <1>1, <1>6, <2>1 DEF Made
    <3> HIDE DEF Fits
    <3>2. QED BY <1>4, <3>1
  <2>2. CASE u = t /\ k \in 1 .. Len(V(t))
    <3>1. W(t)[k] = V(t)[k] /\ V(t) # <<>>
      BY <1>1, <2>2
    <3>2. t \in Made
      BY <1>1, <3>1 DEF Made
    <3> HIDE DEF Fits
    <3>3. QED BY <1>1, <1>4, <2>2, <3>1, <3>2
  <2>3. CASE u = t /\ k \notin 1 .. Len(V(t))
    <3>1. W(t)[k] = n
      BY SMTT(30), <1>1, <1>6, <2>3
    <3> HIDE DEF Fits
    <3>2. QED BY <1>5, <2>3, <3>1
  <2>4. QED BY <2>1, <2>2, <2>3
<1>7. QED BY <1>6 DEF DependsHold, Made, Versions

\* Lineages stay when no version is added and no parent is changed.
LEMMA LineagesKept ==
    ASSUME ScriptTyped, VersionsHold, DependsHold, Len(tasks') = Len(tasks),
           \A i \in 1 .. Len(tasks) : tasks'[i].carriedFrom = tasks[i].carriedFrom,
           \A u \in Title : fact'[u].versions = fact[u].versions,
           dependsOn' = dependsOn, depends' = depends
    PROVE  VersionsHold' /\ DependsHold'
<1>1. ASSUME NEW u \in Title PROVE LineageOf(u)'
  <2>1. \A n \in 1 .. Len(fact[u].versions) :
           /\ fact[u].versions[n] \in 1 .. Len(tasks)
           /\ tasks[fact[u].versions[n]].carriedFrom = IF n = 1 THEN NoTask ELSE fact[u].versions[n - 1]
    BY DEF VersionsHold, LineageOf, Versions
  <2>2. \A n \in 1 .. Len(fact[u].versions) :
           /\ fact[u].versions[n] \in 1 .. Len(tasks')
           /\ tasks'[fact[u].versions[n]].carriedFrom = IF n = 1 THEN NoTask ELSE fact[u].versions[n - 1]
    BY <2>1
  <2>3. QED BY <2>2 DEF LineageOf, Versions
<1> DEFINE V(u) == fact[u].versions
           W(u) == fact'[u].versions
<1>v. \A u \in Title : W(u) = V(u)
  OBVIOUS
<1>2. VersionsDiffer'
  <2>1. \A u, w \in Title : \A n \in 1 .. Len(V(u)), m \in 1 .. Len(V(w)) :
           V(u)[n] = V(w)[m] => u = w /\ n = m
    BY DEF VersionsHold, VersionsDiffer, Versions
  <2>2. ASSUME NEW u \in Title, NEW w \in Title, NEW n \in 1 .. Len(W(u)), NEW m \in 1 .. Len(W(w)),
               W(u)[n] = W(w)[m]
        PROVE  u = w /\ n = m
    <3> HIDE DEF V, W
    <3>1. W(u) = V(u) /\ W(w) = V(w)
      BY <1>v
    <3>2. n \in 1 .. Len(V(u)) /\ m \in 1 .. Len(V(w)) /\ V(u)[n] = V(w)[m]
      BY <2>2, <3>1
    <3>3. QED BY <2>1, <3>2
  <2>3. QED BY <2>2 DEF VersionsDiffer, Versions
<1>3. ASSUME NEW i \in 1 .. Len(tasks') PROVE IsVersion(i)'
  <2>1. IsVersion(i)
    BY DEF VersionsHold
  <2>2. PICK t \in Title : \E n \in 1 .. Len(V(t)) : V(t)[n] = i
    BY <2>1 DEF IsVersion, Versions
  <2>3. \E n \in 1 .. Len(W(t)) : W(t)[n] = i
    <3> HIDE DEF V, W
    <3>1. QED BY <1>v, <2>2
  <2>4. QED BY <2>3 DEF IsVersion, Versions
<1>4. DependsHold'
  <2> DEFINE Fits(u, i) ==
               \/ depends[u] = NoTitle /\ dependsOn[i] = {}
               \/ /\ depends[u] \in Title /\ W(depends[u]) # <<>>
                  /\ \E m \in 1 .. Len(W(depends[u])) : dependsOn[i] = {W(depends[u])[m]}
  <2>1. ASSUME NEW u \in Title, V(u) # <<>>, NEW n \in 1 .. Len(V(u))
        PROVE  Fits(u, V(u)[n])
    <3>1. \/ depends[u] = NoTitle /\ dependsOn[V(u)[n]] = {}
          \/ /\ depends[u] \in Title /\ V(depends[u]) # <<>>
             /\ \E m \in 1 .. Len(V(depends[u])) : dependsOn[V(u)[n]] = {V(depends[u])[m]}
      BY <2>1 DEF DependsHold, Made, Versions
    <3>2. depends[u] \in Title => W(depends[u]) = V(depends[u])
      BY <1>v
    <3> HIDE DEF V, W
    <3>3. QED BY <3>1, <3>2
  <2>2. ASSUME NEW u \in Title, W(u) # <<>>, NEW n \in 1 .. Len(W(u))
        PROVE  Fits(u, W(u)[n])
    <3>1. W(u) = V(u)
      BY <1>v
    <3> HIDE DEF V, W, Fits
    <3>2. QED BY <2>1, <2>2, <3>1
  <2>3. QED BY <2>2 DEF DependsHold, Made, Versions
<1>5. QED BY <1>1, <1>2, <1>3, <1>4 DEF VersionsHold

\* A finished title is known to be finished, and no other task is touched.
LEMMA FinishedFacts ==
    ASSUME ScriptInv, NEW t, NEW to, Finishes(t, to), clock' = clock, passed' = FALSE
    PROVE  /\ Len(tasks') = Len(tasks)
           /\ \A i \in 1 .. Len(tasks) : tasks'[i].carriedFrom = tasks[i].carriedFrom
           /\ \A u \in Title : fact'[u].versions = fact[u].versions
           /\ FactsHold'
           /\ TasksAreTimely'
<1> USE DEF ScriptInv
<1> DEFINE p == Current(t)
           done == WithStatus(tasks[p], to, clock)
<1>1. /\ t \in Made /\ t \in Title /\ p \in 1 .. Len(tasks) /\ tasks[p] \in TaskRecord(Key)
      /\ tasks \in Seq(TaskRecord(Key)) /\ clock \in Nat
      /\ to \in TerminalStatuses /\ fact \in [Title -> Fact]
  BY CurrentIs DEF Finishes, ScriptTyped, TypeOK
<1>2. done \in TaskRecord(Key) /\ done.carriedFrom = tasks[p].carriedFrom
      /\ done.status = to /\ done.lastTransitionAt = clock
  BY <1>1 DEF WithStatus, TaskRecord, OptionalInstant, Statuses
<1>3. tasks' = [tasks EXCEPT ![p] = done]
  BY DEF Finishes
<1> HIDE DEF done, p
<1>4. /\ Len(tasks') = Len(tasks)
      /\ \A i \in 1 .. Len(tasks) : tasks'[i] = IF i = p THEN done ELSE tasks[i]
  BY <1>1, <1>2, <1>3, ExceptSeq
<1>5. \A i \in 1 .. Len(tasks) : tasks'[i].carriedFrom = tasks[i].carriedFrom
  BY <1>2, <1>4
<1>6. \A u \in Title : fact'[u].versions = fact[u].versions
  BY DEF Finishes, OthersKept
<1>7. ASSUME NEW u \in Title, fact'[u].versions # <<>>
      PROVE  FactHolds(fact'[u], tasks'[Last(fact'[u].versions)])
  <2>1. u \in Made /\ Last(fact'[u].versions) = Current(u)
    BY <1>6, <1>7 DEF Made, Current
  <2>2. Current(u) \in 1 .. Len(tasks)
    BY <2>1, CurrentIs
  <2>3. CASE u = t
    <3>1. tasks'[Current(u)] = done
      BY <1>4, <2>2, <2>3 DEF p
    <3>2. FactHolds(fact'[t], done)
      BY DEF Finishes, done, p
    <3>3. QED BY <2>1, <2>3, <3>1, <3>2
  <2>4. CASE u # t
    <3>1. fact'[u] = fact[u] /\ Current(u) # p
      BY <1>1, <2>1, <2>4, CurrentApart DEF Finishes, OthersKept, p
    <3>2. tasks'[Current(u)] = tasks[Current(u)]
      BY <1>4, <2>2, <3>1
    <3>3. QED BY <2>1, <3>1, <3>2 DEF FactsHold
  <2>5. QED BY <2>3, <2>4
<1>8. FactsHold'
  BY <1>7 DEF FactsHold, Made, Current
<1>9. ASSUME NEW i \in 1 .. Len(tasks) PROVE Timely(tasks'[i], FALSE, clock)
  <2>1. CASE i = p
    BY <1>1, <1>2, <1>4, <2>1 DEF Timely, Born, TerminalStatuses
  <2>2. CASE i # p
    BY <1>4, <2>2 DEF TasksAreTimely, Timely
  <2>3. QED BY <2>1, <2>2
<1>10. TasksAreTimely'
  BY <1>4, <1>9 DEF TasksAreTimely
<1>11. QED BY <1>4, <1>5, <1>6, <1>8, <1>10

\* A pass changes the status of live tasks only, and settles every task.
LEMMA PassEffect ==
    ASSUME ScriptInv, Pass
    PROVE  /\ EngineStep
           /\ pending' = {} /\ seen' = seen /\ clock' = clock /\ passed' = TRUE
           /\ dependsOn' = dependsOn /\ fact' = fact /\ depends' = depends
           /\ Len(tasks') = Len(tasks)
           /\ \A i \in 1 .. Len(tasks) : tasks'[i].carriedFrom = tasks[i].carriedFrom
           /\ \E events : LogGrows(events)
           /\ FactsHold'
           /\ TasksAreTimely'
<1> USE DEF ScriptInv
<1>1. /\ Tick(clock) /\ log' = log \o PassEvents /\ passed' = TRUE
      /\ dependsOn' = dependsOn /\ clock' = clock /\ fact' = fact /\ depends' = depends
  BY DEF Pass
<1>2. /\ tasks \in Seq(TaskRecord(Key)) /\ tasks \in TaskList /\ clock \in Nat
      /\ DOMAIN tasks = 1 .. Len(tasks) /\ pending = {}
  BY DEF ScriptTyped, TypeOK, TaskList
<1>3. EngineStep
  BY <1>1, <1>2 DEF EngineStep
<1>4. /\ tasks' = [i \in DOMAIN tasks |-> Ticked(tasks[i], clock)]
      /\ pending' = {} /\ seen' = seen
  BY <1>1, <1>2 DEF Tick
<1>5. Tells(tasks, PassEvents, tasks')
  BY <1>2, <1>4, PassTold
<1>6. LogGrows(PassEvents)
  BY <1>1, <1>5 DEF LogGrows
<1>7. tasks' \in TaskList /\ \A i \in 1 .. Len(tasks) : tasks'[i] = Ticked(tasks[i], clock)
  BY <1>2, <1>4, <1>5 DEF Tells
<1>8. Len(tasks') = Len(tasks)
  <2>1. DOMAIN tasks' = 1 .. Len(tasks) /\ Len(tasks) \in Nat /\ tasks' \in Seq(TaskRecord(Key))
    BY <1>2, <1>4, <1>7 DEF TaskList
  <2>2. QED BY <2>1
<1>9. ASSUME NEW i \in 1 .. Len(tasks)
      PROVE  LET t == tasks'[i] IN
             /\ tasks[i] \in TaskRecord(Key)
             /\ t.start = tasks[i].start /\ t.end = tasks[i].end /\ t.deadline = tasks[i].deadline
             /\ t.carriedFrom = tasks[i].carriedFrom
             /\ Settled(t, clock)
             /\ \/ t = tasks[i]
                \/ /\ t.lastTransitionAt = clock
                   /\ t.status \in LiveStatuses \ {"CREATED", "SCHEDULED"}
                   /\ tasks[i].status \in LiveStatuses
  <2>1. tasks[i] \in TaskRecord(Key)
    BY <1>2
  <2>2. Ticked(tasks[i], clock).carriedFrom = tasks[i].carriedFrom
    BY <2>1 DEF Ticked, Breached, Ended, Opened, WithStatus, TaskRecord
  <2>3. \/ Ticked(tasks[i], clock) = tasks[i]
        \/ tasks[i].status \in LiveStatuses
    <3>1. CASE tasks[i].status \in LiveStatuses
      BY <3>1
    <3>2. CASE tasks[i].status \notin LiveStatuses
      <4>1. Settled(tasks[i], clock)
        BY <3>2 DEF Settled, WindowOpens, WindowEnds, DeadlineBreaks, LiveStatuses
      <4>2. QED BY <4>1, SettledStays
    <3>3. QED BY <3>1, <3>2
  <2>4. QED BY <1>2, <1>7, <2>1, <2>2, <2>3, TickedFields, TickSettles
<1>10. ASSUME NEW u \in Made PROVE FactHolds(fact[u], tasks'[Current(u)])
  <2> DEFINE old == tasks[Current(u)]
             new == tasks'[Current(u)]
             f == fact[u]
  <2>1. Current(u) \in 1 .. Len(tasks)
    BY CurrentIs
  <2>2. /\ new.start = old.start /\ new.end = old.end /\ new.deadline = old.deadline
        /\ \/ new = old
           \/ new.status \in LiveStatuses /\ old.status \in LiveStatuses
    BY <1>9, <2>1
  <2>3. FactHolds(f, old)
    BY DEF FactsHold
  <2>4. f.cancelled \in BOOLEAN
    BY CurrentIs DEF ScriptTyped, Fact
  <2> HIDE DEF old, new, f
  <2>5. CASE new = old
    BY <2>3, <2>5 DEF new, f
  <2>6. CASE new.status \in LiveStatuses /\ old.status \in LiveStatuses
    <3>1. ~f.cancelled /\ f.doneAt = NoTime
      BY <2>3, <2>4, <2>6 DEF FactHolds, LiveStatuses
    <3>2. FactHolds(f, new)
      BY <2>2, <2>3, <2>6, <3>1 DEF FactHolds
    <3>3. QED BY <3>2 DEF new, f
  <2>7. QED BY <2>2, <2>5, <2>6
<1>11. FactsHold'
  BY <1>1, <1>10 DEF FactsHold, Made, Current
<1>12. ASSUME NEW i \in 1 .. Len(tasks) PROVE Timely(tasks'[i], TRUE, clock)
  <2>1. CASE tasks'[i] = tasks[i]
    BY <1>9, <2>1 DEF TasksAreTimely, Timely
  <2>2. CASE tasks'[i] # tasks[i]
    BY <1>2, <1>9, <2>2 DEF Timely, Born
  <2>3. QED BY <2>1, <2>2
<1>13. TasksAreTimely'
  BY <1>1, <1>8, <1>12 DEF TasksAreTimely
<1>14. QED BY <1>1, <1>3, <1>4, <1>6, <1>8, <1>9, <1>11, <1>13

-----------------------------------------------------------------------------
(* The invariant holds                                                      *)

\* No script yet.
LEMMA ScriptInit == QAInit => ScriptInv
<1> SUFFICES ASSUME QAInit PROVE ScriptInv
  OBVIOUS
<1>1. /\ tasks = <<>> /\ seen = {} /\ pending = {} /\ dependsOn = <<>> /\ log = <<>>
      /\ clock = 0 /\ passed = FALSE
      /\ fact = [t \in Title |-> Unknown] /\ depends = [t \in Title |-> NoTitle]
  BY DEF QAInit, Init
<1>2. /\ Len(tasks) = 0 /\ DOMAIN tasks = {} /\ tasks \in TaskList /\ tasks \in Seq(TaskRecord(Key))
      /\ Len(log) = 0 /\ log \in Seq(LogEvents)
      /\ Len(dependsOn) = 0 /\ dependsOn \in Seq(SUBSET Nat)
  BY <1>1 DEF TaskList
<1>3. fact \in [Title -> Fact] /\ Made = {} /\ \A t \in Title : Len(Versions(t)) = 0
  <2>1. Unknown \in Fact /\ Unknown.versions = <<>>
    BY DEF Unknown, Fact, OptionalInstant
  <2>2. \A t \in Title : fact[t] = Unknown
    BY <1>1
  <2>3. QED BY <1>1, <2>1, <2>2 DEF Made, Versions
<1>4. TypeOK
  BY <1>1, <1>2 DEF TypeOK
<1>5. ScriptTyped
  BY <1>1, <1>2, <1>3, <1>4 DEF ScriptTyped
<1>6. LineageIsAChain /\ StatusIsJustified
  BY <1>2 DEF LineageIsAChain, StatusIsJustified
<1>7. VersionsHold
  BY <1>2, <1>3 DEF VersionsHold, LineageOf, VersionsDiffer
<1>8. DependsHold /\ FactsHold /\ TasksAreTimely
  BY <1>2, <1>3 DEF DependsHold, FactsHold, TasksAreTimely
<1>9. LogIsLive
  <2> DEFINE none == <<>>
  <2>1. none \in TaskList
    BY DEF TaskList
  <2> HIDE DEF none
  <2>2. Replayed(none, <<>>, clock) = none
    BY <2>1, ReplayedEmpty
  <2>3. QED BY <1>1, <1>2, <2>2 DEF LogIsLive, ViewAsOf, none
<1>10. QED BY <1>5, <1>6, <1>7, <1>8, <1>9 DEF ScriptInv

\* What a step has to keep, when it is a step of the engine that the log tells of.
LEMMA ScriptKept ==
    ASSUME ScriptInv, EngineStep, pending' = {}, clock' = clock, passed' \in BOOLEAN,
           fact' \in [Title -> Fact], depends' \in [Title -> Title \cup {NoTitle}],
           dependsOn' \in Seq(SUBSET Nat), Len(dependsOn') = Len(tasks'),
           VersionsHold', DependsHold', FactsHold', TasksAreTimely',
           \E events : LogGrows(events)
    PROVE  ScriptInv'
<1>1. TypeOK /\ LineageIsAChain /\ StatusIsJustified /\ clock \in Nat
  BY DEF ScriptInv, ScriptTyped
<1>2. TypeOK'
  BY <1>1, ListStep DEF TypeOK
<1>3. LineageIsAChain' /\ StatusIsJustified'
  BY <1>1, ChainStep, JustifiedStep
<1>4. log' \in Seq(LogEvents) /\ LogIsLive'
  BY LogKept
<1>5. ScriptTyped'
  BY <1>1, <1>2, <1>4 DEF ScriptTyped
<1>6. QED BY <1>3, <1>4, <1>5 DEF ScriptInv

\* A creation keeps it.
LEMMA CreateKeeps ==
    ASSUME ScriptInv, NEW t \in Title, Create(t)
    PROVE  ScriptInv'
<1> USE DEF ScriptInv
<1>1. PICK new : Grows(t, new) /\ t \notin Made
  BY CreateEffect
<1>2. PICK d \in {NoTitle} \cup (Made \ {t}) :
          /\ dependsOn' = Append(dependsOn, IF d = NoTitle THEN {} ELSE {Current(d)})
          /\ depends' = [depends EXCEPT ![t] = d]
  BY CreateEffect
<1>3. /\ EngineStep /\ passed' = FALSE /\ clock' = clock /\ pending' = {}
      /\ \E events : LogGrows(events)
  BY CreateEffect
<1> DEFINE deps == IF d = NoTitle THEN {} ELSE {Current(d)}
<1>4. /\ depends \in [Title -> Title \cup {NoTitle}] /\ dependsOn \in Seq(SUBSET Nat)
      /\ Len(dependsOn) = Len(tasks)
  BY DEF ScriptTyped
<1>5. d \in Title \cup {NoTitle} /\ (d = NoTitle \/ d \in Made)
  BY <1>2 DEF Made
<1>6. /\ depends' \in [Title -> Title \cup {NoTitle}] /\ depends'[t] = d
      /\ \A u \in Title : u # t => depends'[u] = depends[u]
  BY <1>2, <1>4, <1>5
<1>7. deps \subseteq Nat
  BY <1>5, CurrentIs
<1>8. \/ d = NoTitle /\ deps = {}
      \/ /\ d \in Made
         /\ \E m \in 1 .. Len(Versions(d)) : deps = {Versions(d)[m]}
  <2>1. CASE d = NoTitle
    BY <2>1
  <2>2. CASE d # NoTitle
    <3>1. d \in Made
      BY <1>5, <2>2
    <3>2. Len(Versions(d)) \in 1 .. Len(Versions(d)) /\ deps = {Versions(d)[Len(Versions(d))]}
      BY <2>2, <3>1, CurrentIs
    <3>3. QED BY <3>1, <3>2
  <2>3. QED BY <2>1, <2>2
<1>9. dependsOn' = Append(dependsOn, deps)
  BY <1>2
<1> HIDE DEF deps
<1>10. DependsHold'
  <2>1. t \in Made => depends'[t] = depends[t]
    BY <1>1
  <2>2. \/ depends'[t] = NoTitle /\ deps = {}
        \/ /\ depends'[t] \in Made
           /\ \E m \in 1 .. Len(Versions(depends'[t])) : deps = {Versions(depends'[t])[m]}
    BY <1>6, <1>8
  <2>3. QED BY <1>1, <1>6, <1>9, <2>1, <2>2, GrownDepends
<1>11. dependsOn' \in Seq(SUBSET Nat) /\ Len(dependsOn') = Len(tasks')
  <2>1. Len(tasks') = Len(tasks) + 1
    BY <1>1 DEF Grows
  <2>2. QED BY <1>4, <1>7, <1>9, <2>1
<1>12. VersionsHold' /\ FactsHold' /\ TasksAreTimely' /\ fact' \in [Title -> Fact]
  BY <1>1, <1>3, GrownVersions, GrownFacts DEF Grows
<1>13. QED BY <1>3, <1>6, <1>10, <1>11, <1>12, ScriptKept

\* A move keeps it: the new version has the dependencies of the old one.
LEMMA MoveKeeps ==
    ASSUME ScriptInv, NEW t \in Title, Move(t)
    PROVE  ScriptInv'
<1> USE DEF ScriptInv
<1>1. PICK new : Grows(t, new) /\ t \in Made
  BY MoveEffect
<1>2. /\ dependsOn' = Append(dependsOn, dependsOn[Current(t)])
      /\ depends' = depends
      /\ EngineStep /\ passed' = FALSE /\ clock' = clock /\ pending' = {}
      /\ \E events : LogGrows(events)
  BY MoveEffect
<1> DEFINE deps == dependsOn[Current(t)]
<1>3. /\ depends \in [Title -> Title \cup {NoTitle}] /\ dependsOn \in Seq(SUBSET Nat)
      /\ Len(dependsOn) = Len(tasks)
  BY DEF ScriptTyped
<1>4. /\ Current(t) \in 1 .. Len(tasks) /\ Len(Versions(t)) \in 1 .. Len(Versions(t))
      /\ Current(t) = Versions(t)[Len(Versions(t))]
  BY <1>1, CurrentIs
<1>5. deps \subseteq Nat
  BY <1>3, <1>4
<1>6. \/ depends[t] = NoTitle /\ deps = {}
      \/ /\ depends[t] \in Made
         /\ \E m \in 1 .. Len(Versions(depends[t])) : deps = {Versions(depends[t])[m]}
  <2> DEFINE n == Len(Versions(t))
  <2>1. \/ depends[t] = NoTitle /\ dependsOn[Versions(t)[n]] = {}
        \/ /\ depends[t] \in Made
           /\ \E m \in 1 .. Len(Versions(depends[t])) :
                 dependsOn[Versions(t)[n]] = {Versions(depends[t])[m]}
    <3>1. n \in 1 .. Len(Versions(t))
      BY <1>4
    <3> HIDE DEF n
    <3>2. QED BY <1>1, <3>1 DEF DependsHold
  <2>2. dependsOn[Versions(t)[n]] = deps
    BY <1>4
  <2> HIDE DEF n, deps
  <2>3. QED BY <2>1, <2>2
<1>7. dependsOn' = Append(dependsOn, deps)
  BY <1>2
<1> HIDE DEF deps
<1>8. DependsHold'
  <2>1. \/ depends'[t] = NoTitle /\ deps = {}
        \/ /\ depends'[t] \in Made
           /\ \E m \in 1 .. Len(Versions(depends'[t])) : deps = {Versions(depends'[t])[m]}
    BY <1>2, <1>6
  <2>2. QED BY <1>1, <1>2, <1>7, <2>1, GrownDepends
<1>9. dependsOn' \in Seq(SUBSET Nat) /\ Len(dependsOn') = Len(tasks')
  <2>1. Len(tasks') = Len(tasks) + 1
    BY <1>1 DEF Grows
  <2>2. QED BY <1>3, <1>5, <1>7, <2>1
<1>10. VersionsHold' /\ FactsHold' /\ TasksAreTimely' /\ fact' \in [Title -> Fact]
  BY <1>1, <1>2, GrownVersions, GrownFacts DEF Grows
<1>11. QED BY <1>2, <1>3, <1>8, <1>9, <1>10, ScriptKept

\* A completion, or a cancellation, keeps it.
LEMMA FinishKeeps ==
    ASSUME ScriptInv, EngineStep, NEW t, NEW to, Finishes(t, to),
           clock' = clock, passed' = FALSE, pending' = {},
           \E events : LogGrows(events), dependsOn' = dependsOn, depends' = depends
    PROVE  ScriptInv'
<1> USE DEF ScriptInv
<1>1. /\ depends \in [Title -> Title \cup {NoTitle}] /\ dependsOn \in Seq(SUBSET Nat)
      /\ Len(dependsOn) = Len(tasks) /\ fact' \in [Title -> Fact]
  BY DEF ScriptTyped, Finishes
<1>2. /\ Len(tasks') = Len(tasks) /\ FactsHold' /\ TasksAreTimely'
      /\ \A i \in 1 .. Len(tasks) : tasks'[i].carriedFrom = tasks[i].carriedFrom
      /\ \A u \in Title : fact'[u].versions = fact[u].versions
  BY FinishedFacts
<1>3. VersionsHold' /\ DependsHold'
  BY <1>2, LineagesKept
<1>4. QED BY <1>1, <1>2, <1>3, ScriptKept

\* A pass keeps it.
LEMMA PassKeeps == ASSUME ScriptInv, Pass PROVE ScriptInv'
<1> USE DEF ScriptInv
<1>1. /\ EngineStep
      /\ pending' = {} /\ clock' = clock /\ passed' = TRUE
      /\ dependsOn' = dependsOn /\ fact' = fact /\ depends' = depends
      /\ Len(tasks') = Len(tasks)
      /\ \A i \in 1 .. Len(tasks) : tasks'[i].carriedFrom = tasks[i].carriedFrom
      /\ \E events : LogGrows(events)
      /\ FactsHold' /\ TasksAreTimely'
  BY PassEffect
<1>2. /\ depends \in [Title -> Title \cup {NoTitle}] /\ dependsOn \in Seq(SUBSET Nat)
      /\ Len(dependsOn) = Len(tasks) /\ fact \in [Title -> Fact]
  BY DEF ScriptTyped
<1>3. VersionsHold' /\ DependsHold'
  BY <1>1, LineagesKept
<1>4. QED BY <1>1, <1>2, <1>3, ScriptKept

\* The clock may go on: nothing is told, and the replay as of a later time is the same.
LEMMA LaterKeeps ==
    ASSUME ScriptInv, clock' \in Nat, clock <= clock', passed' \in BOOLEAN,
           passed' => passed /\ clock' = clock,
           UNCHANGED <<tasks, seen, pending, dependsOn, log, fact, depends>>
    PROVE  ScriptInv'
<1> USE DEF ScriptInv
<1>1. ScriptTyped'
  BY DEF ScriptTyped, TypeOK
<1>2. LineageIsAChain'
  BY DEF LineageIsAChain, Successors, Ancestors
<1>3. StatusIsJustified'
  BY DEF StatusIsJustified
<1>4. VersionsHold'
  BY DEF VersionsHold, LineageOf, VersionsDiffer, IsVersion, Versions
<1>5. DependsHold' /\ FactsHold'
  BY DEF DependsHold, FactsHold, FactHolds, Made, Current, Versions
<1>6. clock \in Nat /\ log \in Seq(LogEvents) /\ tasks \in Seq(TaskRecord(Key))
  BY DEF ScriptTyped, TypeOK
<1>7. TasksAreTimely'
  <2>1. ASSUME NEW i \in 1 .. Len(tasks) PROVE Timely(tasks[i], passed', clock')
    <3>1. Timely(tasks[i], passed, clock)
      BY DEF TasksAreTimely
    <3>2. tasks[i].lastTransitionAt \in OptionalInstant
      <4>1. tasks[i] \in TaskRecord(Key)
        BY <1>6
      <4>2. QED BY <4>1 DEF TaskRecord
    <3>3. tasks[i].lastTransitionAt <= clock'
      BY <1>6, <3>1, <3>2 DEF Timely, OptionalInstant, NoTime
    <3>4. QED BY <3>1, <3>3 DEF Timely
  <2>2. QED BY <2>1 DEF TasksAreTimely
<1>8. LogIsLive'
  <2>1. \A n \in 1 .. Len(log) : log[n].at \in Nat /\ log[n].at <= clock
    BY <1>6 DEF LogIsLive, LogEvents, Notes, Births
  <2>2. \A n \in 1 .. Len(log) : log[n].at <= clock <=> log[n].at <= clock'
    BY <1>6, <2>1
  <2> DEFINE none == <<>>
  <2>3. none \in TaskList
    BY DEF TaskList
  <2> HIDE DEF none
  <2>4. Replayed(none, log, clock) = Replayed(none, log, clock')
    BY <1>6, <2>2, <2>3, ReplayedAlike
  <2>5. \A n \in 1 .. Len(log) : log[n].at <= clock'
    BY <2>1, <2>2
  <2>6. ViewAsOf(log, clock) = ViewAsOf(log, clock')
    BY <2>4 DEF ViewAsOf, none
  <2>7. ViewAsOf(log, clock) = tasks
    BY DEF LogIsLive
  <2>8. QED BY <2>5, <2>6, <2>7 DEF LogIsLive
<1>9. QED BY <1>1, <1>2, <1>3, <1>4, <1>5, <1>7, <1>8

\* Every step keeps the invariant.
LEMMA ScriptStep == ScriptInv /\ [QANext]_qaVars => ScriptInv'
<1> SUFFICES ASSUME ScriptInv, [QANext]_qaVars PROVE ScriptInv'
  OBVIOUS
<1>1. clock \in Nat /\ passed \in BOOLEAN /\ MaxInstant \in Nat
  BY BoundsAssumption DEF ScriptInv, ScriptTyped
<1>2. CASE UNCHANGED qaVars
  <2>1. /\ clock' = clock /\ passed' = passed
        /\ UNCHANGED <<tasks, seen, pending, dependsOn, log, fact, depends>>
    BY <1>2 DEF qaVars
  <2>2. QED BY <1>1, <2>1, LaterKeeps
<1>3. CASE Pass
  BY <1>3, PassKeeps
<1>4. CASE Advance
  <2>1. /\ clock' \in clock + 1 .. MaxInstant /\ passed' = FALSE
        /\ UNCHANGED <<tasks, seen, pending, dependsOn, log, fact, depends>>
    BY <1>4 DEF Advance
  <2>2. clock' \in Nat /\ clock <= clock'
    BY <1>1, <2>1
  <2>3. QED BY <2>1, <2>2, LaterKeeps
<1>5. ASSUME NEW t \in Title, Create(t) PROVE ScriptInv'
  BY <1>5, CreateKeeps
<1>6. ASSUME NEW t \in Title, Move(t) PROVE ScriptInv'
  BY <1>6, MoveKeeps
<1>7. ASSUME NEW t \in Title, Complete(t) PROVE ScriptInv'
  <2>1. PICK to : Finishes(t, to)
    BY <1>7, CompleteEffect
  <2>2. /\ EngineStep /\ clock' = clock /\ passed' = FALSE /\ pending' = {}
        /\ \E events : LogGrows(events)
        /\ dependsOn' = dependsOn /\ depends' = depends
    BY <1>7, CompleteEffect
  <2>3. QED BY <2>1, <2>2, FinishKeeps
<1>8. ASSUME NEW t \in Title, Cancel(t) PROVE ScriptInv'
  <2>1. PICK to : Finishes(t, to)
    BY <1>8, CancelEffect
  <2>2. /\ EngineStep /\ clock' = clock /\ passed' = FALSE /\ pending' = {}
        /\ \E events : LogGrows(events)
        /\ dependsOn' = dependsOn /\ depends' = depends
    BY <1>8, CancelEffect
  <2>3. QED BY <2>1, <2>2, FinishKeeps
<1>9. QED BY <1>2, <1>3, <1>4, <1>5, <1>6, <1>7, <1>8 DEF QANext

\* The script's facts, the live tasks and the log agree, in every state of every
\* run of the benchmark (state_qa.py execute_case).
THEOREM ScriptCorrect == QASpec => []ScriptInv
<1>1. QED BY ScriptInit, ScriptStep, PTL DEF QASpec

\* After a pass every title has the status that derive_status gives for its
\* facts, blocked ones included, and the replay of the log is the live list.
THEOREM OracleCorrect == QASpec => []OracleAgrees
<1>1. QED BY ScriptCorrect, InvGivesOracle, PTL

\* The reports of planning.py find each plan that contradicts its dependencies,
\* through all moves, and those of overlap.py each conflict once.
THEOREM ReportsCorrect == QASpec => []ReportsAreComplete
<1>1. QED BY ScriptCorrect, InvGivesReports, PTL

\* What a step says about an instant before the clock is what was said before.
LEMMA PastStep ==
    ASSUME ScriptInv, [QANext]_qaVars
    PROVE  \A at \in 0 .. clock' - 1 : StateAsOf(log', at) = StateAsOf(log, at)
<1> SUFFICES ASSUME NEW at \in 0 .. clock' - 1 PROVE ViewAsOf(log', at) = ViewAsOf(log, at)
  BY DEF StateAsOf
<1>1. CASE UNCHANGED qaVars \/ Advance
  BY <1>1 DEF qaVars, Advance
<1>2. CASE Pass \/ \E t \in Title : Create(t) \/ Move(t) \/ Complete(t) \/ Cancel(t)
  <2>1. clock' = clock /\ \E events : LogGrows(events)
    BY <1>2, PassEffect, CreateEffect, MoveEffect, CompleteEffect, CancelEffect
  <2>2. PICK events : LogGrows(events)
    BY <2>1
  <2>3. at \in 0 .. clock - 1
    BY <2>1
  <2>4. QED BY <2>2, <2>3, PastIsKept
<1>3. QED BY <1>1, <1>2 DEF QANext

\* What the engine says about an earlier instant never changes, whatever is
\* recorded or noticed later (Runtime.state_as_of).
THEOREM PastCorrect == QASpec => PastIsSettled
<1>1. ScriptInv /\ [QANext]_qaVars
      => [\A at \in 0 .. clock' - 1 : StateAsOf(log', at) = StateAsOf(log, at)]_qaVars
  BY PastStep
<1>2. QED BY <1>1, ScriptCorrect, PTL DEF QASpec, PastIsSettled

=============================================================================
