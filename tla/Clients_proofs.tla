---------------------------- MODULE Clients_proofs ----------------------------
(***************************************************************************)
(* The two clients of the engine that choose their calls by what they read *)
(* of it: the imports of calendars (CalendarImport) and the heuristic in   *)
(* the agent's loop (DayPlan).  A client's step is a step of the engine,   *)
(* or none, so the engine's invariants hold of both.                       *)
(*                                                                         *)
(* Imports, for any files, importers and calls of the user: whatever races *)
(* with whatever, an event has one task that is not finished; and what an  *)
(* undisturbed import settled is as its file says.  A lineage is ordered   *)
(* by age, so its head is its one live task; a used key tells what was     *)
(* done with it (KeyInv), so a call executed in the state it was chosen    *)
(* for has a new key; and so an import that is alone has done what the     *)
(* events it is past say (AloneInv).                                       *)
(*                                                                         *)
(* The loop, for any lengths of days, contexts, answers and tasks of the   *)
(* user (LoopInv): a window that ended is in an event the agent will read, *)
(* in its plan, or known not to have been moved (AccountInv); the plan's   *)
(* moves are of windows that had ended when the heuristic was asked, to    *)
(* windows that had not begun (PlanInv); and a replacement made at the     *)
(* instant at which the task it replaces had itself been made ends after   *)
(* that instant (DatesHold), which is why a lineage cannot be moved again  *)
(* and again at one instant.                                               *)
(***************************************************************************)
EXTENDS CalendarImport, DayPlan, TaskEngine_proofs, SetInduction

(***************************************************************************)
(*                                IMPORTS                                  *)
(***************************************************************************)

-----------------------------------------------------------------------------
(* What is read from a file                                                 *)

KeptEvents(kept, e) == IF Representable(e) THEN Append(kept, e) ELSE kept

\* parse_ics yields a sequence of the file's events.
LEMMA ParsedType ==
    ASSUME NEW f \in Files
    PROVE  Parsed(f) \in Seq(CalendarEvent)
<1> DEFINE N == Len(f)
           Steps(g) == g = [n \in 0 .. N |->
                              IF n = 0 THEN <<>>
                              ELSE IF Representable(f[n]) THEN Append(g[n - 1], f[n]) ELSE g[n - 1]]
           none == <<>>
           step == [n \in 1 .. N |-> [w \in Seq(CalendarEvent) |-> KeptEvents(w, f[n])]]
           g == CHOOSE h : Steps(h)
<1>1. f \in Seq(CalendarEvent) /\ N \in Nat /\ none \in Seq(CalendarEvent)
      /\ \A n \in 1 .. N : f[n] \in CalendarEvent
  BY FilesAssumption
<1>2. step \in [1 .. N -> [Seq(CalendarEvent) -> Seq(CalendarEvent)]]
  BY <1>1 DEF KeptEvents
<1>3. PICK h \in [0 .. N -> Seq(CalendarEvent)] : Iterates(h, none, N, step)
  <2> HIDE DEF step, N, none
  <2>1. QED BY <1>1, <1>2, IterationExists
<1>4. h[0] = none /\ \A n \in 1 .. N : h[n] = KeptEvents(h[n - 1], f[n])
  <2>1. h[0] = none
    BY <1>3 DEF Iterates
  <2>2. ASSUME NEW n \in 1 .. N PROVE h[n] = KeptEvents(h[n - 1], f[n])
    <3>1. h[n - 1] \in Seq(CalendarEvent)
      BY <1>1, <1>3
    <3>2. QED BY <1>3, <3>1 DEF Iterates
  <2>3. QED BY <2>1, <2>2
<1> HIDE DEF step, N
<1>5. Steps(h)
  <2> DEFINE k == [n \in 0 .. N |->
                     IF n = 0 THEN <<>>
                     ELSE IF Representable(f[n]) THEN Append(h[n - 1], f[n]) ELSE h[n - 1]]
  <2>1. ASSUME NEW n \in 0 .. N PROVE h[n] = k[n]
    <3>1. CASE n = 0
      BY <1>4, <3>1
    <3>2. CASE n # 0
      <4>1. n \in 1 .. N
        BY <3>2
      <4>2. h[n] = KeptEvents(h[n - 1], f[n])
        BY <1>4, <4>1
      <4>3. QED BY <3>2, <4>2 DEF KeptEvents
    <3>3. QED BY <3>1, <3>2
  <2> HIDE DEF k
  <2>2. h = [n \in 0 .. N |-> k[n]]
    BY <1>3, <2>1
  <2>3. QED BY <2>2 DEF k
<1>6. Steps(g)
  BY <1>5
<1>7. Parsed(f) = g[N]
  BY DEF Parsed, N
<1> HIDE DEF g
<1>8. g[0] = none /\ \A n \in 1 .. N : g[n] = KeptEvents(g[n - 1], f[n])
  <2> DEFINE k == [n \in 0 .. N |->
                     IF n = 0 THEN <<>>
                     ELSE IF Representable(f[n]) THEN Append(g[n - 1], f[n]) ELSE g[n - 1]]
  <2>1. g = k
    BY <1>6
  <2>2. k[0] = none /\ \A n \in 1 .. N : k[n] = KeptEvents(g[n - 1], f[n])
    BY <1>1 DEF KeptEvents
  <2> HIDE DEF k
  <2>3. QED BY <2>1, <2>2
<1> DEFINE T == {n \in 0 .. N : g[n] \in Seq(CalendarEvent)}
<1>9. 0 \in T
  <2>1. g[0] \in Seq(CalendarEvent) /\ 0 \in 0 .. N
    BY <1>1, <1>8
  <2> HIDE DEF none
  <2>2. QED BY <2>1
<1>10. ASSUME NEW n \in 0 .. N - 1, n \in T PROVE n + 1 \in T
  <2>1. n + 1 \in 1 .. N /\ n + 1 - 1 = n
    BY <1>1
  <2>2. g[n + 1] = KeptEvents(g[n], f[n + 1])
    BY <1>8, <2>1
  <2>3. g[n + 1] \in Seq(CalendarEvent)
    BY <1>1, <1>10, <2>1, <2>2 DEF KeptEvents
  <2>4. QED BY <2>1, <2>3
<1> HIDE DEF T
<1>11. \A n \in 0 .. N : n \in T
  BY <1>1, <1>9, <1>10, Induction
<1>12. N \in T
  BY <1>1, <1>11
<1>13. QED BY <1>7, <1>12 DEF T

\* ... and all of them are events of some file.
LEMMA ParsedEvents ==
    ASSUME NEW f \in Files
    PROVE  Parsed(f) \in Seq(Events)
<1>1. Parsed(f) \in Seq(CalendarEvent)
  BY ParsedType
<1>2. ToSet(Parsed(f)) \subseteq Events
  BY DEF Events
<1>3. \A n \in 1 .. Len(Parsed(f)) : Parsed(f)[n] \in Events
  BY <1>1, <1>2 DEF ToSet
<1> DEFINE s == Parsed(f)
<1>4. s \in Seq(CalendarEvent) /\ \A n \in 1 .. Len(s) : s[n] \in Events
  BY <1>1, <1>3
<1> HIDE DEF s
<1>5. s \in Seq(Events)
  BY <1>4
<1>6. QED BY <1>5 DEF s

-----------------------------------------------------------------------------
(* An import is a client of the engine                                      *)

ImportTyped ==
    /\ Len(tasks) <= MaxTasks
    /\ todo \in [Importer -> Seq(Events)]
    /\ call \in [Importer -> ImportCalls \cup {NoCall}]
    /\ userCalls \in Nat

\* A lineage has a newest task.
LEMMA HeadExists ==
    ASSUME TypeOK, NEW i \in DOMAIN tasks
    PROVE  /\ Lineage(i) \subseteq DOMAIN tasks /\ i \in Lineage(i)
           /\ LineageHead(i) \in Lineage(i)
           /\ \A k \in Lineage(i) : k <= LineageHead(i)
<1>1. DOMAIN tasks = 1 .. Len(tasks) /\ Len(tasks) \in Nat
  BY ListShape
<1>2. Lineage(i) \subseteq DOMAIN tasks /\ i \in Lineage(i)
  BY DEF Lineage
<1>3. \E m \in Lineage(i) : \A k \in Lineage(i) : k <= m
  <2>1. Lineage(i) \in SUBSET (0 .. Len(tasks)) /\ Lineage(i) # {}
    BY <1>1, <1>2
  <2>2. QED BY <1>1, <2>1, GreatestExists
<1>4. QED BY <1>2, <1>3 DEF LineageHead

\* The calls an import may come to choose.
LEMMA ChosenCall ==
    ASSUME TypeOK, ImportTyped, NEW e \in Events
    PROVE  Chosen(e) \in ImportCalls \cup {NoCall}
<1> DEFINE existing == CreatedBy(BaseKey(e.uid))
           i == CHOOSE j \in existing : TRUE
           head == LineageHead(i)
<1>1. CreateCall(e) \in ImportCalls
  BY DEF ImportCalls
<1>2. \A j \in 1 .. MaxTasks : CancelCall(e, j) \in ImportCalls /\ MoveCall(e, j) \in ImportCalls
  BY DEF ImportCalls
<1>3. CASE existing = {}
  BY <1>1, <1>3 DEF Chosen
<1>4. CASE existing # {}
  <2>1. i \in DOMAIN tasks
    BY <1>4 DEF CreatedBy
  <2>2. head \in 1 .. Len(tasks)
    BY <2>1, HeadExists, ListShape
  <2>3. head \in 1 .. MaxTasks
    BY <2>2, ListShape, BoundsAssumption DEF ImportTyped
  <2>4. Chosen(e) \in {CancelCall(e, head), MoveCall(e, head), NoCall}
    <3> HIDE DEF head
    <3>1. QED BY <1>4 DEF Chosen, head
  <2>5. QED BY <1>2, <2>3, <2>4
<1>5. QED BY <1>3, <1>4

\* What an import, a user and the scheduler do to the engine is a step of the engine.
LEMMA ImportIsClient ==
    ASSUME TypeOK, ImportTyped, [ImportNext]_allVars
    PROVE  [Next]_vars
<1>1. ASSUME NEW p \in Importer, Begin(p) \/ Look(p) \/ Crash(p) PROVE UNCHANGED vars
  BY <1>1 DEF Begin, Look, Crash, vars
<1>2. ASSUME NEW now \in 0 .. MaxInstant, NEW p \in Importer, Run(p, now) PROVE Next
  <2>1. call[p] \in Calls /\ Execute(call[p], now)
    BY <1>2, ClientsAssumption DEF Run, ImportTyped
  <2>2. QED BY <2>1 DEF Next
<1>3. ASSUME NEW now \in 0 .. MaxInstant, User(now) PROVE Next
  <2>1. PICK i \in DOMAIN tasks : \E c \in UserCalls(userCalls, i) : Apply(c, now, FALSE)
    BY <1>3 DEF User
  <2>2. PICK c \in UserCalls(userCalls, i) : Apply(c, now, FALSE)
    BY <2>1
  <2>3. userCalls \in 0 .. MaxUserCalls - 1 /\ i \in 1 .. MaxTasks
    BY <1>3, ListShape, BoundsAssumption, ClientsAssumption DEF User, ImportTyped
  <2>4. c \in CallsOfUsers
    BY <2>2, <2>3 DEF CallsOfUsers
  <2>5. c \in Calls /\ Execute(c, now)
    BY <2>2, <2>4, ClientsAssumption DEF Execute, Decide
  <2>6. QED BY <2>5 DEF Next
<1>4. ASSUME NEW now \in 0 .. MaxInstant, Scheduler(now) PROVE Next
  BY <1>4 DEF Scheduler, Next
<1>5. UNCHANGED allVars => UNCHANGED vars
  BY DEF allVars, vars
<1>6. QED BY <1>1, <1>2, <1>3, <1>4, <1>5 DEF ImportNext

\* No step makes more tasks than the bound.
LEMMA WithinBound ==
    ASSUME TypeOK, Len(tasks) <= MaxTasks, [Next]_vars
    PROVE  Len(tasks') <= MaxTasks
<1>0. Len(tasks) \in Nat /\ MaxTasks \in Nat
  BY ListShape, BoundsAssumption
<1>1. CASE InPlace
  BY <1>1 DEF InPlace
<1>2. CASE CreateStep
  <2>1. Len(tasks) < MaxTasks /\ Len(tasks') = Len(tasks) + 1
    BY <1>2, CreateShape DEF CreateStep, CreateTask
  <2>2. QED BY <1>0, <2>1
<1>3. CASE MoveStep
  <2>1. Len(tasks) < MaxTasks /\ Len(tasks') = Len(tasks) + 1
    BY <1>3, MoveShape DEF MoveStep, MoveTask
  <2>2. QED BY <1>0, <2>1
<1>4. QED BY <1>1, <1>2, <1>3, StepShape, NextIsStep

\* Every step keeps the declared types of the imports.
LEMMA ImportTypedStep ==
    ASSUME TypeOK, ImportTyped, [ImportNext]_allVars
    PROVE  ImportTyped'
<1>1. Len(tasks') <= MaxTasks
  BY ImportIsClient, WithinBound DEF ImportTyped
<1> DEFINE Others3 == /\ todo' \in [Importer -> Seq(Events)]
                      /\ call' \in [Importer -> ImportCalls \cup {NoCall}]
                      /\ userCalls' \in Nat
<1>2. ASSUME NEW p \in Importer, Begin(p) PROVE Others3
  <2>1. PICK f \in Files : todo' = [todo EXCEPT ![p] = Parsed(f)]
    BY <1>2 DEF Begin
  <2>2. todo' \in [Importer -> Seq(Events)]
    BY <2>1, ParsedEvents DEF ImportTyped
  <2>3. QED BY <1>2, <2>2 DEF Begin, ImportTyped
<1>3. ASSUME NEW p \in Importer, p \in Active, NextEvent(p)
      PROVE  /\ todo' \in [Importer -> Seq(Events)]
             /\ call' \in [Importer -> ImportCalls \cup {NoCall}]
  <2>1. todo[p] \in Seq(Events) /\ todo[p] # <<>>
    BY <1>3 DEF Active, ImportTyped
  <2>2. Tail(todo[p]) \in Seq(Events)
    BY <2>1
  <2>3. todo' \in [Importer -> Seq(Events)]
    BY <1>3, <2>2 DEF NextEvent, ImportTyped
  <2>4. QED BY <1>3, <2>3 DEF NextEvent, ImportTyped
<1>4. ASSUME NEW p \in Importer, Look(p) PROVE Others3
  <2>1. CASE NextEvent(p)
    BY <1>3, <1>4, <2>1 DEF Look, ImportTyped
  <2>2. CASE ~NextEvent(p)
    <3>1. /\ call' = [call EXCEPT ![p] = Chosen(todo[p][1])]
          /\ UNCHANGED <<todo, userCalls>> /\ p \in Active
      BY <1>4, <2>2 DEF Look
    <3>2. todo[p] \in Seq(Events) /\ todo[p] # <<>>
      BY <3>1 DEF Active, ImportTyped
    <3>3. todo[p][1] \in Events
      BY <3>2
    <3>4. Chosen(todo[p][1]) \in ImportCalls \cup {NoCall}
      BY <3>3, ChosenCall
    <3>5. QED BY <3>1, <3>4 DEF ImportTyped
  <2>3. QED BY <2>1, <2>2
<1>5. ASSUME NEW now \in 0 .. MaxInstant, NEW p \in Importer, Run(p, now) PROVE Others3
  BY <1>3, <1>5 DEF Run, ImportTyped
<1>6. ASSUME NEW p \in Importer, Crash(p) PROVE Others3
  <2>1. <<>> \in Seq(Events)
    OBVIOUS
  <2>2. QED BY <1>6, <2>1 DEF Crash, ImportTyped
<1>7. ASSUME NEW now \in 0 .. MaxInstant, User(now) \/ Scheduler(now) PROVE Others3
  <2>1. UNCHANGED <<todo, call>> /\ userCalls' \in {userCalls, userCalls + 1}
    BY <1>7 DEF User, Scheduler, Others
  <2>2. QED BY <2>1 DEF ImportTyped
<1>8. UNCHANGED allVars => Others3
  BY DEF allVars, importVars, ImportTyped
<1>9. Others3
  BY <1>2, <1>4, <1>5, <1>6, <1>7, <1>8 DEF ImportNext
<1>10. QED BY <1>1, <1>9 DEF ImportTyped

EngineInv == TypeOK /\ LineageIsAChain /\ OneTaskPerKey

\* The engine keeps its rules whatever imports do with it.
LEMMA ImportInvariant == ImportSpec => [](EngineInv /\ ImportTyped)
<1>1. ImportInit => EngineInv /\ ImportTyped
  <2> SUFFICES ASSUME ImportInit PROVE EngineInv /\ ImportTyped
    OBVIOUS
  <2>1. tasks = <<>> /\ seen = {} /\ pending = {}
    BY DEF ImportInit, Init
  <2>2. TypeOK
    BY <2>1 DEF TypeOK
  <2>3. LineageIsAChain /\ OneTaskPerKey
    BY <2>1 DEF LineageIsAChain, OneTaskPerKey
  <2>4. ImportTyped
    BY <2>1, BoundsAssumption DEF ImportTyped, ImportInit
  <2>5. QED BY <2>2, <2>3, <2>4 DEF EngineInv
<1>2. EngineInv /\ ImportTyped /\ [ImportNext]_allVars => (EngineInv /\ ImportTyped)'
  <2> SUFFICES ASSUME EngineInv, ImportTyped, [ImportNext]_allVars
               PROVE  EngineInv' /\ ImportTyped'
    OBVIOUS
  <2>1. [Next]_vars
    BY ImportIsClient DEF EngineInv
  <2>2. EngineInv'
    BY <2>1, NextIsStep, TypeStep, ChainStep, KeyStep DEF EngineInv
  <2>3. QED BY <2>2, ImportTypedStep DEF EngineInv
<1>3. QED BY <1>1, <1>2, PTL DEF ImportSpec

-----------------------------------------------------------------------------
(* Lineages                                                                 *)

\* A list of tasks in which every task points to an older one, or none, and
\* no two to the same.
IsChain(ts, n) ==
    /\ DOMAIN ts = 1 .. n
    /\ \A i \in 1 .. n : ts[i].carriedFrom \in 0 .. i - 1
    /\ \A j, k \in 1 .. n :
          ts[j].carriedFrom = ts[k].carriedFrom /\ ts[j].carriedFrom # NoTask => j = k

LineageIn(ts, i) == {i} \cup {j \in DOMAIN ts : i \in Ancestors(ts, j)}

\* The lists the engine makes are such.
LEMMA EngineChain ==
    ASSUME TypeOK, LineageIsAChain
    PROVE  IsChain(tasks, Len(tasks)) /\ Len(tasks) \in Nat
<1>1. /\ DOMAIN tasks = 1 .. Len(tasks) /\ Len(tasks) \in Nat
      /\ \A i \in 1 .. Len(tasks) : tasks[i].carriedFrom \in Nat
  BY ListShape
<1>2. \A i \in 1 .. Len(tasks) : tasks[i].carriedFrom \in 0 .. i - 1
  BY <1>1 DEF LineageIsAChain
<1>3. \A j, k \in 1 .. Len(tasks) :
          tasks[j].carriedFrom = tasks[k].carriedFrom /\ tasks[j].carriedFrom # NoTask => j = k
  BY <1>1 DEF LineageIsAChain
<1>4. QED BY <1>1, <1>2, <1>3 DEF IsChain

\* A task without a parent has no ancestors; the others have their parent and
\* its ancestors.
LEMMA AncestorsAre ==
    ASSUME NEW ts, NEW n \in Nat, IsChain(ts, n), NEW i \in 1 .. n
    PROVE  /\ ts[i].carriedFrom = NoTask => Ancestors(ts, i) = {}
           /\ ts[i].carriedFrom # NoTask =>
                /\ ts[i].carriedFrom \in 1 .. i - 1
                /\ Ancestors(ts, i) = {ts[i].carriedFrom} \cup Ancestors(ts, ts[i].carriedFrom)
           /\ \A j \in Ancestors(ts, i) : j \in 1 .. i - 1
<1>1. ASSUME ts[i].carriedFrom = NoTask PROVE Ancestors(ts, i) = {}
  <2>1. ClosedFrom(ts, {}, i)
    BY <1>1 DEF ClosedFrom
  <2>2. ASSUME NEW j \in Ancestors(ts, i) PROVE FALSE
    <3> DEFINE none == {}
    <3>1. none \in SUBSET DOMAIN ts /\ ClosedFrom(ts, none, i)
      BY <2>1
    <3> HIDE DEF none
    <3>2. j \in none
      BY <3>1 DEF Ancestors, ClosedFrom
    <3>3. QED BY <3>2 DEF none
  <2>3. QED BY <2>2
<1>2. ASSUME ts[i].carriedFrom # NoTask
      PROVE  /\ ts[i].carriedFrom \in 1 .. i - 1
             /\ Ancestors(ts, i) = {ts[i].carriedFrom} \cup Ancestors(ts, ts[i].carriedFrom)
  <2>1. ts[i].carriedFrom \in 1 .. i - 1 /\ ts[i].carriedFrom \in DOMAIN ts /\ i \in DOMAIN ts
    BY <1>2 DEF IsChain, NoTask
  <2>2. NoTask \notin DOMAIN ts /\ \A k \in DOMAIN ts : ts[k].carriedFrom \in DOMAIN ts \cup {NoTask}
    BY DEF IsChain, NoTask
  <2>3. QED BY <2>1, <2>2, AncestorsOfChild
<1>3. ASSUME NEW j \in Ancestors(ts, i) PROVE j \in 1 .. i - 1
  <2>1. ClosedFrom(ts, 1 .. i - 1, i) /\ 1 .. i - 1 \in SUBSET DOMAIN ts
    BY DEF ClosedFrom, IsChain, NoTask
  <2>2. QED BY <2>1 DEF Ancestors, ClosedFrom
<1>4. QED BY <1>1, <1>2, <1>3

\* The ancestors of an ancestor are ancestors.
LEMMA AncestorsOfAncestor ==
    ASSUME NEW ts, NEW n \in Nat, IsChain(ts, n), NEW i \in 1 .. n, NEW j \in Ancestors(ts, i)
    PROVE  j \in 1 .. n /\ Ancestors(ts, j) \subseteq Ancestors(ts, i)
<1> DEFINE S == {x \in Ancestors(ts, i) : Ancestors(ts, x) \subseteq Ancestors(ts, i)}
<1>1. S \in SUBSET DOMAIN ts /\ S \subseteq 1 .. n /\ Ancestors(ts, i) \subseteq 1 .. n
  BY DEF Ancestors, IsChain
<1>2. ASSUME NEW k \in S \cup {i}, ts[k].carriedFrom # NoTask PROVE ts[k].carriedFrom \in S
  <2>1. k \in 1 .. n /\ Ancestors(ts, k) \subseteq Ancestors(ts, i)
    BY <1>1
  <2>2. Ancestors(ts, k) = {ts[k].carriedFrom} \cup Ancestors(ts, ts[k].carriedFrom)
    BY <1>2, <2>1, AncestorsAre
  <2>3. QED BY <2>1, <2>2
<1> HIDE DEF S
<1>3. ClosedFrom(ts, S, i)
  BY <1>2 DEF ClosedFrom
<1>4. j \in S
  BY <1>1, <1>3 DEF Ancestors, ClosedFrom
<1>5. QED BY <1>1, <1>4 DEF S

\* A walk comes to an ancestor from a task that was made of it.
LEMMA CameFromChild ==
    ASSUME NEW ts, NEW n \in Nat, IsChain(ts, n), NEW i \in 1 .. n, NEW j \in Ancestors(ts, i)
    PROVE  \E c \in {i} \cup Ancestors(ts, i) : ts[c].carriedFrom = j
<1> SUFFICES ASSUME \A c \in {i} \cup Ancestors(ts, i) : ts[c].carriedFrom # j PROVE FALSE
  OBVIOUS
<1> DEFINE S == Ancestors(ts, i) \ {j}
<1>1. S \in SUBSET DOMAIN ts /\ Ancestors(ts, i) \subseteq 1 .. n
  BY DEF Ancestors, IsChain
<1>2. ASSUME NEW k \in S \cup {i}, ts[k].carriedFrom # NoTask PROVE ts[k].carriedFrom \in S
  <2>1. k \in 1 .. n /\ k \in {i} \cup Ancestors(ts, i)
    BY <1>1
  <2>2. ts[k].carriedFrom \in Ancestors(ts, k)
    BY <1>2, <2>1, AncestorsAre
  <2>3. ts[k].carriedFrom \in Ancestors(ts, i)
    BY <2>1, <2>2, AncestorsOfAncestor
  <2>4. QED BY <2>1, <2>3
<1> HIDE DEF S
<1>3. ClosedFrom(ts, S, i)
  BY <1>2 DEF ClosedFrom
<1>4. j \in S
  BY <1>1, <1>3 DEF Ancestors, ClosedFrom
<1>5. QED BY <1>4 DEF S

\* Of two tasks of a lineage the older is an ancestor of the newer.
LEMMA LineageIsOrdered ==
    ASSUME NEW ts, NEW n \in Nat, IsChain(ts, n), NEW i \in 1 .. n,
           NEW j \in LineageIn(ts, i), NEW k \in LineageIn(ts, i), j < k
    PROVE  j \in Ancestors(ts, k)
<1> DEFINE Bad(x) == \E y \in LineageIn(ts, i) : y < x /\ y \notin Ancestors(ts, x)
           D == {x \in LineageIn(ts, i) : Bad(x)}
<1>1. \A x \in LineageIn(ts, i) : x \in 1 .. n /\ (x = i \/ i \in Ancestors(ts, x))
  BY DEF LineageIn, IsChain
<1>2. \A x \in 1 .. n : \A y \in Ancestors(ts, x) : y \in 1 .. x - 1
  BY AncestorsAre
<1> SUFFICES ASSUME D # {} PROVE FALSE
  OBVIOUS
<1>3. D \in SUBSET Nat
  BY <1>1
<1>4. PICK x \in D : \A z \in D : x <= z
  <2> HIDE DEF D
  <2>1. QED BY <1>3, LeastExists
<1>5. x \in LineageIn(ts, i) /\ Bad(x)
  OBVIOUS
<1>6. PICK y \in LineageIn(ts, i) : y < x /\ y \notin Ancestors(ts, x)
  BY <1>5
<1>7. \A z \in LineageIn(ts, i) : z < x => \A w \in LineageIn(ts, i) : w < z => w \in Ancestors(ts, z)
  <2> SUFFICES ASSUME NEW z \in LineageIn(ts, i), z < x PROVE z \notin D
    OBVIOUS
  <2>1. z \in Nat /\ x \in Nat
    BY <1>1, <1>5
  <2>2. QED BY <1>4, <2>1
<1> HIDE DEF D, Bad
<1>8. x \in 1 .. n /\ y \in 1 .. n
  BY <1>1, <1>5
<1>9. i <= y
  <2>1. y = i \/ i \in 1 .. y - 1
    BY <1>1, <1>2, <1>8
  <2>2. QED BY <1>8, <2>1
<1>10. i \in Ancestors(ts, x)
  BY <1>1, <1>5, <1>6, <1>8, <1>9
<1> DEFINE p == ts[x].carriedFrom
<1>11. p # NoTask /\ p \in 1 .. x - 1 /\ Ancestors(ts, x) = {p} \cup Ancestors(ts, p)
  BY <1>8, <1>10, AncestorsAre
<1>12. p \in LineageIn(ts, i)
  <2>1. p \in 1 .. n
    BY <1>8, <1>11
  <2>2. p = i \/ i \in Ancestors(ts, p)
    BY <1>10, <1>11
  <2>3. QED BY <2>1, <2>2 DEF LineageIn, IsChain
<1> HIDE DEF p
<1>13. y # p
  BY <1>6, <1>11
<1>14. ~ (y < p)
  <2> SUFFICES ASSUME y < p PROVE FALSE
    OBVIOUS
  <2>1. p < x
    BY <1>8, <1>11
  <2>2. y \in Ancestors(ts, p)
    BY <1>7, <1>12, <2>1
  <2>3. QED BY <1>6, <1>11, <2>2
<1>15. p < y
  BY <1>8, <1>11, <1>13, <1>14
<1>16. p \in Ancestors(ts, y)
  BY <1>6, <1>7, <1>12, <1>15
<1>17. PICK c \in {y} \cup Ancestors(ts, y) : ts[c].carriedFrom = p
  BY <1>8, <1>16, CameFromChild
<1>18. c \in 1 .. n /\ c <= y
  BY <1>2, <1>8
<1>19. c = x
  BY <1>8, <1>11, <1>17, <1>18 DEF IsChain, p
<1>20. QED BY <1>6, <1>8, <1>18, <1>19

-----------------------------------------------------------------------------
(* One task per event                                                       *)

\* The key of an event's creation is a key.
LEMMA BaseKeyIsKey == ASSUME NEW e \in Events PROVE BaseKey(e.uid) # NoKey
<1>1. CreateCall(e) \in ActionCall
  BY CallsAssumption, ClientsAssumption DEF ImportCalls
<1>2. CreateCall(e).key = BaseKey(e.uid)
  BY DEF CreateCall, TheCall
<1>3. QED BY <1>1, <1>2, KeyAssumption DEF ActionCall

\* An event has at most one task that is not finished, and one lineage.
THEOREM OneTaskPerEventCorrect == ImportSpec => []OneTaskPerEvent
<1>1. EngineInv => OneTaskPerEvent
  <2> SUFFICES ASSUME EngineInv, NEW u \in Uids
               PROVE  /\ Cardinality(CreatedBy(BaseKey(u))) <= 1
                      /\ Cardinality({i \in VersionsOf(u) : ~IsTerminal(tasks[i])}) <= 1
    BY DEF OneTaskPerEvent
  <2> DEFINE roots == CreatedBy(BaseKey(u))
             live == {i \in VersionsOf(u) : ~IsTerminal(tasks[i])}
  <2>0. ASSUME NEW S, \A i, j \in S : i = j PROVE Cardinality(S) <= 1
    <3>1. CASE S = {}
      BY <3>1, FS_EmptySet
    <3>2. CASE S # {}
      <4>1. PICK i \in S : TRUE
        BY <3>2
      <4>2. S = {i}
        BY <2>0, <4>1
      <4>3. Cardinality(S) = 1
        BY <4>2, FS_Singleton
      <4>4. QED BY <4>3
    <3>3. QED BY <3>1, <3>2
  <2>1. BaseKey(u) # NoKey
    <3>1. PICK e \in Events : e.uid = u
      BY DEF Uids
    <3>2. QED BY <3>1, BaseKeyIsKey
  <2>2. \A i, j \in roots : i = j
    BY <2>1 DEF CreatedBy, EngineInv, OneTaskPerKey
  <2>3. \A i, j \in live : i = j
    <3> SUFFICES ASSUME NEW j \in live, NEW k \in live, j < k PROVE FALSE
      <4>1. \A i \in live : i \in Nat
        <5>1. \A i \in roots : i \in DOMAIN tasks
          BY DEF CreatedBy
        <5>2. \A i \in roots : Lineage(i) \subseteq 1 .. Len(tasks)
          BY <5>1, HeadExists, ListShape DEF EngineInv
        <5>3. QED BY <5>2 DEF VersionsOf
      <4>2. QED BY <4>1
    <3>1. PICK i \in roots : j \in Lineage(i) /\ k \in Lineage(i)
      BY <2>2 DEF VersionsOf
    <3>2. IsChain(tasks, Len(tasks)) /\ Len(tasks) \in Nat
      BY EngineChain DEF EngineInv
    <3>3. i \in 1 .. Len(tasks) /\ k \in 1 .. Len(tasks)
      BY <3>1, HeadExists, ListShape DEF CreatedBy, EngineInv
    <3>4. j \in LineageIn(tasks, i) /\ k \in LineageIn(tasks, i)
      BY <3>1 DEF Lineage, LineageIn
    <3>5. j \in Ancestors(tasks, k)
      BY <3>2, <3>3, <3>4, LineageIsOrdered
    <3>6. IsTerminal(tasks[j])
      BY <3>3, <3>5, AncestorsAreMoved DEF EngineInv
    <3>7. QED BY <3>6
  <2> HIDE DEF roots, live
  <2>4. Cardinality(roots) <= 1 /\ Cardinality(live) <= 1
    BY <2>0, <2>2, <2>3
  <2>5. QED BY <2>4 DEF roots, live
<1>2. QED BY <1>1, ImportInvariant, PTL

-----------------------------------------------------------------------------
(* What a used key stands for                                               *)

\* A call an import chose for the event e, maybe some time ago.
ChosenFor(c, e) ==
    \/ c = CreateCall(e)
    \/ \E i \in VersionsOf(e.uid) : c = CancelCall(e, i) \/ c = MoveCall(e, i)

\* The key of an applied call tells what was done: the event has its task, or
\* one of its tasks is cancelled, or the task that was to be moved is moved.
KeyInv ==
    /\ \A i \in DOMAIN tasks : tasks[i].key # NoKey => tasks[i].carriedFrom = NoTask
    /\ \A u \in Uids : BaseKey(u) \in seen => CreatedBy(BaseKey(u)) # {}
    /\ \A u \in Uids : CancelKey(u) \in seen => \E i \in VersionsOf(u) : tasks[i].status = "CANCELLED"
    /\ \A e \in Events : \A i \in 1 .. MaxTasks :
          MoveKey(e.uid, i, e) \in seen => i \in DOMAIN tasks /\ IsMoved(tasks[i])
    /\ \A p \in Importer : call[p] # NoCall => p \in Active /\ ChosenFor(call[p], todo[p][1])

\* A step of the engine loses no task, no key, and no ancestor.
LEMMA EngineGrows ==
    ASSUME EngineInv, EngineInv', [Next]_vars
    PROVE  /\ DOMAIN tasks \subseteq DOMAIN tasks'
           /\ \A i \in DOMAIN tasks :
                 /\ tasks'[i].key = tasks[i].key /\ tasks'[i].carriedFrom = tasks[i].carriedFrom
                 /\ IsTerminal(tasks[i]) => tasks'[i] = tasks[i]
                 /\ Ancestors(tasks', i) = Ancestors(tasks, i)
<1>1. DOMAIN tasks = 1 .. Len(tasks)
  BY ListShape DEF EngineInv
<1>2. \A i \in 1 .. Len(tasks) :
         /\ i \in DOMAIN tasks'
         /\ tasks'[i].key = tasks[i].key /\ tasks'[i].carriedFrom = tasks[i].carriedFrom
         /\ IsTerminal(tasks[i]) => tasks'[i] = tasks[i]
  BY OldTasks, NextIsStep DEF EngineInv
<1>3. \A i \in 1 .. Len(tasks) : Ancestors(tasks', i) = Ancestors(tasks, i)
  BY OldWalks, NextIsStep DEF EngineInv
<1>4. QED BY <1>1, <1>2, <1>3

\* ... so that the versions of an event only become more.
LEMMA VersionsGrow ==
    ASSUME EngineInv, EngineInv', [Next]_vars, NEW u
    PROVE  /\ CreatedBy(BaseKey(u)) \subseteq CreatedBy(BaseKey(u))'
           /\ VersionsOf(u) \subseteq VersionsOf(u)'
           /\ VersionsOf(u) \subseteq DOMAIN tasks
<1>1. CreatedBy(BaseKey(u)) \subseteq CreatedBy(BaseKey(u))'
  BY EngineGrows DEF CreatedBy
<1>2. \A i \in DOMAIN tasks : Lineage(i) \subseteq Lineage(i)' /\ Lineage(i) \subseteq DOMAIN tasks
  BY EngineGrows DEF Lineage
<1>3. CreatedBy(BaseKey(u)) \subseteq DOMAIN tasks
  BY DEF CreatedBy
<1>4. QED BY <1>1, <1>2, <1>3 DEF VersionsOf

\* The versions of an event are in the list.
LEMMA VersionsAreTasks ==
    ASSUME EngineInv, ImportTyped, NEW u
    PROVE  VersionsOf(u) \subseteq 1 .. Len(tasks) /\ 1 .. Len(tasks) \subseteq 1 .. MaxTasks
<1>1. CreatedBy(BaseKey(u)) \subseteq DOMAIN tasks
  BY DEF CreatedBy
<1>2. DOMAIN tasks = 1 .. Len(tasks) /\ Len(tasks) \in Nat
  BY ListShape DEF EngineInv
<1>3. \A i \in DOMAIN tasks : Lineage(i) \subseteq DOMAIN tasks
  BY DEF Lineage
<1>4. 1 .. Len(tasks) \subseteq 1 .. MaxTasks
  BY <1>2, BoundsAssumption DEF ImportTyped
<1>5. QED BY <1>1, <1>2, <1>3, <1>4 DEF VersionsOf

\* What an import looks up it chose for that event.
LEMMA ChosenIsFor ==
    ASSUME EngineInv, NEW e, Chosen(e) # NoCall
    PROVE  ChosenFor(Chosen(e), e)
<1> DEFINE existing == CreatedBy(BaseKey(e.uid))
           i == CHOOSE j \in existing : TRUE
           head == LineageHead(i)
<1>1. CASE existing = {}
  BY <1>1 DEF Chosen, ChosenFor
<1>2. CASE existing # {}
  <2>1. i \in existing /\ i \in DOMAIN tasks
    BY <1>2 DEF CreatedBy
  <2>2. head \in Lineage(i)
    BY <2>1, HeadExists DEF EngineInv
  <2>3. head \in VersionsOf(e.uid)
    BY <2>1, <2>2 DEF VersionsOf
  <2>4. Chosen(e) \in {CancelCall(e, head), MoveCall(e, head)}
    <3> HIDE DEF head
    <3>1. QED BY <1>2 DEF Chosen, head
  <2>5. QED BY <2>3, <2>4 DEF ChosenFor
<1>3. QED BY <1>1, <1>2

\* A call that an import chose for an event stays one for that event.
LEMMA ChosenForStays ==
    ASSUME EngineInv, EngineInv', [Next]_vars, NEW c, NEW e, ChosenFor(c, e)
    PROVE  ChosenFor(c, e)'
<1>1. VersionsOf(e.uid) \subseteq VersionsOf(e.uid)'
  BY VersionsGrow
<1>2. QED BY <1>1 DEF ChosenFor

\* Which kind of call has which kind of key.
LEMMA KeysTellCalls ==
    ASSUME EngineInv, ImportTyped, NEW c, NEW e \in Events, ChosenFor(c, e)
    PROVE  /\ \A u \in Uids : c.key = BaseKey(u) => c = CreateCall(e) /\ u = e.uid
           /\ \A u \in Uids : c.key = CancelKey(u) =>
                 u = e.uid /\ \E i \in VersionsOf(u) : c = CancelCall(e, i)
           /\ \A d \in Events : \A i \in 1 .. MaxTasks : c.key = MoveKey(d.uid, i, d) =>
                 i \in 1 .. Len(tasks) /\ c = MoveCall(e, i)
<1>1. /\ \A u, v \in Uids : BaseKey(u) # CancelKey(v)
      /\ \A u \in Uids : BaseKey(u) \notin MoveKeys /\ CancelKey(u) \notin MoveKeys
      /\ \A u, v \in Uids : u # v => BaseKey(u) # BaseKey(v) /\ CancelKey(u) # CancelKey(v)
  <2>1. \A u \in Uids : BaseKey(u) \in BaseKeys /\ CancelKey(u) \in CancelKeys
    BY DEF BaseKeys, CancelKeys
  <2>2. QED BY <2>1, KeysAssumption
<1>2. \A d \in Events : \A i \in 1 .. MaxTasks : MoveKey(d.uid, i, d) \in MoveKeys
  BY DEF MoveKey, MoveKeys
<1>3. \A d, f \in Events : \A i, j \in 1 .. MaxTasks :
         MoveKey(d.uid, i, d) = MoveKey(f.uid, j, f) => i = j
  BY KeysAssumption DEF MoveKey
<1>4. e.uid \in Uids
  BY DEF Uids
<1>5. VersionsOf(e.uid) \subseteq 1 .. Len(tasks) /\ 1 .. Len(tasks) \subseteq 1 .. MaxTasks
  BY VersionsAreTasks
<1>6. CASE c = CreateCall(e)
  <2>1. c.key = BaseKey(e.uid)
    BY <1>6 DEF CreateCall, TheCall
  <2>2. QED BY <1>1, <1>2, <1>4, <1>6, <2>1
<1>7. ASSUME NEW i \in VersionsOf(e.uid), c = CancelCall(e, i)
      PROVE  /\ \A u \in Uids : c.key # BaseKey(u)
             /\ \A u \in Uids : c.key = CancelKey(u) => u = e.uid
             /\ \A d \in Events : \A j \in 1 .. MaxTasks : c.key # MoveKey(d.uid, j, d)
  <2>1. c.key = CancelKey(e.uid)
    BY <1>7 DEF CancelCall, TheCall
  <2>2. QED BY <1>1, <1>2, <1>4, <2>1
<1>8. ASSUME NEW i \in VersionsOf(e.uid), c = MoveCall(e, i)
      PROVE  /\ \A u \in Uids : c.key # BaseKey(u) /\ c.key # CancelKey(u)
             /\ \A d \in Events : \A j \in 1 .. MaxTasks : c.key = MoveKey(d.uid, j, d) => j = i
             /\ i \in 1 .. Len(tasks)
  <2>1. c.key = MoveKey(e.uid, i, e) /\ i \in 1 .. MaxTasks /\ i \in 1 .. Len(tasks)
    BY <1>5, <1>8 DEF MoveCall, TheCall
  <2>2. QED BY <1>1, <1>2, <1>3, <1>4, <2>1
<1>9. QED BY <1>6, <1>7, <1>8 DEF ChosenFor

\* What an applied call of an import does: one mutator, told by its action.
LEMMA AppliedCall ==
    ASSUME EngineInv, ImportTyped, NEW e \in Events, NEW now \in 0 .. MaxInstant,
           NEW c, Apply(c, now, FALSE)
    PROVE  /\ c = CreateCall(e) => CreateTask(c, now)
           /\ \A i : c = CancelCall(e, i) =>
                 /\ i \in 1 .. Len(tasks)
                 /\ tasks' = [tasks EXCEPT ![i] = WithStatus(tasks[i], "CANCELLED", now)]
           /\ \A i : c = MoveCall(e, i) => MoveTask(c, now)
           /\ c.key \notin seen /\ seen' = seen \cup {c.key}
<1>1. ASSUME c = CreateCall(e) PROVE CreateTask(c, now)
  <2>1. c.action = "create_task"
    BY <1>1 DEF CreateCall, TheCall
  <2>2. QED
    BY <2>1 DEF Apply, StartTask, CompleteTask, MoveTask, CancelTask,
                CanStart, CanComplete, CanMove, CanCancel
<1>2. ASSUME NEW i, c = CancelCall(e, i)
      PROVE  /\ i \in 1 .. Len(tasks)
             /\ tasks' = [tasks EXCEPT ![i] = WithStatus(tasks[i], "CANCELLED", now)]
  <2>1. c.action = "cancel_task" /\ c.task = i
    BY <1>2 DEF CancelCall, TheCall
  <2>2. CancelTask(c, now)
    BY <2>1 DEF Apply, CreateTask, StartTask, CompleteTask, MoveTask,
                CanCreate, CanStart, CanComplete, CanMove
  <2>3. i \in DOMAIN tasks /\ CancelledStatus(c) = "CANCELLED"
    BY <2>1, <2>2 DEF CancelTask, CanCancel, Known, CancelledStatus
  <2>4. QED BY <2>1, <2>2, <2>3, ListShape DEF CancelTask, EngineInv
<1>3. ASSUME NEW i, c = MoveCall(e, i) PROVE MoveTask(c, now)
  <2>1. c.action = "reschedule_task"
    BY <1>3 DEF MoveCall, TheCall
  <2>2. QED
    BY <2>1 DEF Apply, CreateTask, StartTask, CompleteTask, CancelTask,
                CanCreate, CanStart, CanComplete, CanCancel
<1>4. c.key \notin seen /\ seen' = seen \cup {c.key}
  BY DEF Apply, Runs
<1>5. QED BY <1>1, <1>2, <1>3, <1>4

\* A new key is that of an applied call of an import or a user.
LEMMA NewKeys ==
    ASSUME EngineInv, ImportTyped, KeyInv, [ImportNext]_allVars, seen' # seen
    PROVE  \E now \in 0 .. MaxInstant : \E c \in Calls :
              /\ Apply(c, now, FALSE)
              /\ c.key \in UserKeys \/ \E e \in Events : ChosenFor(c, e)
<1>1. ASSUME NEW p \in Importer, Begin(p) \/ Look(p) \/ Crash(p) PROVE FALSE
  BY <1>1 DEF Begin, Look, Crash
<1>2. ASSUME NEW now \in 0 .. MaxInstant, Scheduler(now) PROVE FALSE
  BY <1>2 DEF Scheduler, Tick
<1>3. ASSUME NEW now \in 0 .. MaxInstant, User(now)
      PROVE  \E c \in Calls : Apply(c, now, FALSE) /\ c.key \in UserKeys
  <2>1. PICK i \in DOMAIN tasks : \E c \in UserCalls(userCalls, i) : Apply(c, now, FALSE)
    BY <1>3 DEF User
  <2>2. PICK c \in UserCalls(userCalls, i) : Apply(c, now, FALSE)
    BY <2>1
  <2>3. userCalls \in 0 .. MaxUserCalls - 1 /\ i \in 1 .. MaxTasks
    BY <1>3, ListShape, BoundsAssumption, ClientsAssumption DEF User, ImportTyped, EngineInv
  <2>4. c \in Calls
    BY <2>2, <2>3, ClientsAssumption DEF CallsOfUsers
  <2>5. c.key = UserKey(userCalls)
    BY <2>2 DEF UserCalls, TheCall
  <2>6. c.key \in UserKeys
    BY <2>3, <2>5 DEF UserKeys
  <2>7. QED BY <2>2, <2>4, <2>6
<1>4. ASSUME NEW now \in 0 .. MaxInstant, NEW p \in Importer, Run(p, now)
      PROVE  \E c \in Calls : Apply(c, now, FALSE) /\ \E e \in Events : ChosenFor(c, e)
  <2>1. p \in Active /\ call[p] # NoCall /\ Execute(call[p], now)
    BY <1>4 DEF Run
  <2>2. Apply(call[p], now, FALSE)
    BY <2>1 DEF Execute, Decide, Supersede, Refuse, Hold
  <2>3. call[p] \in Calls /\ todo[p] \in Seq(Events) /\ todo[p] # <<>>
    BY <2>1, ClientsAssumption DEF ImportTyped, Active
  <2>4. todo[p][1] \in Events /\ ChosenFor(call[p], todo[p][1])
    BY <2>1, <2>3 DEF KeyInv
  <2>5. QED BY <2>2, <2>3, <2>4
<1>5. UNCHANGED allVars => FALSE
  BY DEF allVars
<1>6. QED BY <1>1, <1>2, <1>3, <1>4, <1>5 DEF ImportNext

\* What an importer has chosen and what it has to do, after a step.
LEMMA CallsKept ==
    ASSUME ImportTyped, KeyInv, [ImportNext]_allVars, NEW q \in Importer, call'[q] # NoCall
    PROVE  \/ /\ q \in Active' /\ todo'[q] = todo[q] /\ call[q] # NoCall /\ call'[q] = call[q]
           \/ /\ q \in Active' /\ todo'[q] = todo[q] /\ call'[q] = Chosen(todo[q][1])
<1>0. call[q] # NoCall => q \in Active
  BY DEF KeyInv
<1>1. ASSUME call'[q] = call[q], todo'[q] = todo[q]
      PROVE  q \in Active' /\ call[q] # NoCall
  BY <1>0, <1>1 DEF Active
<1>2. ASSUME NEW p \in Importer, Begin(p) PROVE call'[q] = call[q] /\ todo'[q] = todo[q]
  <2>1. p # q
    BY <1>0, <1>2 DEF Begin
  <2>2. QED BY <1>2, <2>1 DEF Begin, ImportTyped
<1>3. ASSUME NEW p \in Importer, NextEvent(p) PROVE call'[q] = call[q] /\ todo'[q] = todo[q]
  <2>1. p # q
    BY <1>3 DEF NextEvent, ImportTyped
  <2>2. QED BY <1>3, <2>1 DEF NextEvent, ImportTyped
<1>4. ASSUME NEW p \in Importer, Look(p), ~NextEvent(p)
      PROVE  /\ todo'[q] = todo[q]
             /\ call'[q] = call[q] \/ (q \in Active /\ call'[q] = Chosen(todo[q][1]))
  BY <1>4 DEF Look, ImportTyped
<1>5. ASSUME NEW p \in Importer, Crash(p) PROVE call'[q] = call[q] /\ todo'[q] = todo[q]
  <2>1. p # q
    BY <1>5 DEF Crash, ImportTyped
  <2>2. QED BY <1>5, <2>1 DEF Crash, ImportTyped
<1>6. ASSUME NEW now \in 0 .. MaxInstant, User(now) \/ Scheduler(now)
      PROVE  call'[q] = call[q] /\ todo'[q] = todo[q]
  BY <1>6 DEF User, Scheduler, Others
<1>7. UNCHANGED allVars => call'[q] = call[q] /\ todo'[q] = todo[q]
  BY DEF allVars, importVars
<1>8. /\ todo'[q] = todo[q]
      /\ call'[q] = call[q] \/ (q \in Active /\ call'[q] = Chosen(todo[q][1]))
  BY <1>2, <1>3, <1>4, <1>5, <1>6, <1>7 DEF ImportNext, Run
<1>9. q \in Active => q \in Active'
  BY <1>8 DEF Active
<1>10. QED BY <1>1, <1>8, <1>9

\* A task that a move makes has no key, and what has a key was made by a creation.
LEMMA RootsKept ==
    ASSUME TypeOK, [Next]_vars,
           \A i \in DOMAIN tasks : tasks[i].key # NoKey => tasks[i].carriedFrom = NoTask
    PROVE  \A i \in DOMAIN tasks' : tasks'[i].key # NoKey => tasks'[i].carriedFrom = NoTask
<1>0. DOMAIN tasks = 1 .. Len(tasks) /\ Len(tasks) \in Nat
  BY ListShape
<1>1. CASE InPlace
  BY <1>0, <1>1 DEF InPlace, Kept
<1> DEFINE n == Len(tasks) + 1
<1>2. CASE CreateStep
  <2>1. /\ DOMAIN tasks' = 1 .. n /\ tasks'[n].carriedFrom = NoTask
        /\ \A i \in 1 .. n - 1 : tasks'[i] = tasks[i]
    BY <1>0, <1>2, CreateShape DEF CreateStep
  <2>2. QED BY <1>0, <2>1
<1>3. CASE MoveStep
  <2>1. /\ DOMAIN tasks' = 1 .. n /\ tasks'[n].key = NoKey
        /\ \A i \in 1 .. n - 1 :
              tasks'[i].key = tasks[i].key /\ tasks'[i].carriedFrom = tasks[i].carriedFrom
    <3>1. PICK c \in ActionCall, now \in Nat : MoveTask(c, now)
      BY <1>3 DEF MoveStep
    <3>2. QED BY <1>0, <3>1, MoveShape
  <2>2. QED BY <1>0, <2>1
<1>4. QED BY <1>1, <1>2, <1>3, StepShape, NextIsStep

\* Every step keeps what the used keys stand for.
LEMMA KeyInvStep ==
    ASSUME EngineInv, EngineInv', ImportTyped, KeyInv, [ImportNext]_allVars
    PROVE  KeyInv'
<1>0. [Next]_vars
  BY ImportIsClient DEF EngineInv
<1>1. \A i \in DOMAIN tasks' : tasks'[i].key # NoKey => tasks'[i].carriedFrom = NoTask
  BY <1>0, RootsKept DEF KeyInv, EngineInv
<1>2. ASSUME NEW q \in Importer, call'[q] # NoCall
      PROVE  q \in Active' /\ ChosenFor(call[q], todo[q][1])'
  <2>1. \E c, e : /\ q \in Active' /\ c = call'[q] /\ e = todo'[q][1]
                  /\ ChosenFor(c, e)
    <3>1. CASE /\ q \in Active' /\ todo'[q] = todo[q] /\ call[q] # NoCall /\ call'[q] = call[q]
      BY <3>1 DEF KeyInv
    <3>2. CASE /\ q \in Active' /\ todo'[q] = todo[q] /\ call'[q] = Chosen(todo[q][1])
      BY <1>2, <3>2, ChosenIsFor
    <3>3. QED BY <1>2, <3>1, <3>2, CallsKept
  <2>2. PICK c, e : /\ q \in Active' /\ c = call'[q] /\ e = todo'[q][1]
                    /\ ChosenFor(c, e)
    BY <2>1
  <2>3. ChosenFor(c, e)'
    BY <1>0, <2>2, ChosenForStays
  <2>4. QED BY <2>2, <2>3 DEF ChosenFor
<1> DEFINE Made(u) == CreatedBy(BaseKey(u)) # {}
           Cancelled(u) == \E i \in VersionsOf(u) : tasks[i].status = "CANCELLED"
           Moved(i) == i \in DOMAIN tasks /\ IsMoved(tasks[i])
<1>3. \A u : (Made(u) => Made(u)') /\ (Cancelled(u) => Cancelled(u)')
  <2> TAKE u
  <2>1. /\ CreatedBy(BaseKey(u)) \subseteq CreatedBy(BaseKey(u))'
        /\ VersionsOf(u) \subseteq VersionsOf(u)' /\ VersionsOf(u) \subseteq DOMAIN tasks
    BY <1>0, VersionsGrow
  <2>2. \A i \in DOMAIN tasks : tasks[i].status = "CANCELLED" => tasks'[i] = tasks[i]
    BY <1>0, EngineGrows DEF IsTerminal, TerminalStatuses
  <2>3. QED BY <2>1, <2>2
<1>4. \A i : Moved(i) => Moved(i)'
  BY <1>0, EngineGrows DEF IsMoved, IsTerminal, TerminalStatuses
<1>5. /\ \A u \in Uids : BaseKey(u) \in seen => Made(u)
      /\ \A u \in Uids : CancelKey(u) \in seen => Cancelled(u)
      /\ \A e \in Events : \A i \in 1 .. MaxTasks : MoveKey(e.uid, i, e) \in seen => Moved(i)
  BY DEF KeyInv
<1>6. /\ \A u \in Uids : BaseKey(u) \in seen' => Made(u)'
      /\ \A u \in Uids : CancelKey(u) \in seen' => Cancelled(u)'
      /\ \A e \in Events : \A i \in 1 .. MaxTasks : MoveKey(e.uid, i, e) \in seen' => Moved(i)'
  <2>1. CASE seen' = seen
    <3> HIDE DEF Made, Cancelled, Moved
    <3>1. QED BY <1>3, <1>4, <1>5, <2>1
  <2>2. CASE seen' # seen
    <3>1. PICK now \in 0 .. MaxInstant, c \in Calls :
             /\ Apply(c, now, FALSE)
             /\ c.key \in UserKeys \/ \E e \in Events : ChosenFor(c, e)
      BY <2>2, NewKeys
    <3>2. seen' = seen \cup {c.key}
      BY <3>1 DEF Apply
    <3>3. CASE c.key \in UserKeys
      <4>1. /\ \A u \in Uids : c.key # BaseKey(u) /\ c.key # CancelKey(u)
            /\ \A e \in Events : \A i \in 1 .. MaxTasks : c.key # MoveKey(e.uid, i, e)
        BY <3>3, KeysAssumption DEF MoveKey, BaseKeys, CancelKeys, MoveKeys
      <4> HIDE DEF Made, Cancelled, Moved
      <4>2. QED BY <1>3, <1>4, <1>5, <3>2, <4>1
    <3>4. CASE \E e \in Events : ChosenFor(c, e)
      <4>1. PICK e \in Events : ChosenFor(c, e)
        BY <3>4
      <4>2. ASSUME NEW u \in Uids, c.key = BaseKey(u) PROVE Made(u)'
        <5>1. CreateTask(c, now)
          BY <3>1, <4>1, <4>2, KeysTellCalls, AppliedCall
        <5>2. /\ Len(tasks') = Len(tasks) + 1 /\ tasks' \in Seq(TaskRecord(Key))
              /\ tasks'[Len(tasks) + 1].key = BaseKey(u) /\ Len(tasks) \in Nat
          BY <4>2, <5>1, CreateShape, ClientCalls, ListShape DEF EngineInv
        <5>3. Len(tasks) + 1 \in DOMAIN tasks'
          BY <5>2
        <5>4. QED BY <5>2, <5>3 DEF CreatedBy
      <4>3. ASSUME NEW u \in Uids, c.key = CancelKey(u) PROVE Cancelled(u)'
        <5>1. PICK i \in VersionsOf(u) : c = CancelCall(e, i)
          BY <4>1, <4>3, KeysTellCalls
        <5>2. /\ i \in 1 .. Len(tasks)
              /\ tasks' = [tasks EXCEPT ![i] = WithStatus(tasks[i], "CANCELLED", now)]
          BY <3>1, <5>1, AppliedCall
        <5>3. tasks[i] \in TaskRecord(Key) /\ i \in DOMAIN tasks
          BY <5>2, ListShape DEF EngineInv
        <5>4. tasks'[i].status = "CANCELLED"
          BY <5>2, <5>3 DEF WithStatus, TaskRecord
        <5>5. i \in VersionsOf(u)'
          BY <1>0, <5>1, VersionsGrow
        <5>6. QED BY <5>4, <5>5
      <4>4. ASSUME NEW d \in Events, NEW i \in 1 .. MaxTasks, c.key = MoveKey(d.uid, i, d)
            PROVE  Moved(i)'
        <5>1. i \in 1 .. Len(tasks) /\ c = MoveCall(e, i)
          BY <4>1, <4>4, KeysTellCalls
        <5>2. MoveTask(c, now) /\ c.task = i
          BY <3>1, <5>1, AppliedCall DEF MoveCall, TheCall
        <5>3. IsMoved(tasks'[i])
          BY <5>2, MoveShape, ClientCalls DEF EngineInv
        <5>4. i \in DOMAIN tasks'
          BY <1>0, <5>1, EngineGrows, ListShape DEF EngineInv
        <5>5. QED BY <5>3, <5>4
      <4> HIDE DEF Made, Cancelled, Moved
      <4>5. QED BY <1>3, <1>4, <1>5, <3>2, <4>2, <4>3, <4>4
    <3>5. QED BY <3>1, <3>3, <3>4
  <2>3. QED BY <2>1, <2>2
<1>7. QED BY <1>1, <1>2, <1>6 DEF KeyInv

-----------------------------------------------------------------------------
(* What a list of tasks says about an event                                 *)

CreatedIn(ts, key) == {i \in DOMAIN ts : ts[i].key = key}

HeadIn(ts, i) == CHOOSE j \in LineageIn(ts, i) : \A k \in LineageIn(ts, i) : k <= j

\* The event is as the file says: Matches, of any list.
FollowsIn(ts, e) ==
    LET heads == {HeadIn(ts, i) : i \in CreatedIn(ts, BaseKey(e.uid))}
    IN  /\ e.cancelled => \A h \in heads : IsTerminal(ts[h])
        /\ ~e.cancelled => heads # {} /\ \A h \in heads :
              IsTerminal(ts[h]) \/ (ts[h].start = e.start /\ ts[h].end = e.end)

\* Matches, now and after a step.
LEMMA MatchesIs ==
    ASSUME NEW e
    PROVE  (Matches(e) <=> FollowsIn(tasks, e)) /\ (Matches(e)' <=> FollowsIn(tasks', e))
<1>1. \A key : CreatedBy(key) = CreatedIn(tasks, key) /\ CreatedBy(key)' = CreatedIn(tasks', key)
  BY DEF CreatedBy, CreatedIn
<1>2. \A i : Lineage(i) = LineageIn(tasks, i) /\ Lineage(i)' = LineageIn(tasks', i)
  BY DEF Lineage, LineageIn
<1>3. \A i : LineageHead(i) = HeadIn(tasks, i) /\ LineageHead(i)' = HeadIn(tasks', i)
  BY <1>2 DEF LineageHead, HeadIn
<1>4. Matches(e) <=> FollowsIn(tasks, e)
  BY <1>1, <1>3 DEF Matches, FollowsIn
<1>5. Matches(e)' <=> FollowsIn(tasks', e)
  BY <1>1, <1>3 DEF Matches, FollowsIn
<1>6. QED BY <1>4, <1>5

\* The newest task of a lineage is its head.
LEMMA HeadIs ==
    ASSUME NEW ts, NEW i, LineageIn(ts, i) \subseteq Nat,
           NEW m \in LineageIn(ts, i), \A k \in LineageIn(ts, i) : k <= m
    PROVE  HeadIn(ts, i) = m
<1> DEFINE S == LineageIn(ts, i)
<1>1. \E j \in S : \A k \in S : k <= j
  OBVIOUS
<1>2. HeadIn(ts, i) \in S /\ \A k \in S : k <= HeadIn(ts, i)
  BY <1>1 DEF HeadIn
<1>3. HeadIn(ts, i) <= m /\ m <= HeadIn(ts, i) /\ HeadIn(ts, i) \in Nat /\ m \in Nat
  BY <1>2
<1>4. QED BY <1>3

\* The tasks that a creation made are the roots of what they are versions of:
\* a task has one of them among its ancestors.
LEMMA OneRoot ==
    ASSUME NEW ts, NEW n \in Nat, IsChain(ts, n), NEW j \in 1 .. n,
           NEW a \in {j} \cup Ancestors(ts, j), NEW b \in {j} \cup Ancestors(ts, j),
           ts[a].carriedFrom = NoTask, ts[b].carriedFrom = NoTask
    PROVE  a = b
<1> DEFINE R(x) == {r \in {x} \cup Ancestors(ts, x) : ts[r].carriedFrom = NoTask}
           D == {x \in 1 .. n : \E r, s \in R(x) : r # s}
<1> SUFFICES ASSUME D # {} PROVE FALSE
  OBVIOUS
<1>1. D \in SUBSET Nat
  OBVIOUS
<1>2. PICK x \in D : \A z \in D : x <= z
  <2> HIDE DEF D
  <2>1. QED BY <1>1, LeastExists
<1>3. x \in 1 .. n /\ \E r, s \in R(x) : r # s
  OBVIOUS
<1> DEFINE p == ts[x].carriedFrom
<1>4. CASE p = NoTask
  <2>1. Ancestors(ts, x) = {}
    BY <1>3, <1>4, AncestorsAre
  <2>2. \A r, s \in R(x) : r = s
    BY <2>1
  <2>3. QED BY <1>3, <2>2
<1>5. CASE p # NoTask
  <2>1. p \in 1 .. x - 1 /\ Ancestors(ts, x) = {p} \cup Ancestors(ts, p)
    BY <1>3, <1>5, AncestorsAre
  <2>2. R(x) \subseteq R(p)
    BY <1>5, <2>1
  <2>3. p \in D
    BY <1>3, <2>1, <2>2
  <2>4. x <= p
    BY <1>2, <2>3
  <2> HIDE DEF p, D
  <2>5. p \in 1 .. x - 1 /\ x \in Nat
    BY <1>3, <2>1
  <2>6. QED BY <2>4, <2>5
<1>6. QED BY <1>4, <1>5

\* What is said about an event does not change when its tasks do not.
LEMMA FollowsKept ==
    ASSUME NEW ts, NEW us, NEW e,
           CreatedIn(us, BaseKey(e.uid)) = CreatedIn(ts, BaseKey(e.uid)),
           \A r \in CreatedIn(ts, BaseKey(e.uid)) :
              /\ LineageIn(us, r) = LineageIn(ts, r)
              /\ us[HeadIn(ts, r)] = ts[HeadIn(ts, r)],
           FollowsIn(ts, e)
    PROVE  FollowsIn(us, e)
<1>1. \A r \in CreatedIn(ts, BaseKey(e.uid)) : HeadIn(us, r) = HeadIn(ts, r)
  BY DEF HeadIn
<1>2. QED BY <1>1 DEF FollowsIn

\* The event's first task, if it has one, is one, and it is a root.
LEMMA TheRoot ==
    ASSUME EngineInv, KeyInv, NEW e \in Events, NEW r \in CreatedIn(tasks, BaseKey(e.uid))
    PROVE  /\ CreatedIn(tasks, BaseKey(e.uid)) = {r} /\ r \in 1 .. Len(tasks)
           /\ tasks[r].carriedFrom = NoTask /\ tasks[r].key = BaseKey(e.uid)
           /\ BaseKey(e.uid) # NoKey
           /\ HeadIn(tasks, r) = LineageHead(r)
           /\ HeadIn(tasks, r) \in LineageIn(tasks, r)
           /\ HeadIn(tasks, r) \in 1 .. Len(tasks)
           /\ LineageIn(tasks, r) \subseteq 1 .. HeadIn(tasks, r)
<1>1. BaseKey(e.uid) # NoKey
  BY BaseKeyIsKey
<1>2. r \in DOMAIN tasks /\ tasks[r].key = BaseKey(e.uid) /\ DOMAIN tasks = 1 .. Len(tasks)
  BY ListShape DEF CreatedIn, EngineInv
<1>3. CreatedIn(tasks, BaseKey(e.uid)) = {r}
  BY <1>1, <1>2 DEF CreatedIn, EngineInv, OneTaskPerKey
<1>4. tasks[r].carriedFrom = NoTask
  BY <1>1, <1>2 DEF KeyInv
<1>5. Lineage(r) = LineageIn(tasks, r)
  BY DEF Lineage, LineageIn
<1>6. HeadIn(tasks, r) = LineageHead(r)
  BY <1>5 DEF HeadIn, LineageHead
<1>7. /\ Lineage(r) \subseteq 1 .. Len(tasks) /\ LineageHead(r) \in Lineage(r)
      /\ \A k \in Lineage(r) : k <= LineageHead(r)
  BY <1>2, HeadExists DEF EngineInv
<1>8. Len(tasks) \in Nat
  BY ListShape DEF EngineInv
<1>9. LineageIn(tasks, r) \subseteq 1 .. HeadIn(tasks, r)
  BY <1>5, <1>6, <1>7, <1>8
<1>10. QED BY <1>1, <1>2, <1>3, <1>4, <1>5, <1>6, <1>7, <1>9

\* An import chooses a call for an event exactly when it is not as the file says.
LEMMA ChosenCases ==
    ASSUME EngineInv, ImportTyped, KeyInv, NEW e \in Events
    PROVE  \/ FollowsIn(tasks, e) /\ Chosen(e) = NoCall
           \/ /\ ~FollowsIn(tasks, e) /\ Chosen(e) = CreateCall(e)
              /\ CreatedIn(tasks, BaseKey(e.uid)) = {} /\ ~e.cancelled
           \/ \E r \in CreatedIn(tasks, BaseKey(e.uid)) :
                 LET h == HeadIn(tasks, r) IN
                 /\ ~FollowsIn(tasks, e) /\ ~IsTerminal(tasks[h])
                 /\ \/ e.cancelled /\ Chosen(e) = CancelCall(e, h)
                    \/ ~e.cancelled /\ Chosen(e) = MoveCall(e, h)
<1> DEFINE existing == CreatedBy(BaseKey(e.uid))
<1>0. existing = CreatedIn(tasks, BaseKey(e.uid))
  BY DEF CreatedBy, CreatedIn
<1>1. CASE existing = {}
  <2>1. Chosen(e) = IF e.cancelled THEN NoCall ELSE CreateCall(e)
    BY <1>1 DEF Chosen
  <2>2. FollowsIn(tasks, e) <=> e.cancelled
    BY <1>0, <1>1 DEF FollowsIn
  <2>3. QED BY <1>0, <1>1, <2>1, <2>2
<1>2. CASE existing # {}
  <2>1. PICK r \in existing : r = CHOOSE j \in existing : TRUE
    BY <1>2
  <2> DEFINE h == HeadIn(tasks, r)
  <2>2. existing = {r} /\ h = LineageHead(r)
    BY <1>0, <2>1, TheRoot
  <2>3. FollowsIn(tasks, e) <=>
           \/ IsTerminal(tasks[h])
           \/ ~e.cancelled /\ tasks[h].start = e.start /\ tasks[h].end = e.end
    BY <1>0, <2>2 DEF FollowsIn
  <2> HIDE DEF h
  <2>4. Chosen(e) =
           CASE ~IsTerminal(tasks[h]) /\ e.cancelled -> CancelCall(e, h)
             [] ~IsTerminal(tasks[h]) /\ ~e.cancelled
                   /\ (tasks[h].start # e.start \/ tasks[h].end # e.end) -> MoveCall(e, h)
             [] OTHER -> NoCall
    BY <1>2, <2>1, <2>2 DEF Chosen
  <2>5. CASE IsTerminal(tasks[h])
    BY <2>3, <2>4, <2>5
  <2>6. CASE ~IsTerminal(tasks[h]) /\ e.cancelled
    <3>1. Chosen(e) = CancelCall(e, h) /\ ~FollowsIn(tasks, e)
      BY <2>3, <2>4, <2>6
    <3>2. QED BY <1>0, <2>1, <2>6, <3>1 DEF h
  <2>7. CASE ~IsTerminal(tasks[h]) /\ ~e.cancelled
    <3>1. CASE tasks[h].start = e.start /\ tasks[h].end = e.end
      BY <2>3, <2>4, <2>7, <3>1
    <3>2. CASE tasks[h].start # e.start \/ tasks[h].end # e.end
      <4>1. Chosen(e) = MoveCall(e, h) /\ ~FollowsIn(tasks, e)
        BY <2>3, <2>4, <2>7, <3>2
      <4>2. QED BY <1>0, <2>1, <2>7, <4>1 DEF h
    <3>3. QED BY <3>1, <3>2
  <2>8. QED BY <2>5, <2>6, <2>7
<1>3. QED BY <1>1, <1>2

-----------------------------------------------------------------------------
(* A call that is carried out in the state it was chosen for                *)

\* The key of a call that is chosen is new: a superseded call is one that was
\* chosen in an older state.
LEMMA ChosenKeyIsNew ==
    ASSUME EngineInv, ImportTyped, KeyInv, NEW e \in Events, Chosen(e) # NoCall
    PROVE  Chosen(e).key \notin seen
<1>0. e.uid \in Uids
  BY DEF Uids
<1>1. CASE Chosen(e) = CreateCall(e) /\ CreatedIn(tasks, BaseKey(e.uid)) = {}
  <2>1. Chosen(e).key = BaseKey(e.uid)
    BY <1>1 DEF CreateCall, TheCall
  <2>2. CreatedBy(BaseKey(e.uid)) = {}
    BY <1>1 DEF CreatedIn, CreatedBy
  <2>3. QED BY <1>0, <2>1, <2>2 DEF KeyInv
<1>2. ASSUME NEW r \in CreatedIn(tasks, BaseKey(e.uid)),
             ~IsTerminal(tasks[HeadIn(tasks, r)])
      PROVE  /\ Chosen(e) = CancelCall(e, HeadIn(tasks, r)) => Chosen(e).key \notin seen
             /\ Chosen(e) = MoveCall(e, HeadIn(tasks, r)) => Chosen(e).key \notin seen
  <2> DEFINE h == HeadIn(tasks, r)
  <2>1. /\ CreatedIn(tasks, BaseKey(e.uid)) = {r} /\ r \in 1 .. Len(tasks)
        /\ h \in LineageIn(tasks, r) /\ h \in 1 .. Len(tasks)
        /\ LineageIn(tasks, r) \subseteq 1 .. h
    BY TheRoot
  <2>2. IsChain(tasks, Len(tasks)) /\ Len(tasks) \in Nat
    BY EngineChain DEF EngineInv
  <2> HIDE DEF h
  <2>3. ASSUME Chosen(e) = CancelCall(e, h) PROVE Chosen(e).key \notin seen
    <3>1. Chosen(e).key = CancelKey(e.uid)
      BY <2>3 DEF CancelCall, TheCall
    <3> SUFFICES ASSUME CancelKey(e.uid) \in seen PROVE FALSE
      BY <3>1
    <3>2. PICK i \in VersionsOf(e.uid) : tasks[i].status = "CANCELLED"
      BY <1>0 DEF KeyInv
    <3>3. i \in LineageIn(tasks, r)
      BY <2>1, <3>2 DEF VersionsOf, CreatedBy, CreatedIn, Lineage, LineageIn
    <3>4. i # h
      BY <1>2, <3>2 DEF IsTerminal, TerminalStatuses, h
    <3>5. i < h
      BY <2>1, <3>3, <3>4
    <3>6. i \in Ancestors(tasks, h)
      BY <2>1, <2>2, <3>3, <3>5, LineageIsOrdered
    <3>7. IsMoved(tasks[i])
      BY <2>1, <3>6, AncestorsAreMoved DEF EngineInv
    <3>8. QED BY <3>2, <3>7 DEF IsMoved
  <2>4. ASSUME Chosen(e) = MoveCall(e, h) PROVE Chosen(e).key \notin seen
    <3>1. Chosen(e).key = MoveKey(e.uid, h, e)
      BY <2>4 DEF MoveCall, TheCall
    <3>2. h \in 1 .. MaxTasks
      BY <2>1, <2>2, BoundsAssumption DEF ImportTyped
    <3>3. ~IsMoved(tasks[h])
      BY <1>2 DEF IsMoved, IsTerminal, TerminalStatuses, h
    <3>4. QED BY <3>1, <3>2, <3>3 DEF KeyInv
  <2>5. QED BY <2>3, <2>4 DEF h
<1>3. QED BY <1>1, <1>2, ChosenCases

\* A step that touches one task of the event e, or adds one, leaves another
\* event as it is.
LEMMA OtherEventsKeep ==
    ASSUME EngineInv, EngineInv', KeyInv, [Next]_vars,
           NEW e \in Events, NEW f \in Events, f.uid # e.uid, FollowsIn(tasks, f),
           NEW h,
           \A i \in DOMAIN tasks : i # h => tasks'[i] = tasks[i],
           h \in DOMAIN tasks =>
              \E r \in CreatedIn(tasks, BaseKey(e.uid)) : h \in LineageIn(tasks, r),
           \A i \in DOMAIN tasks' \ DOMAIN tasks :
              /\ tasks'[i].key \in {NoKey, BaseKey(e.uid)}
              /\ \A a \in Ancestors(tasks', i) : h \in DOMAIN tasks /\ a \in {h} \cup Ancestors(tasks, h)
    PROVE  FollowsIn(tasks', f)
<1> DEFINE key == BaseKey(f.uid)
<1>0. BaseKey(f.uid) # BaseKey(e.uid)
  BY KeysAssumption DEF Uids
<1>1. DOMAIN tasks = 1 .. Len(tasks) /\ IsChain(tasks, Len(tasks)) /\ Len(tasks) \in Nat
  BY EngineChain, ListShape DEF EngineInv
<1>2. /\ DOMAIN tasks \subseteq DOMAIN tasks'
      /\ \A i \in DOMAIN tasks :
            tasks'[i].key = tasks[i].key /\ Ancestors(tasks', i) = Ancestors(tasks, i)
  BY EngineGrows
<1>3. CASE CreatedIn(tasks, key) = {}
  <2>1. CreatedIn(tasks', key) = CreatedIn(tasks, key)
    <3>1. ASSUME NEW i \in DOMAIN tasks', tasks'[i].key = key PROVE i \in DOMAIN tasks
      <4>1. key # NoKey
        BY BaseKeyIsKey
      <4>2. QED BY <1>0, <3>1, <4>1
    <3>2. QED BY <1>2, <3>1 DEF CreatedIn
  <2>2. QED BY <1>3, <2>1, FollowsKept
<1>4. ASSUME NEW r \in CreatedIn(tasks, key) PROVE FollowsIn(tasks', f)
  <2>1. /\ CreatedIn(tasks, key) = {r} /\ r \in DOMAIN tasks
        /\ tasks[r].carriedFrom = NoTask /\ tasks[r].key = key /\ key # NoKey
        /\ HeadIn(tasks, r) \in LineageIn(tasks, r) /\ HeadIn(tasks, r) \in DOMAIN tasks
    BY <1>1, TheRoot
  <2>2. CreatedIn(tasks', key) = CreatedIn(tasks, key)
    <3>1. ASSUME NEW i \in DOMAIN tasks', tasks'[i].key = key PROVE i \in DOMAIN tasks
      BY <1>0, <2>1, <3>1
    <3>2. QED BY <1>2, <3>1 DEF CreatedIn
  <2>3. ASSUME h \in DOMAIN tasks PROVE r \notin {h} \cup Ancestors(tasks, h)
    <3>1. PICK s \in CreatedIn(tasks, BaseKey(e.uid)) : h \in LineageIn(tasks, s)
      BY <2>3
    <3>2. tasks[s].carriedFrom = NoTask /\ tasks[s].key = BaseKey(e.uid)
      BY <3>1, TheRoot
    <3>3. s \in {h} \cup Ancestors(tasks, h)
      BY <3>1 DEF LineageIn
    <3>4. r # s
      BY <1>0, <2>1, <3>2
    <3>5. QED BY <1>1, <2>1, <2>3, <3>2, <3>3, <3>4, OneRoot
  <2>4. h \notin LineageIn(tasks, r)
    BY <2>1, <2>3 DEF LineageIn
  <2>5. LineageIn(tasks', r) = LineageIn(tasks, r)
    <3>1. ASSUME NEW j \in DOMAIN tasks', r \in Ancestors(tasks', j) PROVE j \in DOMAIN tasks
      BY <2>3, <3>1
    <3>2. QED BY <1>2, <2>1, <3>1 DEF LineageIn
  <2>6. tasks'[HeadIn(tasks, r)] = tasks[HeadIn(tasks, r)]
    BY <2>1, <2>4
  <2>7. QED BY <2>1, <2>2, <2>5, <2>6, FollowsKept
<1>5. QED BY <1>3, <1>4

\* The tasks are a chain after a step, too.
LEMMA ChainAfter == EngineInv' => (IsChain(tasks, Len(tasks)) /\ Len(tasks) \in Nat)'
<1>1. EngineInv => IsChain(tasks, Len(tasks)) /\ Len(tasks) \in Nat
  BY EngineChain DEF EngineInv
<1>2. QED BY <1>1, PTL

\* After the creation the event's one task has the window of the file.
LEMMA CreationFollows ==
    ASSUME EngineInv, EngineInv', [Next]_vars, NEW e \in Events, NEW now \in 0 .. MaxInstant,
           CreateCall(e) \in Calls, CreateTask(CreateCall(e), now),
           CreatedIn(tasks, BaseKey(e.uid)) = {}, ~e.cancelled
    PROVE  FollowsIn(tasks', e)
<1> DEFINE n == Len(tasks) + 1
<1>1. /\ tasks' \in Seq(TaskRecord(Key)) /\ Len(tasks') = n
      /\ \A i \in 1 .. Len(tasks) : tasks'[i] = tasks[i]
      /\ tasks'[n].key = BaseKey(e.uid)
      /\ tasks'[n].start = e.start /\ tasks'[n].end = e.end
  BY CreateShape, ClientCalls DEF EngineInv, CreateCall, TheCall
<1>2. DOMAIN tasks = 1 .. Len(tasks) /\ Len(tasks) \in Nat /\ DOMAIN tasks' = 1 .. n
  BY <1>1, ListShape DEF EngineInv
<1>3. IsChain(tasks', n) /\ n \in Nat
  <2>1. (IsChain(tasks, Len(tasks)) /\ Len(tasks) \in Nat)'
    BY ChainAfter
  <2>2. QED BY <1>1, <2>1
<1> HIDE DEF n
<1>4. CreatedIn(tasks', BaseKey(e.uid)) = {n}
  <2>1. n \in DOMAIN tasks' /\ \A i \in DOMAIN tasks' : i = n \/ i \in DOMAIN tasks
    BY <1>2 DEF n
  <2>2. \A i \in DOMAIN tasks : tasks'[i].key # BaseKey(e.uid)
    BY <1>1, <1>2 DEF CreatedIn
  <2>3. QED BY <1>1, <2>1, <2>2 DEF CreatedIn
<1>5. LineageIn(tasks', n) = {n}
  <2>1. ASSUME NEW j \in 1 .. n PROVE n \notin Ancestors(tasks', j)
    <3>1. \A i \in Ancestors(tasks', j) : i \in 1 .. j - 1
      BY <1>3, AncestorsAre
    <3>2. QED BY <1>3, <3>1
  <2>2. QED BY <1>2, <2>1 DEF LineageIn
<1>6. HeadIn(tasks', n) = n
  <2>1. /\ LineageIn(tasks', n) \subseteq Nat /\ n \in LineageIn(tasks', n)
        /\ \A k \in LineageIn(tasks', n) : k <= n
    BY <1>3, <1>5
  <2>2. QED BY <2>1, HeadIs
<1>7. QED BY <1>1, <1>4, <1>6 DEF FollowsIn

\* After the cancellation the newest task is finished, as the file says.
LEMMA CancellationFollows ==
    ASSUME EngineInv, EngineInv', KeyInv, [Next]_vars, NEW e \in Events, e.cancelled,
           NEW r \in CreatedIn(tasks, BaseKey(e.uid)), NEW now \in Nat,
           tasks' = [tasks EXCEPT ![HeadIn(tasks, r)] =
                        WithStatus(tasks[HeadIn(tasks, r)], "CANCELLED", now)]
    PROVE  FollowsIn(tasks', e)
<1> DEFINE h == HeadIn(tasks, r)
<1>1. /\ CreatedIn(tasks, BaseKey(e.uid)) = {r} /\ r \in DOMAIN tasks
      /\ h \in DOMAIN tasks /\ tasks[h] \in TaskRecord(Key)
  BY TheRoot, ListShape DEF EngineInv
<1>2. DOMAIN tasks' = DOMAIN tasks /\ \A i \in DOMAIN tasks :
         tasks'[i].key = tasks[i].key /\ Ancestors(tasks', i) = Ancestors(tasks, i)
  <2>1. DOMAIN tasks' = DOMAIN tasks
    OBVIOUS
  <2>2. QED BY <2>1, EngineGrows
<1> HIDE DEF h
<1>3. CreatedIn(tasks', BaseKey(e.uid)) = {r}
  BY <1>1, <1>2 DEF CreatedIn
<1>4. LineageIn(tasks', r) = LineageIn(tasks, r)
  BY <1>2 DEF LineageIn
<1>5. HeadIn(tasks', r) = h
  BY <1>4 DEF HeadIn, h
<1>6. tasks'[h].status = "CANCELLED"
  BY <1>1 DEF WithStatus, TaskRecord, h
<1>7. IsTerminal(tasks'[h])
  BY <1>6 DEF IsTerminal, TerminalStatuses
<1>8. QED BY <1>3, <1>5, <1>7 DEF FollowsIn

\* After the move the newest task is the one the move made, with the window of the file.
LEMMA MoveFollows ==
    ASSUME EngineInv, EngineInv', KeyInv, [Next]_vars, NEW e \in Events, ~e.cancelled,
           NEW r \in CreatedIn(tasks, BaseKey(e.uid)), NEW now \in 0 .. MaxInstant,
           MoveCall(e, HeadIn(tasks, r)) \in Calls, MoveTask(MoveCall(e, HeadIn(tasks, r)), now)
    PROVE  FollowsIn(tasks', e)
<1> DEFINE h == HeadIn(tasks, r)
           n == Len(tasks) + 1
<1>1. /\ tasks' \in Seq(TaskRecord(Key)) /\ Len(tasks') = n
      /\ tasks'[n].carriedFrom = h /\ tasks'[n].key = NoKey
      /\ tasks'[n].start = e.start /\ tasks'[n].end = e.end
  BY MoveShape, ClientCalls DEF EngineInv, MoveCall, TheCall
<1>2. DOMAIN tasks = 1 .. Len(tasks) /\ Len(tasks) \in Nat /\ DOMAIN tasks' = 1 .. n
  BY <1>1, ListShape DEF EngineInv
<1>3. IsChain(tasks', n) /\ n \in Nat
  <2>1. (IsChain(tasks, Len(tasks)) /\ Len(tasks) \in Nat)'
    BY ChainAfter
  <2>2. QED BY <1>1, <2>1
<1>4. /\ CreatedIn(tasks, BaseKey(e.uid)) = {r} /\ r \in DOMAIN tasks
      /\ h \in DOMAIN tasks /\ h \in LineageIn(tasks, r) /\ BaseKey(e.uid) # NoKey
  BY TheRoot, ListShape DEF EngineInv
<1>5. \A i \in DOMAIN tasks :
         tasks'[i].key = tasks[i].key /\ Ancestors(tasks', i) = Ancestors(tasks, i)
  BY EngineGrows
<1>6. n \in DOMAIN tasks' /\ n \notin DOMAIN tasks
      /\ \A i \in DOMAIN tasks' : i = n \/ i \in DOMAIN tasks
  BY <1>2
<1> HIDE DEF h, n
<1>7. CreatedIn(tasks', BaseKey(e.uid)) = {r}
  <2>1. DOMAIN tasks \subseteq DOMAIN tasks'
    BY EngineGrows
  <2>2. QED BY <1>1, <1>4, <1>5, <1>6, <2>1 DEF CreatedIn
<1>8. r \in Ancestors(tasks', n)
  <2>1. h # NoTask /\ n \in 1 .. n
    BY <1>2, <1>3, <1>4, <1>6 DEF NoTask
  <2>2. Ancestors(tasks', n) = {h} \cup Ancestors(tasks', h)
    BY <1>1, <1>3, <2>1, AncestorsAre
  <2>3. r = h \/ r \in Ancestors(tasks, h)
    BY <1>4 DEF LineageIn
  <2>4. QED BY <1>4, <1>5, <2>2, <2>3
<1>9. HeadIn(tasks', r) = n
  <2>1. n \in LineageIn(tasks', r)
    BY <1>6, <1>8 DEF LineageIn
  <2>2. LineageIn(tasks', r) \subseteq DOMAIN tasks'
    BY <1>4, EngineGrows DEF LineageIn
  <2>3. LineageIn(tasks', r) \subseteq Nat /\ \A k \in LineageIn(tasks', r) : k <= n
    BY <1>2, <1>3, <2>2
  <2>4. QED BY <2>1, <2>3, HeadIs
<1>10. QED BY <1>1, <1>7, <1>9 DEF FollowsIn

\* An import that executes a call in the state it chose it for, and is not
\* refused, leaves this event as the file says and the others as they are.
LEMMA ExecutedFollows ==
    ASSUME EngineInv, EngineInv', ImportTyped, KeyInv, [Next]_vars, NEW e \in Events,
           Chosen(e) # NoCall, NEW now \in 0 .. MaxInstant,
           Execute(Chosen(e), now), Chosen(e).key \in seen'
    PROVE  /\ FollowsIn(tasks', e)
           /\ \A f \in Events : f.uid # e.uid /\ FollowsIn(tasks, f) => FollowsIn(tasks', f)
<1> DEFINE c == Chosen(e)
           n == Len(tasks) + 1
<1>0. now \in Nat /\ DOMAIN tasks = 1 .. Len(tasks) /\ Len(tasks) \in Nat
  BY BoundsAssumption, ListShape DEF EngineInv
<1>1. c \in Calls /\ c.key \notin seen
  BY ChosenCall, ChosenKeyIsNew, ClientsAssumption DEF EngineInv
<1>2. Apply(c, now, FALSE)
  BY <1>1 DEF Execute, Decide, Supersede, Refuse, Hold
<1>3. CASE c = CreateCall(e) /\ CreatedIn(tasks, BaseKey(e.uid)) = {} /\ ~e.cancelled
  <2>1. CreateTask(c, now)
    BY <1>2, <1>3, AppliedCall
  <2>2. FollowsIn(tasks', e)
    BY <1>1, <1>3, <2>1, CreationFollows
  <2>3. ASSUME NEW f \in Events, f.uid # e.uid, FollowsIn(tasks, f) PROVE FollowsIn(tasks', f)
    <3>1. /\ tasks' \in Seq(TaskRecord(Key)) /\ Len(tasks') = n
          /\ \A i \in 1 .. Len(tasks) : tasks'[i] = tasks[i]
          /\ tasks'[n].key = BaseKey(e.uid) /\ tasks'[n].carriedFrom = NoTask
      BY <1>1, <1>3, <2>1, CreateShape, ClientCalls DEF EngineInv, CreateCall, TheCall
    <3>2. n \in Nat /\ n \in 1 .. n /\ IsChain(tasks', n)
      <4>1. (IsChain(tasks, Len(tasks)) /\ Len(tasks) \in Nat)'
        BY ChainAfter
      <4>2. QED BY <1>0, <3>1, <4>1
    <3>3. Ancestors(tasks', n) = {}
      BY <3>1, <3>2, AncestorsAre
    <3>4. NoTask \notin DOMAIN tasks /\ \A i \in DOMAIN tasks' \ DOMAIN tasks : i = n
      BY <1>0, <3>1 DEF NoTask
    <3> HIDE DEF n
    <3>5. /\ \A i \in DOMAIN tasks : i # NoTask => tasks'[i] = tasks[i]
          /\ \A i \in DOMAIN tasks' \ DOMAIN tasks :
                /\ tasks'[i].key \in {NoKey, BaseKey(e.uid)}
                /\ \A a \in Ancestors(tasks', i) :
                      NoTask \in DOMAIN tasks /\ a \in {NoTask} \cup Ancestors(tasks, NoTask)
      BY <1>0, <3>1, <3>3, <3>4
    <3>6. QED BY <2>3, <3>4, <3>5, OtherEventsKeep
  <2>4. QED BY <2>2, <2>3
<1>4. ASSUME NEW r \in CreatedIn(tasks, BaseKey(e.uid)), e.cancelled,
             c = CancelCall(e, HeadIn(tasks, r))
      PROVE  /\ FollowsIn(tasks', e)
             /\ \A f \in Events : f.uid # e.uid /\ FollowsIn(tasks, f) => FollowsIn(tasks', f)
  <2> DEFINE h == HeadIn(tasks, r)
  <2>1. tasks' = [tasks EXCEPT ![h] = WithStatus(tasks[h], "CANCELLED", now)]
    BY <1>2, <1>4, AppliedCall
  <2>2. FollowsIn(tasks', e)
    BY <1>0, <1>4, <2>1, CancellationFollows
  <2>3. h \in LineageIn(tasks, r)
    BY TheRoot
  <2>4. /\ \A i \in DOMAIN tasks : i # h => tasks'[i] = tasks[i]
        /\ DOMAIN tasks' = DOMAIN tasks
    BY <2>1
  <2> HIDE DEF h
  <2>5. ASSUME NEW f \in Events, f.uid # e.uid, FollowsIn(tasks, f) PROVE FollowsIn(tasks', f)
    BY <2>3, <2>4, <2>5, OtherEventsKeep
  <2>6. QED BY <2>2, <2>5
<1>5. ASSUME NEW r \in CreatedIn(tasks, BaseKey(e.uid)), ~e.cancelled,
             c = MoveCall(e, HeadIn(tasks, r))
      PROVE  /\ FollowsIn(tasks', e)
             /\ \A f \in Events : f.uid # e.uid /\ FollowsIn(tasks, f) => FollowsIn(tasks', f)
  <2> DEFINE h == HeadIn(tasks, r)
  <2>1. MoveTask(c, now) /\ c.task = h
    <3>1. MoveTask(c, now)
      BY <1>2, <1>5, AppliedCall
    <3>2. c.task = h
      BY <1>5 DEF MoveCall, TheCall
    <3>3. QED BY <3>1, <3>2
  <2>2. FollowsIn(tasks', e)
    BY <1>1, <1>5, <2>1, MoveFollows
  <2>3. h \in LineageIn(tasks, r) /\ h \in DOMAIN tasks
    BY <1>0, TheRoot
  <2>4. /\ tasks' \in Seq(TaskRecord(Key)) /\ Len(tasks') = n
        /\ \A i \in 1 .. Len(tasks) : i # h => tasks'[i] = tasks[i]
        /\ tasks'[n].key = NoKey /\ tasks'[n].carriedFrom = h
    BY <1>1, <2>1, MoveShape, ClientCalls DEF EngineInv
  <2>5. n \in Nat /\ n \in 1 .. n /\ IsChain(tasks', n)
    <3>1. (IsChain(tasks, Len(tasks)) /\ Len(tasks) \in Nat)'
      BY ChainAfter
    <3>2. QED BY <1>0, <2>4, <3>1
  <2> HIDE DEF h
  <2>6. Ancestors(tasks', n) = {h} \cup Ancestors(tasks, h)
    <3>1. h # NoTask
      BY <1>0, <2>3 DEF NoTask
    <3>2. Ancestors(tasks', n) = {h} \cup Ancestors(tasks', h)
      BY <2>4, <2>5, <3>1, AncestorsAre
    <3>3. QED BY <2>3, <3>2, EngineGrows
  <2>7. \A i \in DOMAIN tasks' \ DOMAIN tasks : i = n
    BY <1>0, <2>4
  <2> HIDE DEF n
  <2>8. /\ \A i \in DOMAIN tasks : i # h => tasks'[i] = tasks[i]
        /\ \A i \in DOMAIN tasks' \ DOMAIN tasks :
              /\ tasks'[i].key \in {NoKey, BaseKey(e.uid)}
              /\ \A a \in Ancestors(tasks', i) : h \in DOMAIN tasks /\ a \in {h} \cup Ancestors(tasks, h)
    BY <1>0, <2>3, <2>4, <2>6, <2>7
  <2>9. ASSUME NEW f \in Events, f.uid # e.uid, FollowsIn(tasks, f) PROVE FollowsIn(tasks', f)
    BY <2>3, <2>8, <2>9, OtherEventsKeep
  <2>10. QED BY <2>2, <2>9
<1>6. QED BY <1>3, <1>4, <1>5, ChosenCases

-----------------------------------------------------------------------------
(* An import that nobody disturbs                                           *)

\* Of the events s, those after the first d are still to be looked at.
Ahead(s, d, t) ==
    /\ d \in 0 .. Len(s)
    /\ Len(t) = Len(s) - d /\ \A m \in 1 .. Len(t) : t[m] = s[d + m]

\* The first d of the events s are as the file says.
Behind(ts, s, d) == \A m \in 1 .. d : FollowsIn(ts, s[m])

\* An import that is alone left what it is done with as the file says, and the
\* call it chose is the one it would choose now.
AloneInv ==
    /\ file \in [Importer -> Files \cup {NoFile}] /\ alone \subseteq Importer
    /\ \A p \in alone :
          /\ file[p] \in Files
          /\ \E d \in Nat : Ahead(Parsed(file[p]), d, todo[p]) /\ Behind(tasks, Parsed(file[p]), d)
          /\ call[p] # NoCall => call[p] = Chosen(todo[p][1])

\* What was settled is as the file says.
SettledInv ==
    settled # NoFile =>
        settled \in Files /\ Behind(tasks, Parsed(settled), Len(Parsed(settled)))

\* The first event that is still ahead is the next one of the file.
LEMMA NextAhead ==
    ASSUME NEW s \in Seq(Events), NEW t \in Seq(Events), t # <<>>, NEW d, Ahead(s, d, t)
    PROVE  /\ d + 1 \in 1 .. Len(s) /\ d \in Nat /\ s[d + 1] = t[1] /\ t[1] \in Events
           /\ Ahead(s, d + 1, Tail(t))
           /\ Len(t) = 1 => d + 1 = Len(s)
<1>1. Len(s) \in Nat /\ Len(t) \in Nat /\ Len(t) >= 1
  OBVIOUS
<1>2. d \in 0 .. Len(s) /\ Len(t) = Len(s) - d /\ \A m \in 1 .. Len(t) : t[m] = s[d + m]
  BY DEF Ahead
<1>3. Len(Tail(t)) = Len(t) - 1 /\ \A m \in 1 .. Len(t) - 1 : Tail(t)[m] = t[m + 1]
  OBVIOUS
<1>4. \A m \in 1 .. Len(t) - 1 : Tail(t)[m] = s[(d + 1) + m]
  <2> TAKE m \in 1 .. Len(t) - 1
  <2>1. m + 1 \in 1 .. Len(t) /\ d + (m + 1) = (d + 1) + m
    BY <1>1, <1>2
  <2>2. QED BY <1>2, <1>3, <2>1
<1>5. d + 1 \in 0 .. Len(s) /\ Len(Tail(t)) = Len(s) - (d + 1)
  BY <1>1, <1>2, <1>3
<1>6. Ahead(s, d + 1, Tail(t))
  BY <1>3, <1>4, <1>5 DEF Ahead
<1>7. s[d + 1] = t[1] /\ t[1] \in Events
  BY <1>1, <1>2
<1>8. QED BY <1>1, <1>2, <1>5, <1>6, <1>7

\* Nothing is chosen for an event exactly when it is as the file says.
LEMMA FollowsWhenNoCall ==
    ASSUME EngineInv, ImportTyped, KeyInv, NEW e \in Events
    PROVE  FollowsIn(tasks, e) <=> Chosen(e) = NoCall
<1>1. CreateCall(e) # NoCall
  <2>1. CreateCall(e) \in ImportCalls
    BY DEF ImportCalls
  <2>2. QED BY <2>1, ClientsAssumption
<1>2. ASSUME NEW r \in CreatedIn(tasks, BaseKey(e.uid))
      PROVE  CancelCall(e, HeadIn(tasks, r)) # NoCall /\ MoveCall(e, HeadIn(tasks, r)) # NoCall
  <2>1. HeadIn(tasks, r) \in 1 .. MaxTasks
    <3>1. HeadIn(tasks, r) \in 1 .. Len(tasks) /\ Len(tasks) \in Nat
      BY TheRoot, ListShape DEF EngineInv
    <3>2. QED BY <3>1, BoundsAssumption DEF ImportTyped
  <2>2. CancelCall(e, HeadIn(tasks, r)) \in ImportCalls /\ MoveCall(e, HeadIn(tasks, r)) \in ImportCalls
    BY <2>1 DEF ImportCalls
  <2>3. QED BY <2>2, ClientsAssumption
<1>3. QED BY <1>1, <1>2, ChosenCases

\* A choice depends on the tasks only.
LEMMA ChosenSame == ASSUME tasks' = tasks, NEW e PROVE Chosen(e)' = Chosen(e)
BY DEF Chosen, CreatedBy, LineageHead, Lineage

\* A step after which nobody is alone says nothing about files.
LEMMA NoneAlone ==
    ASSUME file' \in [Importer -> Files \cup {NoFile}], alone' = {}, settled' = NoFile
    PROVE  AloneInv' /\ SettledInv'
BY DEF AloneInv, SettledInv

\* An event that is as the file says, the others being as they were, is done with.
LEMMA DoneWith ==
    ASSUME ImportTyped, AloneInv, NEW p \in alone, p \in Active, NextEvent(p),
           file' = file, alone' = {p},
           FollowsIn(tasks', todo[p][1]),
           \A f \in Events : f.uid # todo[p][1].uid /\ FollowsIn(tasks, f) => FollowsIn(tasks', f)
    PROVE  AloneInv' /\ SettledInv'
<1> DEFINE s == Parsed(file[p])
           t == todo[p]
<1>1. p \in Importer /\ file[p] \in Files /\ file \in [Importer -> Files \cup {NoFile}]
  BY DEF AloneInv
<1>2. s \in Seq(Events) /\ t \in Seq(Events) /\ t # <<>>
  BY <1>1, ParsedEvents DEF ImportTyped, Active
<1>3. todo'[p] = Tail(t) /\ call'[p] = NoCall
      /\ settled' = IF Len(t) = 1 THEN file[p] ELSE NoFile
  BY <1>1 DEF NextEvent, ImportTyped
<1>4. \A m, n \in 1 .. Len(s) : s[m].uid = s[n].uid => m = n
  BY <1>1, <1>2, UidsAssumption
<1>5. PICK d \in Nat : Ahead(s, d, t) /\ Behind(tasks, s, d)
  BY DEF AloneInv
<1>6. FollowsIn(tasks', t[1])
      /\ \A f \in Events : f.uid # t[1].uid /\ FollowsIn(tasks, f) => FollowsIn(tasks', f)
  OBVIOUS
<1> HIDE DEF s, t
<1>7. /\ d + 1 \in 1 .. Len(s) /\ s[d + 1] = t[1]
      /\ Ahead(s, d + 1, Tail(t)) /\ (Len(t) = 1 => d + 1 = Len(s))
  BY <1>2, <1>5, NextAhead
<1>8. Behind(tasks', s, d + 1)
  <2>1. ASSUME NEW m \in 1 .. d + 1 PROVE FollowsIn(tasks', s[m])
    <3>1. CASE m = d + 1
      BY <1>6, <1>7, <3>1
    <3>2. CASE m # d + 1
      <4>1. m \in 1 .. d /\ m \in 1 .. Len(s) /\ s[m] \in Events
        BY <1>2, <1>7, <3>2
      <4>2. s[m].uid # t[1].uid
        BY <1>4, <1>7, <3>2, <4>1
      <4>3. FollowsIn(tasks, s[m])
        BY <1>5, <4>1 DEF Behind
      <4>4. QED BY <1>6, <4>1, <4>2, <4>3
    <3>3. QED BY <3>1, <3>2
  <2>2. QED BY <2>1 DEF Behind
<1>9. AloneInv'
  <2>1. Ahead(Parsed(file'[p]), d + 1, todo'[p]) /\ Behind(tasks', Parsed(file'[p]), d + 1)
        /\ d + 1 \in Nat
    BY <1>3, <1>7, <1>8 DEF s
  <2>2. QED BY <1>1, <1>3, <2>1 DEF AloneInv
<1>10. SettledInv'
  <2>1. CASE Len(t) = 1
    BY <1>1, <1>3, <1>7, <1>8, <2>1 DEF SettledInv, s
  <2>2. CASE Len(t) # 1
    BY <1>3, <2>2 DEF SettledInv
  <2>3. QED BY <2>1, <2>2
<1>11. QED BY <1>9, <1>10

\* Every step keeps what is said of an import that is alone, and of what it settled.
LEMMA AloneStep ==
    ASSUME EngineInv, EngineInv', ImportTyped, KeyInv, AloneInv, SettledInv, [ImportNext]_allVars
    PROVE  AloneInv' /\ SettledInv'
<1>0. file \in [Importer -> Files \cup {NoFile}] /\ alone \subseteq Importer
      /\ [Next]_vars
  BY ImportIsClient DEF AloneInv, EngineInv
<1>1. ASSUME NEW p \in Importer, Begin(p) PROVE AloneInv' /\ SettledInv'
  <2>1. PICK f \in Files : todo' = [todo EXCEPT ![p] = Parsed(f)] /\ file' = [file EXCEPT ![p] = f]
    BY <1>1 DEF Begin
  <2>2. call'[p] = NoCall /\ alone' \in {{p}, {}} /\ settled' = NoFile
    BY <1>1 DEF Begin, KeyInv
  <2>3. file'[p] = f /\ todo'[p] = Parsed(f) /\ file' \in [Importer -> Files \cup {NoFile}]
    BY <1>0, <2>1 DEF ImportTyped
  <2>4. Ahead(Parsed(f), 0, Parsed(f)) /\ Behind(tasks', Parsed(f), 0) /\ 0 \in Nat
    <3>1. Parsed(f) \in Seq(Events)
      BY ParsedEvents
    <3>2. QED BY <3>1 DEF Ahead, Behind
  <2>5. SettledInv'
    BY <2>2 DEF SettledInv
  <2>6. AloneInv'
    BY <2>2, <2>3, <2>4 DEF AloneInv
  <2>7. QED BY <2>5, <2>6
<1>2. ASSUME NEW p \in Importer, p \notin alone', alone' \subseteq {p}, NextEvent(p), file' = file
      PROVE  AloneInv' /\ SettledInv'
  <2>1. alone' = {} /\ settled' = NoFile
    BY <1>2 DEF NextEvent
  <2>2. QED BY <1>0, <1>2, <2>1, NoneAlone
<1>3. ASSUME NEW p \in Importer, Look(p) PROVE AloneInv' /\ SettledInv'
  <2>1. /\ p \in Active /\ tasks' = tasks /\ file' = file /\ alone' = alone \cap {p}
    BY <1>3 DEF Look
  <2>2. todo[p][1] \in Events
    BY <2>1 DEF ImportTyped, Active
  <2>3. CASE Chosen(todo[p][1]) = NoCall /\ NextEvent(p)
    <3>1. CASE p \in alone
      <4>1. FollowsIn(tasks, todo[p][1])
        BY <2>2, <2>3, FollowsWhenNoCall
      <4>2. QED BY <2>1, <2>3, <3>1, <4>1, DoneWith
    <3>2. CASE p \notin alone
      BY <1>2, <2>1, <2>3, <3>2
    <3>3. QED BY <3>1, <3>2
  <2>4. CASE call' = [call EXCEPT ![p] = Chosen(todo[p][1])] /\ settled' = NoFile /\ todo' = todo
    <3>1. call'[p] = Chosen(todo[p][1])'
      BY <2>1, <2>4, ChosenSame DEF ImportTyped
    <3>2. AloneInv'
      BY <2>1, <2>4, <3>1 DEF AloneInv
    <3>3. QED BY <2>4, <3>2 DEF SettledInv
  <2>5. QED BY <1>3, <2>3, <2>4 DEF Look
<1>4. ASSUME NEW now \in 0 .. MaxInstant, NEW p \in Importer, Run(p, now)
      PROVE  AloneInv' /\ SettledInv'
  <2>1. /\ p \in Active /\ file' = file /\ NextEvent(p) /\ call[p] # NoCall /\ Execute(call[p], now)
        /\ alone' = IF call[p].key \in seen' THEN alone \cap {p} ELSE {}
    BY <1>4 DEF Run
  <2>2. todo[p][1] \in Events
    BY <2>1 DEF ImportTyped, Active
  <2>3. CASE p \in alone /\ call[p].key \in seen'
    <3>1. call[p] = Chosen(todo[p][1])
      BY <2>1, <2>3 DEF AloneInv
    <3>2. /\ FollowsIn(tasks', todo[p][1])
          /\ \A f \in Events : f.uid # todo[p][1].uid /\ FollowsIn(tasks, f) => FollowsIn(tasks', f)
      BY <1>0, <2>1, <2>2, <2>3, <3>1, ExecutedFollows
    <3>3. QED BY <2>1, <2>3, <3>2, DoneWith
  <2>4. CASE ~(p \in alone /\ call[p].key \in seen')
    BY <1>2, <2>1, <2>4
  <2>5. QED BY <2>3, <2>4
<1>5. ASSUME NEW p \in Importer, Crash(p) PROVE AloneInv' /\ SettledInv'
  BY <1>0, <1>5, NoneAlone DEF Crash
<1>6. ASSUME NEW now \in 0 .. MaxInstant, User(now) \/ Scheduler(now)
      PROVE  AloneInv' /\ SettledInv'
  BY <1>0, <1>6, NoneAlone DEF User, Scheduler, Others
<1>7. CASE UNCHANGED allVars
  <2>1. tasks' = tasks /\ UNCHANGED <<todo, call, file, alone, settled>>
    BY <1>7 DEF allVars, importVars
  <2>2. \A e : Chosen(e)' = Chosen(e)
    BY <2>1, ChosenSame
  <2>3. AloneInv'
    BY <2>1, <2>2 DEF AloneInv
  <2>4. QED BY <2>1, <2>3 DEF SettledInv
<1>8. QED BY <1>1, <1>3, <1>4, <1>5, <1>6, <1>7 DEF ImportNext

\* What an import does at the end of a file: each event is as the file says, and
\* importing the file again does nothing, whatever flapped before.
THEOREM SettledIsFollowedCorrect == ImportSpec => []SettledIsFollowed
<1> DEFINE Inv == KeyInv /\ AloneInv /\ SettledInv
<1>1. ImportInit => Inv
  <2> SUFFICES ASSUME ImportInit PROVE Inv
    OBVIOUS
  <2>1. tasks = <<>> /\ seen = {}
    BY DEF ImportInit, Init
  <2>2. KeyInv
    BY <2>1 DEF KeyInv, ImportInit
  <2>3. AloneInv /\ SettledInv
    BY DEF AloneInv, SettledInv, ImportInit
  <2>4. QED BY <2>2, <2>3
<1>2. Inv /\ EngineInv /\ EngineInv' /\ ImportTyped /\ [ImportNext]_allVars => Inv'
  BY KeyInvStep, AloneStep
<1>3. Inv /\ EngineInv /\ ImportTyped => SettledIsFollowed
  <2> SUFFICES ASSUME Inv, EngineInv, ImportTyped, settled # NoFile, NEW e \in ToSet(Parsed(settled))
               PROVE  Matches(e) /\ Chosen(e) = NoCall
    BY DEF SettledIsFollowed
  <2>1. settled \in Files /\ Behind(tasks, Parsed(settled), Len(Parsed(settled)))
    BY DEF SettledInv
  <2>2. Parsed(settled) \in Seq(Events)
    BY <2>1, ParsedEvents
  <2>3. PICK m \in 1 .. Len(Parsed(settled)) : e = Parsed(settled)[m]
    BY <2>2 DEF ToSet
  <2>4. e \in Events /\ FollowsIn(tasks, e)
    BY <2>1, <2>2, <2>3 DEF Behind
  <2>5. QED BY <2>4, MatchesIs, FollowsWhenNoCall
<1> HIDE DEF Inv
<1>4. QED BY <1>1, <1>2, <1>3, ImportInvariant, PTL DEF ImportSpec

(***************************************************************************)
(*                          THE AGENT'S LOOP                               *)
(***************************************************************************)

-----------------------------------------------------------------------------
(* Sets in an order                                                         *)

\* A strict total order of S, as a set of pairs.
Orders(order, S) ==
    /\ \A x \in S : <<x, x>> \notin order
    /\ \A x, y \in S : x # y => <<x, y>> \in order \/ <<y, x>> \in order
    /\ \A x, y, z \in S : <<x, y>> \in order /\ <<y, z>> \in order => <<x, z>> \in order

Sorted(s, order) == \A m, n \in DOMAIN s : m < n => <<s[m], s[n]>> \in order

Distinct(s) == \A m, n \in DOMAIN s : s[m] = s[n] => m = n

\* A finite set has an enumeration in any order of it: an element's place is
\* one more than the number of those before it.
LEMMA OrderExists ==
    ASSUME NEW S, IsFiniteSet(S), NEW order, Orders(order, S)
    PROVE  \E s \in [1 .. Cardinality(S) -> S] : Sorted(s, order)
<1> DEFINE N == Cardinality(S)
           before(x) == {y \in S : <<y, x>> \in order}
           place == [x \in S |-> Cardinality(before(x)) + 1]
<1>1. ASSUME NEW x \in S PROVE IsFiniteSet(before(x)) /\ Cardinality(before(x)) \in Nat
  BY FS_Subset, FS_CardinalityType
<1>2. N \in Nat
  BY FS_CardinalityType
<1>3. ASSUME NEW x \in S PROVE place[x] \in 1 .. N
  <2>1. before(x) \in SUBSET S /\ before(x) # S
    BY DEF Orders
  <2>2. Cardinality(before(x)) <= N /\ Cardinality(before(x)) # N
    BY <2>1, FS_Subset
  <2>3. place[x] = Cardinality(before(x)) + 1
    OBVIOUS
  <2> HIDE DEF place, before, N
  <2>4. QED BY <1>1, <1>2, <2>2, <2>3
<1>4. ASSUME NEW x \in S, NEW y \in S, <<x, y>> \in order PROVE place[x] < place[y]
  <2>1. before(x) \in SUBSET before(y) /\ x \in before(y) /\ x \notin before(x)
    BY <1>4 DEF Orders
  <2>2. Cardinality(before(x)) <= Cardinality(before(y))
        /\ Cardinality(before(x)) # Cardinality(before(y))
    <3> HIDE DEF before
    <3>1. QED BY <1>1, <2>1, FS_Subset
  <2>3. place[x] = Cardinality(before(x)) + 1 /\ place[y] = Cardinality(before(y)) + 1
    OBVIOUS
  <2> HIDE DEF place, before
  <2>4. QED BY <1>1, <2>2, <2>3
<1>5. place \in Injection(S, 1 .. N)
  <2>1. place \in [S -> 1 .. N]
    BY <1>3
  <2> HIDE DEF place, N
  <2>2. \A x, y \in S : place[x] \in Int /\ place[y] \in Int
    BY <2>1
  <2>3. ASSUME NEW x \in S, NEW y \in S, place[x] = place[y] PROVE x = y
    <3>1. ~(<<x, y>> \in order) /\ ~(<<y, x>> \in order)
      <4>1. <<x, y>> \in order => place[x] < place[y]
        BY <1>4
      <4>2. <<y, x>> \in order => place[y] < place[x]
        BY <1>4
      <4>3. QED BY <2>2, <2>3, <4>1, <4>2
    <3>2. QED BY <3>1 DEF Orders
  <2>4. QED BY <2>1, <2>3 DEF Injection, IsInjective
<1>6. IsFiniteSet(1 .. N) /\ Cardinality(1 .. N) = N
  BY <1>2, FS_Interval
<1>7. place \in Surjection(S, 1 .. N)
  <2> HIDE DEF place
  <2>1. Cardinality(S) = Cardinality(1 .. N)
    BY <1>6
  <2>2. QED BY <1>5, <1>6, <2>1, FS_Injection
<1> DEFINE s == [n \in 1 .. N |-> CHOOSE x \in S : place[x] = n]
<1>8. \A n \in 1 .. N : s[n] \in S /\ place[s[n]] = n
  <2> HIDE DEF place
  <2>1. \A n \in 1 .. N : \E x \in S : place[x] = n
    BY <1>7 DEF Surjection
  <2>2. QED BY <2>1
<1>9. s \in [1 .. N -> S]
  BY <1>8
<1>10. Sorted(s, order)
  <2> SUFFICES ASSUME NEW m \in 1 .. N, NEW n \in 1 .. N, m < n PROVE <<s[m], s[n]>> \in order
    BY DEF Sorted
  <2> HIDE DEF s, place, N
  <2>1. s[m] \in S /\ s[n] \in S /\ place[s[m]] = m /\ place[s[n]] = n
    BY <1>8
  <2>2. s[m] # s[n]
    BY <2>1
  <2>3. ~(<<s[n], s[m]>> \in order)
    BY <1>4, <2>1
  <2>4. QED BY <2>1, <2>2, <2>3 DEF Orders
<1>11. QED BY <1>9, <1>10

\* InOrder lists every member once, in the order given.
LEMMA InOrderShape ==
    ASSUME NEW S, IsFiniteSet(S), NEW order, Orders(order, S)
    PROVE  LET s == InOrder(S, order) IN
           /\ s \in Seq(S) /\ Len(s) = Cardinality(S)
           /\ Sorted(s, order) /\ Distinct(s)
           /\ ToSet(s) = S
<1> DEFINE N == Cardinality(S)
           s == InOrder(S, order)
<1>1. N \in Nat
  BY FS_CardinalityType
<1>2. s \in [1 .. N -> S] /\ Sorted(s, order)
  BY OrderExists DEF InOrder, Sorted
<1> HIDE DEF s
<1>3. s \in Seq(S) /\ Len(s) = N /\ DOMAIN s = 1 .. N
  BY <1>1, <1>2
<1>4. ASSUME NEW m \in 1 .. N, NEW n \in 1 .. N, s[m] = s[n] PROVE m = n
  <2>1. s[m] \in S
    BY <1>2
  <2>2. ~(m < n) /\ ~(n < m)
    BY <1>2, <1>3, <1>4, <2>1 DEF Sorted, Orders
  <2>3. QED BY <1>1, <2>2
<1>5. s \in Injection(1 .. N, S)
  BY <1>2, <1>4 DEF Injection, IsInjective
<1>6. Cardinality(1 .. N) = N
  BY <1>1, FS_Interval
<1>7. s \in Surjection(1 .. N, S)
  BY <1>5, <1>6, FS_Injection
<1>8. ToSet(s) = S
  <2>1. \A x \in S : \E n \in 1 .. N : s[n] = x
    BY <1>7 DEF Surjection
  <2>2. QED BY <1>2, <1>3, <2>1 DEF ToSet
<1>9. QED BY <1>2, <1>3, <1>4, <1>8 DEF Distinct, s

\* The members of a sequence, and those of two joined.
LEMMA Members ==
    ASSUME NEW A, NEW s \in Seq(A)
    PROVE  /\ \A x : x \in ToSet(s) <=> \E n \in 1 .. Len(s) : s[n] = x
           /\ ToSet(s) \subseteq A
BY DEF ToSet

\* Joined sequences.
LEMMA JoinedMembers ==
    ASSUME NEW A, NEW s \in Seq(A), NEW t \in Seq(A)
    PROVE  /\ s \o t \in Seq(A)
           /\ ToSet(s \o t) = ToSet(s) \cup ToSet(t)
           /\ Distinct(s) /\ Distinct(t) /\ ToSet(s) \cap ToSet(t) = {} => Distinct(s \o t)
<1> DEFINE u == s \o t
<1>1. /\ u \in Seq(A) /\ Len(u) = Len(s) + Len(t) /\ Len(s) \in Nat /\ Len(t) \in Nat
      /\ \A n \in 1 .. Len(s) : u[n] = s[n]
      /\ \A n \in 1 .. Len(t) : u[Len(s) + n] = t[n]
      /\ DOMAIN u = 1 .. Len(u) /\ DOMAIN s = 1 .. Len(s) /\ DOMAIN t = 1 .. Len(t)
  OBVIOUS
<1> HIDE DEF u
<1>2. ASSUME NEW n \in 1 .. Len(u)
      PROVE  \/ n \in 1 .. Len(s) /\ u[n] = s[n]
             \/ n - Len(s) \in 1 .. Len(t) /\ u[n] = t[n - Len(s)]
  <2>1. CASE n <= Len(s)
    BY <1>1, <2>1
  <2>2. CASE n > Len(s)
    <3>1. n - Len(s) \in 1 .. Len(t) /\ Len(s) + (n - Len(s)) = n
      BY <1>1, <2>2
    <3>2. u[Len(s) + (n - Len(s))] = t[n - Len(s)]
      BY <1>1, <3>1
    <3>3. QED BY <3>1, <3>2
  <2>3. QED BY <1>1, <2>1, <2>2
<1>3. /\ \A n \in 1 .. Len(s) : n \in 1 .. Len(u)
      /\ \A n \in 1 .. Len(t) : Len(s) + n \in 1 .. Len(u)
  BY <1>1
<1>4. ToSet(u) = ToSet(s) \cup ToSet(t)
  <2>1. \A x : x \in ToSet(u) <=> \E n \in 1 .. Len(u) : u[n] = x
    BY <1>1 DEF ToSet
  <2>2. /\ \A x : x \in ToSet(s) <=> \E n \in 1 .. Len(s) : s[n] = x
        /\ \A x : x \in ToSet(t) <=> \E n \in 1 .. Len(t) : t[n] = x
    BY <1>1 DEF ToSet
  <2>3. ASSUME NEW x \in ToSet(u) PROVE x \in ToSet(s) \cup ToSet(t)
    <3>1. PICK n \in 1 .. Len(u) : u[n] = x
      BY <2>1
    <3>2. QED BY <1>2, <2>2, <3>1
  <2>4. ASSUME NEW x \in ToSet(s) PROVE x \in ToSet(u)
    <3>1. PICK n \in 1 .. Len(s) : s[n] = x
      BY <2>2
    <3>2. QED BY <1>1, <1>3, <2>1, <3>1
  <2>5. ASSUME NEW x \in ToSet(t) PROVE x \in ToSet(u)
    <3>1. PICK n \in 1 .. Len(t) : t[n] = x
      BY <2>2
    <3>2. QED BY <1>1, <1>3, <2>1, <3>1
  <2>6. QED BY <2>3, <2>4, <2>5
<1>5. ASSUME Distinct(s), Distinct(t), ToSet(s) \cap ToSet(t) = {} PROVE Distinct(u)
  <2> SUFFICES ASSUME NEW m \in 1 .. Len(u), NEW n \in 1 .. Len(u), u[m] = u[n] PROVE m = n
    BY <1>1 DEF Distinct
  <2>1. /\ \A k \in 1 .. Len(s) : s[k] \in ToSet(s)
        /\ \A k \in 1 .. Len(t) : t[k] \in ToSet(t)
    BY <1>1 DEF ToSet
  <2>2. CASE m \in 1 .. Len(s) /\ n \in 1 .. Len(s)
    BY <1>1, <1>5, <2>2 DEF Distinct
  <2>3. CASE m \notin 1 .. Len(s) /\ n \notin 1 .. Len(s)
    <3>1. m - Len(s) = n - Len(s)
      <4>1. /\ m - Len(s) \in 1 .. Len(t) /\ n - Len(s) \in 1 .. Len(t)
            /\ t[m - Len(s)] = t[n - Len(s)]
        BY <1>2, <2>3
      <4>2. QED BY <1>1, <1>5, <4>1 DEF Distinct
    <3>2. QED BY <1>1, <3>1
  <2>4. CASE m \in 1 .. Len(s) /\ n \notin 1 .. Len(s)
    BY <1>1, <1>2, <1>5, <2>1, <2>4
  <2>5. CASE m \notin 1 .. Len(s) /\ n \in 1 .. Len(s)
    BY <1>1, <1>2, <1>5, <2>1, <2>5
  <2>6. QED BY <2>2, <2>3, <2>4, <2>5
<1>6. QED BY <1>1, <1>4, <1>5 DEF u

\* Min and Max of two integers.
LEMMA MinMaxOfTwo ==
    ASSUME NEW a \in Int, NEW b \in Int
    PROVE  /\ Min({a, b}) = IF a <= b THEN a ELSE b
           /\ Max({a, b}) = IF a >= b THEN a ELSE b
<1>1. Min({a, b}) = IF a <= b THEN a ELSE b
  <2>1. CASE a <= b
    <3>1. \A x \in {a, b} : (\A y \in {a, b} : x <= y) <=> x = a
      BY <2>1
    <3>2. QED BY <2>1, <3>1 DEF Min
  <2>2. CASE ~(a <= b)
    <3>1. \A x \in {a, b} : (\A y \in {a, b} : x <= y) <=> x = b
      BY <2>2
    <3>2. QED BY <2>2, <3>1 DEF Min
  <2>3. QED BY <2>1, <2>2
<1>2. Max({a, b}) = IF a >= b THEN a ELSE b
  <2>1. CASE a >= b
    <3>1. \A x \in {a, b} : (\A y \in {a, b} : x >= y) <=> x = a
      BY <2>1
    <3>2. QED BY <2>1, <3>1 DEF Max
  <2>2. CASE ~(a >= b)
    <3>1. \A x \in {a, b} : (\A y \in {a, b} : x >= y) <=> x = b
      BY <2>2
    <3>2. QED BY <2>2, <3>1 DEF Max
  <2>3. QED BY <2>1, <2>2
<1>3. QED BY <1>1, <1>2

\* The first ones of a sequence are a beginning of it.
LEMMA FirstOfShape ==
    ASSUME NEW A, NEW s \in Seq(A), NEW n \in Int
    PROVE  /\ FirstOf(s, n) \in Seq(A) /\ Len(FirstOf(s, n)) <= Len(s)
           /\ \A i \in 1 .. Len(FirstOf(s, n)) : FirstOf(s, n)[i] = s[i]
           /\ ToSet(FirstOf(s, n)) \subseteq ToSet(s)
           /\ Distinct(s) => Distinct(FirstOf(s, n))
<1> DEFINE k == Min({Len(s), Max({0, n})})
           f == SubSeq(s, 1, k)
<1>1. k \in 0 .. Len(s) /\ Len(s) \in Nat /\ DOMAIN s = 1 .. Len(s)
  <2>1. Max({0, n}) \in Nat
    <3>1. Max({0, n}) = IF 0 >= n THEN 0 ELSE n
      <4> DEFINE z == 0
      <4>1. z \in Int
        OBVIOUS
      <4> HIDE DEF z
      <4>2. Max({z, n}) = IF z >= n THEN z ELSE n
        BY <4>1, MinMaxOfTwo
      <4>3. QED BY <4>2 DEF z
    <3>2. QED BY <3>1
  <2> DEFINE x == Max({0, n})
  <2> HIDE DEF x
  <2>2. x \in Nat
    BY <2>1 DEF x
  <2>3. Min({Len(s), x}) = IF Len(s) <= x THEN Len(s) ELSE x
    BY <2>2, MinMaxOfTwo
  <2>4. QED BY <2>2, <2>3 DEF x
<1> HIDE DEF k
<1>2. f \in Seq(A) /\ Len(f) = k /\ DOMAIN f = 1 .. k /\ \A i \in 1 .. k : f[i] = s[i]
  BY <1>1
<1> HIDE DEF f
<1>3. ToSet(f) \subseteq ToSet(s)
  BY <1>1, <1>2 DEF ToSet
<1>4. Distinct(s) => Distinct(f)
  BY <1>1, <1>2 DEF Distinct
<1>5. FirstOf(s, n) = f
  BY DEF FirstOf, f, k
<1>6. QED BY <1>1, <1>2, <1>3, <1>4, <1>5

-----------------------------------------------------------------------------
(* What the heuristic is shown                                              *)

\* The fields of a task that the heuristic reads are instants.
LEMMA TaskFields ==
    ASSUME TypeOK, NEW i \in 1 .. Len(tasks)
    PROVE  /\ tasks[i] \in TaskRecord(Key)
           /\ tasks[i].start \in Nat \cup {NoTime} /\ tasks[i].start \in Int
           /\ tasks[i].end \in Nat \cup {NoTime} /\ tasks[i].end \in Int
           /\ tasks[i].deadline \in Nat \cup {NoTime} /\ tasks[i].deadline \in Int
           /\ tasks[i].lastTransitionAt \in Int /\ tasks[i].createdAt \in Nat
           /\ tasks[i].status \in Statuses
<1>1. tasks[i] \in TaskRecord(Key)
  BY DEF TypeOK
<1>2. QED BY <1>1 DEF TaskRecord, OptionalInstant, Instant, NoTime

\* The unfinished tasks are finitely many.
LEMMA UnfinishedFinite ==
    ASSUME TypeOK, NEW S \in SUBSET Unfinished
    PROVE  S \subseteq 1 .. Len(tasks) /\ S \subseteq Nat /\ IsFiniteSet(S)
<1>1. S \subseteq 1 .. Len(tasks) /\ Len(tasks) \in Nat
  BY DEF Unfinished, TypeOK
<1>2. IsFiniteSet(1 .. Len(tasks))
  BY <1>1, FS_Interval
<1>3. S \in SUBSET (1 .. Len(tasks))
  BY <1>1
<1>4. IsFiniteSet(S)
  BY <1>2, <1>3, FS_Subset
<1>5. QED BY <1>1, <1>4

\* Numbers are ordered by their size.
LEMMA AscendingOrders ==
    ASSUME NEW S \in SUBSET Nat
    PROVE  Orders(Ascending, S)
<1>1. \A x, y \in S : x \in Int /\ y \in Int /\ (<<x, y>> \in Ascending <=> x < y)
  BY DEF Ascending
<1>2. QED BY <1>1 DEF Orders

\* Pairs ordered by a measure first, and by themselves second.
LexOrder(S, f) ==
    {ij \in S \X S : f[ij[1]] < f[ij[2]] \/ (f[ij[1]] = f[ij[2]] /\ ij[1] < ij[2])}

\* ... are a strict total order.
LEMMA LexOrders ==
    ASSUME NEW S \in SUBSET Nat, NEW T \in SUBSET S, NEW f \in [S -> Int]
    PROVE  Orders(LexOrder(S, f), T)
<1>1. \A x, y \in T :
        /\ x \in Int /\ y \in Int /\ f[x] \in Int /\ f[y] \in Int
        /\ <<x, y>> \in LexOrder(S, f) <=> f[x] < f[y] \/ (f[x] = f[y] /\ x < y)
  <2> SUFFICES ASSUME NEW x \in T, NEW y \in T
               PROVE  /\ x \in Int /\ y \in Int /\ f[x] \in Int /\ f[y] \in Int
                      /\ <<x, y>> \in LexOrder(S, f) <=> f[x] < f[y] \/ (f[x] = f[y] /\ x < y)
    OBVIOUS
  <2>1. x \in S /\ y \in S /\ <<x, y>> \in S \X S /\ <<x, y>>[1] = x /\ <<x, y>>[2] = y
    OBVIOUS
  <2>2. QED BY <2>1 DEF LexOrder
<1>2. \A x \in T : <<x, x>> \notin LexOrder(S, f)
  BY <1>1
<1>3. \A x, y \in T : x # y => <<x, y>> \in LexOrder(S, f) \/ <<y, x>> \in LexOrder(S, f)
  BY <1>1
<1>4. ASSUME NEW x \in T, NEW y \in T, NEW z \in T,
             <<x, y>> \in LexOrder(S, f), <<y, z>> \in LexOrder(S, f)
      PROVE  <<x, z>> \in LexOrder(S, f)
  <2>1. f[x] < f[y] \/ (f[x] = f[y] /\ x < y)
    BY <1>1, <1>4
  <2>2. f[y] < f[z] \/ (f[y] = f[z] /\ y < z)
    BY <1>1, <1>4
  <2>3. f[x] < f[z] \/ (f[x] = f[z] /\ x < z)
    BY <1>1, <2>1, <2>2
  <2>4. QED BY <1>1, <2>3
<1>5. QED BY <1>2, <1>3, <1>4 DEF Orders

\* What the heuristic is shown (Agent._context): unfinished tasks, each once,
\* and all those the events are about.
LEMMA ContextShape ==
    ASSUME TypeOK, clock \in Nat, ended \in Seq(Nat)
    PROVE  /\ Context \in Seq(Unfinished) /\ Distinct(Context)
           /\ Unfinished \cap ToSet(ended) \subseteq ToSet(Context)
<1> DEFINE wanted == Unfinished \cap ToSet(ended)
           others == Unfinished \ wanted
           a == InOrder(wanted, Ascending)
           b == InOrder(others, Nearer)
           k == MaxContext - Cardinality(wanted)
<1>1. /\ wanted \in SUBSET Unfinished /\ others \in SUBSET Unfinished
      /\ wanted \cap others = {}
  OBVIOUS
<1>2. /\ IsFiniteSet(wanted) /\ IsFiniteSet(others)
      /\ wanted \in SUBSET Nat /\ others \in SUBSET Nat /\ Unfinished \in SUBSET Nat
      /\ Unfinished \subseteq 1 .. Len(tasks)
  BY <1>1, UnfinishedFinite
<1> HIDE DEF wanted, others
<1>3. a \in Seq(wanted) /\ Distinct(a) /\ ToSet(a) = wanted
  BY <1>2, AscendingOrders, InOrderShape
<1>4. b \in Seq(others) /\ Distinct(b) /\ ToSet(b) = others
  <2> DEFINE f == [i \in Unfinished |-> Nearness(i)]
  <2>1. f \in [Unfinished -> Int]
    <3>1. ASSUME NEW i \in Unfinished PROVE Nearness(i) \in Int
      BY <1>2, TaskFields DEF Nearness
    <3>2. QED BY <3>1
  <2>2. Nearer = LexOrder(Unfinished, f)
    <3>1. \A ij \in Unfinished \X Unfinished :
            ij[1] \in Unfinished /\ ij[2] \in Unfinished
            /\ f[ij[1]] = Nearness(ij[1]) /\ f[ij[2]] = Nearness(ij[2])
      OBVIOUS
    <3> HIDE DEF f
    <3>2. QED BY <3>1 DEF Nearer, LexOrder
  <2> HIDE DEF f
  <2>3. Orders(Nearer, others)
    BY <1>1, <1>2, <2>1, <2>2, LexOrders
  <2>4. QED BY <1>2, <2>3, InOrderShape
<1> HIDE DEF a, b
<1>5. k \in Int
  BY <1>2, FS_CardinalityType, AgentAssumption
<1> HIDE DEF k
<1>6. /\ FirstOf(b, k) \in Seq(others) /\ ToSet(FirstOf(b, k)) \subseteq others
      /\ Distinct(FirstOf(b, k))
  BY <1>4, <1>5, FirstOfShape
<1>7. a \in Seq(Unfinished) /\ FirstOf(b, k) \in Seq(Unfinished)
  BY <1>1, <1>3, <1>6
<1>8. ToSet(a) \cap ToSet(FirstOf(b, k)) = {}
  BY <1>1, <1>3, <1>6
<1>9. Context = a \o FirstOf(b, k)
  BY DEF Context, a, b, k, wanted, others
<1>10. QED BY <1>3, <1>6, <1>7, <1>8, <1>9, JoinedMembers DEF wanted

Picked(s, ps) == [n \in DOMAIN ps |-> s[ps[n]]]

IsPicked(w, A, s, P, ps) ==
    /\ w \in Seq(A) /\ Len(w) = Len(ps)
    /\ ToSet(w) = {s[n] : n \in P}
    /\ Distinct(s) => Distinct(w)

\* Picking the places of a sequence in an ascending order.
LEMMA PickedShape ==
    ASSUME NEW A, NEW s \in Seq(A), NEW P \in SUBSET DOMAIN s, NEW ps \in Seq(P),
           ToSet(ps) = P, Distinct(ps)
    PROVE  IsPicked(Picked(s, ps), A, s, P, ps)
<1> DEFINE w == [n \in DOMAIN ps |-> s[ps[n]]]
<1>1. DOMAIN ps = 1 .. Len(ps) /\ Len(ps) \in Nat /\ DOMAIN s = 1 .. Len(s)
      /\ \A n \in 1 .. Len(ps) : ps[n] \in P /\ ps[n] \in DOMAIN s /\ s[ps[n]] \in A
  OBVIOUS
<1>2. w \in Seq(A) /\ Len(w) = Len(ps) /\ DOMAIN w = 1 .. Len(ps)
      /\ \A n \in 1 .. Len(ps) : w[n] = s[ps[n]]
  BY <1>1
<1> HIDE DEF w
<1>3. ToSet(w) = {s[n] : n \in P}
  <2>1. \A n \in P : \E k \in 1 .. Len(ps) : ps[k] = n
    BY <1>1 DEF ToSet
  <2>2. QED BY <1>1, <1>2, <2>1 DEF ToSet
<1>4. Distinct(s) => Distinct(w)
  BY <1>1, <1>2 DEF Distinct
<1>5. IsPicked(w, A, s, P, ps)
  BY <1>2, <1>3, <1>4 DEF IsPicked
<1>6. QED BY <1>5 DEF w, Picked

\* The events the heuristic handles: those of a task it is shown.
LEMMA HandledShape ==
    ASSUME ended \in Seq(Nat), NEW context
    PROVE  /\ Handled(context) \in Seq(Nat)
           /\ ToSet(Handled(context)) = ToSet(ended) \cap ToSet(context)
           /\ Distinct(ended) => Distinct(Handled(context))
<1> DEFINE P == {n \in DOMAIN ended : ended[n] \in ToSet(context)}
           ps == InOrder(P, Ascending)
<1>1. DOMAIN ended = 1 .. Len(ended) /\ Len(ended) \in Nat /\ IsFiniteSet(1 .. Len(ended))
  BY FS_Interval
<1>2. P \in SUBSET (1 .. Len(ended)) /\ P \in SUBSET Nat
  BY <1>1
<1>3. IsFiniteSet(P) /\ P \in SUBSET DOMAIN ended
  BY <1>1, <1>2, FS_Subset
<1>4. {ended[n] : n \in P} = ToSet(ended) \cap ToSet(context)
  BY DEF ToSet
<1> HIDE DEF P
<1>5. ps \in Seq(P) /\ ToSet(ps) = P /\ Distinct(ps)
  BY <1>2, <1>3, AscendingOrders, InOrderShape
<1>6. Handled(context) = Picked(ended, ps)
  BY DEF Handled, ps, P, Picked
<1> HIDE DEF ps
<1>7. /\ Picked(ended, ps) \in Seq(Nat)
      /\ ToSet(Picked(ended, ps)) = {ended[n] : n \in P}
      /\ Distinct(ended) => Distinct(Picked(ended, ps))
  <2>1. IsPicked(Picked(ended, ps), Nat, ended, P, ps)
    BY <1>3, <1>5, PickedShape
  <2>2. QED BY <2>1 DEF IsPicked
<1>8. QED BY <1>4, <1>6, <1>7

\* Yesterday's unfinished work comes in the order in which it was due.
LEMMA StaleShape ==
    ASSUME TypeOK, NEW context \in Seq(Unfinished), Distinct(context), NEW handled
    PROVE  LET w == StaleWork(context, handled) IN
           /\ w \in Seq(Unfinished) /\ Distinct(w)
           /\ \A n \in 1 .. Len(w) : w[n] \notin handled /\ tasks[w[n]].status = "WINDOW_ENDED"
           /\ \A m, n \in 1 .. Len(w) : m < n => tasks[w[m]].end <= tasks[w[n]].end
<1> DEFINE stale == {n \in DOMAIN context :
                       /\ context[n] \notin handled
                       /\ tasks[context[n]].status = "WINDOW_ENDED"
                       /\ DateOf(tasks[context[n]].end) < DateOf(clock)}
           due == [n \in stale |-> tasks[context[n]].end]
           order == {mn \in stale \X stale :
                       \/ tasks[context[mn[1]]].end < tasks[context[mn[2]]].end
                       \/ tasks[context[mn[1]]].end = tasks[context[mn[2]]].end /\ mn[1] < mn[2]}
           ps == InOrder(stale, order)
<1>1. DOMAIN context = 1 .. Len(context) /\ Len(context) \in Nat /\ IsFiniteSet(1 .. Len(context))
  BY FS_Interval
<1>2. stale \in SUBSET (1 .. Len(context)) /\ stale \in SUBSET Nat /\ stale \in SUBSET DOMAIN context
  BY <1>1
<1>3. IsFiniteSet(stale)
  BY <1>1, <1>2, FS_Subset
<1>4. \A n \in stale :
        context[n] \notin handled /\ tasks[context[n]].status = "WINDOW_ENDED"
  OBVIOUS
<1>5. StaleWork(context, handled) = [n \in DOMAIN ps |-> context[ps[n]]]
  BY DEF StaleWork
<1> HIDE DEF stale
<1>6. due \in [stale -> Int]
  <2>1. ASSUME NEW n \in stale PROVE tasks[context[n]].end \in Int
    <3>1. context[n] \in 1 .. Len(tasks)
      BY <1>1, <1>2, UnfinishedFinite
    <3>2. QED BY <3>1, TaskFields
  <2>2. QED BY <2>1
<1>7. order = LexOrder(stale, due)
  <2>1. \A mn \in stale \X stale :
          /\ mn[1] \in stale /\ mn[2] \in stale
          /\ due[mn[1]] = tasks[context[mn[1]]].end /\ due[mn[2]] = tasks[context[mn[2]]].end
    OBVIOUS
  <2> HIDE DEF due
  <2>2. QED BY <2>1 DEF LexOrder
<1>8. \A n \in stale : due[n] = tasks[context[n]].end
  OBVIOUS
<1> HIDE DEF due, order
<1>9. Orders(order, stale)
  BY <1>2, <1>6, <1>7, LexOrders
<1>10. ps \in Seq(stale) /\ ToSet(ps) = stale /\ Distinct(ps) /\ Sorted(ps, order)
  BY <1>3, <1>9, InOrderShape
<1> HIDE DEF ps
<1> DEFINE w == Picked(context, ps)
<1>11. w \in Seq(Unfinished) /\ Len(w) = Len(ps) /\ Distinct(w)
  <2>1. IsPicked(w, Unfinished, context, stale, ps)
    BY <1>2, <1>10, PickedShape
  <2>2. QED BY <2>1 DEF IsPicked
<1>12. /\ DOMAIN ps = 1 .. Len(ps)
       /\ \A n \in 1 .. Len(ps) : w[n] = context[ps[n]] /\ ps[n] \in stale
  BY <1>10 DEF Picked
<1> HIDE DEF w
<1>13. \A n \in 1 .. Len(w) : w[n] \notin handled /\ tasks[w[n]].status = "WINDOW_ENDED"
  BY <1>4, <1>11, <1>12
<1>14. ASSUME NEW m \in 1 .. Len(w), NEW n \in 1 .. Len(w), m < n
       PROVE  tasks[w[m]].end <= tasks[w[n]].end
  <2>1. <<ps[m], ps[n]>> \in LexOrder(stale, due) /\ ps[m] \in stale /\ ps[n] \in stale
    BY <1>7, <1>10, <1>11, <1>12, <1>14 DEF Sorted
  <2>2. due[ps[m]] <= due[ps[n]]
    <3>1. due[ps[m]] \in Int /\ due[ps[n]] \in Int
      BY <1>6, <2>1
    <3>2. due[ps[m]] < due[ps[n]] \/ due[ps[m]] = due[ps[n]]
      BY <2>1 DEF LexOrder
    <3>3. QED BY <3>1, <3>2
  <2>3. QED BY <1>8, <1>11, <1>12, <2>1, <2>2
<1>15. QED BY <1>5, <1>11, <1>13, <1>14 DEF w, Picked

-----------------------------------------------------------------------------
(* What the heuristic answers                                               *)

MoveProposal ==
    [action : {"reschedule_task", "carry_forward_task"}, task : Nat, start : Nat, end : Nat,
     reason : {"slack", "no slack", "yesterday"}]

\* A day's midnight is after every instant of the day, and so is the next morning.
LEMMA DayBounds ==
    ASSUME NEW t \in Nat
    PROVE  /\ DateOf(t) \in Nat /\ Midnight(t) \in Nat /\ t < Midnight(t)
           /\ Morning(DateOf(t)) \in Nat
           /\ Morning(DateOf(t) + 1) \in Nat /\ t < Morning(DateOf(t) + 1)
<1>1. DayLength \in Nat /\ DayLength > 0 /\ NineOClock \in Nat
  BY DayAssumption
<1>2. /\ t = DayLength * (t \div DayLength) + (t % DayLength)
      /\ t % DayLength \in 0 .. DayLength - 1 /\ t \div DayLength \in Int
  BY <1>1
<1>3. t \div DayLength >= 0
  BY <1>1, <1>2
<1> DEFINE d == t \div DayLength
<1>4. /\ d \in Nat /\ (d + 1) * DayLength \in Nat /\ d * DayLength \in Nat
      /\ (d + 1) * DayLength = DayLength * d + DayLength
  BY <1>1, <1>2, <1>3
<1>5. DateOf(t) = d /\ Midnight(t) = (d + 1) * DayLength
      /\ Morning(d) = d * DayLength + NineOClock
      /\ Morning(d + 1) = (d + 1) * DayLength + NineOClock
  BY DEF DateOf, Midnight, Morning
<1>6. t < (d + 1) * DayLength
  BY <1>1, <1>2, <1>4
<1> HIDE DEF d
<1>7. QED BY <1>1, <1>4, <1>5, <1>6

\* An unfinished task with an end has a window.
LEMMA WindowOf ==
    ASSUME TypeOK, StatusIsJustified, NEW i \in Unfinished, tasks[i].end # NoTime
    PROVE  /\ i \in 1 .. Len(tasks) /\ tasks[i].start \in Nat /\ tasks[i].end \in Nat
           /\ tasks[i].start < tasks[i].end
           /\ Duration(i) \in Nat /\ Duration(i) > 0
<1>1. i \in 1 .. Len(tasks) /\ ~IsTerminal(tasks[i])
  BY DEF Unfinished, TypeOK
<1>2. /\ tasks[i].start \in Nat \cup {NoTime} /\ tasks[i].end \in Nat \cup {NoTime}
      /\ tasks[i].status \in Statuses
  BY <1>1, TaskFields
<1>3. tasks[i].status \in LiveStatuses
  BY <1>1, <1>2 DEF IsTerminal, Statuses
<1>4. ValidSchedule(tasks[i].start, tasks[i].end, tasks[i].deadline)
  BY <1>1, <1>3 DEF StatusIsJustified, TypeOK
<1>5. tasks[i].start \in Nat /\ tasks[i].end \in Nat /\ tasks[i].start < tasks[i].end
  BY <1>2, <1>4 DEF ValidSchedule
<1>6. QED BY <1>1, <1>5 DEF Duration

\* The slack ends at midnight or before.
LEMMA SlackType ==
    ASSUME TypeOK, clock \in Nat, NEW context \in Seq(Unfinished)
    PROVE  Slack(context) \in Int
<1> DEFINE remaining == {tasks[j].start : j \in
              {j \in ToSet(context) : /\ tasks[j].status = "SCHEDULED"
                                      /\ tasks[j].start > clock
                                      /\ DateOf(tasks[j].start) = DateOf(clock)}}
           X == {Midnight(clock)} \cup remaining
<1>1. remaining \subseteq Nat
  <2>1. ASSUME NEW j \in ToSet(context), tasks[j].start > clock PROVE tasks[j].start \in Nat
    <3>1. j \in 1 .. Len(tasks)
      BY UnfinishedFinite DEF ToSet
    <3>2. tasks[j].start \in Int
      BY <3>1, TaskFields
    <3>3. QED BY <2>1, <3>2
  <2>2. QED BY <2>1
<1> HIDE DEF remaining
<1>2. X \in SUBSET Nat /\ X # {}
  BY <1>1, DayBounds
<1>3. Slack(context) = Min(X) - clock
  BY DEF Slack, remaining
<1> HIDE DEF X
<1>4. \E n \in X : \A m \in X : n <= m
  BY <1>2, LeastExists
<1>5. Min(X) \in X
  BY <1>4 DEF Min
<1> DEFINE x == Min(X)
<1>6. x \in Nat
  BY <1>2, <1>5
<1> HIDE DEF x
<1>7. x - clock \in Int
  BY <1>6
<1>8. QED BY <1>3, <1>7 DEF x

\* A window that ended is put into the slack or off until the next morning, and
\* never into the past; it keeps a positive length.
LEMMA WindowEndedShape ==
    ASSUME TypeOK, StatusIsJustified, clock \in Nat, NEW context \in Seq(Unfinished),
           NEW i \in Unfinished, tasks[i].end # NoTime
    PROVE  LET p == HandleWindowEnded(context, i) IN
           /\ p \in MoveProposal /\ p.task = i /\ p.reason # "yesterday"
           /\ clock <= p.start /\ p.start < p.end
<1>1. i \in Nat /\ Duration(i) \in Nat /\ Duration(i) > 0
  BY WindowOf
<1>2. Slack(context) \in Int /\ HalfHour \in Nat
  BY SlackType, DayAssumption
<1>3. CASE Slack(context) > HalfHour
  <2> DEFINE slack == Slack(context)
             duration == Duration(i)
             length == Min({duration, slack})
  <2>1. HandleWindowEnded(context, i) = Proposal("reschedule_task", i, clock, clock + length, "slack")
    BY <1>3 DEF HandleWindowEnded, Squeezed
  <2> HIDE DEF slack, duration
  <2>2. duration \in Int /\ slack \in Int
    BY <1>1, <1>2 DEF duration, slack
  <2>3. length = IF duration <= slack THEN duration ELSE slack
    BY <2>2, MinMaxOfTwo
  <2> HIDE DEF length
  <2>4. length \in Nat /\ length > 0
    BY <1>1, <1>2, <1>3, <2>3 DEF duration, slack
  <2> DEFINE e == clock + length
  <2>5. e \in Nat /\ clock < e
    BY <2>4
  <2> HIDE DEF e
  <2>6. HandleWindowEnded(context, i) = Proposal("reschedule_task", i, clock, e, "slack")
    BY <2>1 DEF e
  <2> DEFINE p == Proposal("reschedule_task", i, clock, e, "slack")
  <2>7. /\ p \in MoveProposal /\ p.task = i /\ p.reason = "slack"
        /\ p.start = clock /\ p.end = e
    BY <1>1, <2>5 DEF Proposal, MoveProposal
  <2> HIDE DEF p
  <2>8. clock <= p.start /\ p.start < p.end /\ p.reason # "yesterday"
    <3>1. clock <= clock
      OBVIOUS
    <3>2. clock <= p.start /\ p.start < p.end
      BY <2>5, <2>7, <3>1
    <3>3. p.reason # "yesterday"
      BY <2>7
    <3>4. QED BY <3>2, <3>3
  <2>9. QED BY <2>6, <2>7, <2>8 DEF p
<1>4. CASE ~(Slack(context) > HalfHour)
  <2> DEFINE nine == Morning(DateOf(clock) + 1)
             e == nine + Duration(i)
  <2>1. HandleWindowEnded(context, i) = Proposal("carry_forward_task", i, nine, e, "no slack")
    BY <1>4 DEF HandleWindowEnded, PutOff
  <2>2. nine \in Nat /\ clock < nine
    BY DayBounds
  <2> HIDE DEF nine
  <2>3. e \in Nat /\ nine < e
    BY <1>1, <2>2
  <2> HIDE DEF e
  <2> DEFINE p == Proposal("carry_forward_task", i, nine, e, "no slack")
  <2>4. /\ p \in MoveProposal /\ p.task = i /\ p.reason = "no slack"
        /\ p.start = nine /\ p.end = e
    BY <1>1, <2>2, <2>3 DEF Proposal, MoveProposal
  <2> HIDE DEF p
  <2>5. clock <= p.start /\ p.start < p.end /\ p.reason # "yesterday"
    <3>1. clock <= nine
      BY <2>2
    <3>2. clock <= p.start /\ p.start < p.end
      BY <2>3, <2>4, <3>1
    <3>3. p.reason # "yesterday"
      BY <2>4
    <3>4. QED BY <3>2, <3>3
  <2>6. QED BY <2>1, <2>4, <2>5 DEF p
<1>5. QED BY <1>3, <1>4

\* The new day's moves: one after the other, in the order in which the work was due.
Stacks(c) ==
    \A n \in 1 .. Len(c) : \A m \in 1 .. n - 1 :
        /\ c[m].end <= c[n].start
        /\ tasks[c[m].task].end <= tasks[c[n].task].end
        /\ c[m].task # c[n].task

StackRecord == [cursor : Nat, calls : Seq(MoveProposal)]

\* A move of one of the first k pieces of work, that is over before the cursor.
BeforeCursor(p, cursor, work, k) ==
    /\ p.reason = "yesterday" /\ clock <= p.start /\ p.start < p.end /\ p.end <= cursor
    /\ \E j \in 1 .. k : work[j] = p.task

StackGood(s, work, k) ==
    /\ clock <= s.cursor
    /\ \A n \in 1 .. Len(s.calls) : BeforeCursor(s.calls[n], s.cursor, work, k)
    /\ Stacks(s.calls)

\* Work that can be stacked: unfinished, over, in the order in which it was due.
Stackable(work) ==
    /\ work \in Seq(Unfinished) /\ Distinct(work)
    /\ \A n \in 1 .. Len(work) : tasks[work[n]].status = "WINDOW_ENDED"
    /\ \A m, n \in 1 .. Len(work) : m < n => tasks[work[m]].end <= tasks[work[n]].end

\* A window that ended has an end.
LEMMA EndedHasEnd ==
    ASSUME TypeOK, StatusIsJustified, NEW i \in Unfinished, tasks[i].status = "WINDOW_ENDED"
    PROVE  /\ tasks[i].end # NoTime /\ tasks[i].end <= tasks[i].lastTransitionAt
           /\ Duration(i) \in Nat /\ Duration(i) > 0
<1>1. i \in DOMAIN tasks
  BY DEF Unfinished
<1>2. Reached(tasks[i].end, tasks[i].lastTransitionAt)
  BY <1>1 DEF StatusIsJustified
<1>3. tasks[i].end # NoTime /\ tasks[i].end <= tasks[i].lastTransitionAt
  <2>1. tasks[i].end \in Int /\ tasks[i].lastTransitionAt \in Int
    BY <1>1, TaskFields DEF TypeOK
  <2>2. QED BY <1>2, <2>1 DEF Reached
<1>4. QED BY <1>3, WindowOf

\* Putting one more piece of work on the stack keeps it a stack.
LEMMA StackedGood ==
    ASSUME TypeOK, StatusIsJustified, clock \in Nat, NEW work, Stackable(work),
           NEW k \in 1 .. Len(work), NEW s \in StackRecord, StackGood(s, work, k - 1)
    PROVE  Stacked(s, work[k]) \in StackRecord /\ StackGood(Stacked(s, work[k]), work, k)
<1> DEFINE i == work[k]
           c == s.calls
           e == s.cursor + Duration(i)
           new == Proposal("carry_forward_task", i, s.cursor, e, "yesterday")
           d == Append(c, new)
           t == [cursor |-> e, calls |-> d]
<1>1. /\ work \in Seq(Unfinished) /\ Len(work) \in Nat /\ i \in Unfinished /\ i \in Nat
      /\ tasks[i].status = "WINDOW_ENDED"
      /\ s.cursor \in Nat /\ c \in Seq(MoveProposal) /\ Len(c) \in Nat /\ clock <= s.cursor
  <2>1. work \in Seq(Unfinished) /\ Len(work) \in Nat /\ i \in Unfinished
        /\ tasks[i].status = "WINDOW_ENDED"
    BY DEF Stackable
  <2>2. i \in Nat
    BY <2>1, UnfinishedFinite
  <2>3. s.cursor \in Nat /\ c \in Seq(MoveProposal) /\ Len(c) \in Nat
    BY DEF StackRecord
  <2>4. clock <= s.cursor
    BY DEF StackGood
  <2>5. QED BY <2>1, <2>2, <2>3, <2>4
<1>2. Duration(i) \in Nat /\ Duration(i) > 0
  BY <1>1, EndedHasEnd
<1>3. e \in Nat /\ s.cursor < e
  BY <1>1, <1>2
<1>4. Stacked(s, i) = s \/ Stacked(s, i) = t
  BY DEF Stacked
<1>5. StackGood(s, work, k)
  <2>1. ASSUME NEW n \in 1 .. Len(c) PROVE BeforeCursor(c[n], s.cursor, work, k)
    <3>1. BeforeCursor(c[n], s.cursor, work, k - 1)
      BY DEF StackGood
    <3>2. \A j \in 1 .. k - 1 : j \in 1 .. k
      OBVIOUS
    <3>3. QED BY <3>1, <3>2 DEF BeforeCursor
  <2>2. QED BY <2>1 DEF StackGood
<1> HIDE DEF e
<1>6. /\ new \in MoveProposal /\ new.reason = "yesterday" /\ new.task = i
      /\ new.start = s.cursor /\ new.end = e
  BY <1>1, <1>3 DEF Proposal, MoveProposal
<1> HIDE DEF new
<1>7. /\ d \in Seq(MoveProposal) /\ Len(d) = Len(c) + 1
      /\ \A n \in 1 .. Len(c) : d[n] = c[n]
      /\ d[Len(c) + 1] = new
  BY <1>1, <1>6
<1> HIDE DEF d
<1>8. t \in StackRecord /\ t.cursor = e /\ t.calls = d
  BY <1>3, <1>7 DEF StackRecord
<1> HIDE DEF t
<1>9. \A n \in 1 .. Len(d) : n \in 1 .. Len(c) \/ n = Len(c) + 1
  BY <1>1, <1>7
<1>10. ASSUME NEW n \in 1 .. Len(d) PROVE BeforeCursor(d[n], e, work, k)
  <2>1. CASE n \in 1 .. Len(c)
    <3>1. BeforeCursor(c[n], s.cursor, work, k) /\ c[n] \in MoveProposal
      BY <1>1, <1>5, <2>1 DEF StackGood
    <3>2. c[n].end \in Nat
      BY <3>1 DEF MoveProposal
    <3>3. c[n].end <= s.cursor
      BY <3>1 DEF BeforeCursor
    <3>4. c[n].end <= e
      <4> DEFINE x == c[n].end
                 y == s.cursor
      <4>1. x \in Nat /\ y \in Nat /\ e \in Nat /\ x <= y /\ y < e
        BY <1>1, <1>3, <3>2, <3>3
      <4> HIDE DEF x, y
      <4>2. x <= e
        BY <4>1
      <4>3. QED BY <4>2 DEF x
    <3>5. QED BY <1>7, <2>1, <3>1, <3>4 DEF BeforeCursor
  <2>2. CASE n = Len(c) + 1
    <3>1. k \in 1 .. k /\ e <= e
      BY <1>1, <1>3
    <3>2. clock <= new.start /\ new.start < new.end /\ new.end <= e
      BY <1>1, <1>3, <1>6, <3>1
    <3>3. QED BY <1>6, <1>7, <2>2, <3>1, <3>2 DEF BeforeCursor
  <2>3. QED BY <1>9, <2>1, <2>2
<1>11. ASSUME NEW n \in 1 .. Len(d), NEW m \in 1 .. n - 1
       PROVE  /\ d[m].end <= d[n].start
              /\ tasks[d[m].task].end <= tasks[d[n].task].end
              /\ d[m].task # d[n].task
  <2>1. CASE n \in 1 .. Len(c)
    <3>1. m \in 1 .. Len(c)
      BY <1>1, <2>1
    <3>2. d[n] = c[n] /\ d[m] = c[m]
      BY <1>7, <2>1, <3>1
    <3>3. /\ c[m].end <= c[n].start
          /\ tasks[c[m].task].end <= tasks[c[n].task].end
          /\ c[m].task # c[n].task
      BY <2>1 DEF StackGood, Stacks
    <3>4. QED BY <3>2, <3>3
  <2>2. CASE n = Len(c) + 1
    <3>1. m \in 1 .. Len(c)
      BY <1>1, <2>2
    <3>2. d[n] = new /\ d[m] = c[m] /\ BeforeCursor(c[m], s.cursor, work, k - 1)
      BY <1>7, <2>2, <3>1 DEF StackGood
    <3>3. PICK j \in 1 .. k - 1 : work[j] = c[m].task
      BY <3>2 DEF BeforeCursor
    <3>4. j \in 1 .. Len(work) /\ j < k
      BY <1>1
    <3>5. tasks[work[j]].end <= tasks[i].end /\ work[j] # i
      <4>1. DOMAIN work = 1 .. Len(work)
        BY <1>1
      <4>2. j # k
        BY <3>4
      <4>3. QED BY <3>4, <4>1, <4>2 DEF Stackable, Distinct
    <3>6. c[m].end <= s.cursor
      BY <3>2 DEF BeforeCursor
    <3>7. QED BY <1>6, <3>2, <3>3, <3>5, <3>6
  <2>3. QED BY <1>9, <2>1, <2>2
<1>12. clock <= e
  BY <1>1, <1>3
<1>13. StackGood(t, work, k)
  BY <1>8, <1>10, <1>11, <1>12 DEF StackGood, Stacks
<1>14. QED BY <1>4, <1>5, <1>8, <1>13

\* The stack of the new day's moves.
LEMMA StackShape ==
    ASSUME TypeOK, StatusIsJustified, clock \in Nat, NEW work, Stackable(work)
    PROVE  StackOf(work) \in StackRecord /\ StackGood(StackOf(work), work, Len(work))
<1> DEFINE N == Len(work)
           base == [cursor |-> Max({clock, Morning(DateOf(clock))}), calls |-> <<>>]
           Steps(g) == g = [n \in 0 .. N |-> IF n = 0 THEN base ELSE Stacked(g[n - 1], work[n])]
           g == CHOOSE h : Steps(h)
           G == {s \in StackRecord : clock <= s.cursor}
           step == [n \in 1 .. N |-> [s \in StackRecord |-> Stacked(s, work[n])]]
<1>1. N \in Nat /\ \A n \in 1 .. N : work[n] \in Unfinished /\ tasks[work[n]].status = "WINDOW_ENDED"
  BY DEF Stackable
<1>2. base \in StackRecord /\ StackGood(base, work, 0)
  <2> DEFINE a == Morning(DateOf(clock))
  <2>1. a \in Nat /\ DateOf(clock) \in Nat
    BY DayBounds
  <2> HIDE DEF a
  <2>2. Max({clock, a}) = IF clock >= a THEN clock ELSE a
    BY <2>1, MinMaxOfTwo
  <2>3. Max({clock, a}) \in Nat /\ clock <= Max({clock, a})
    <3> DEFINE x == Max({clock, a})
    <3>1. x = IF clock >= a THEN clock ELSE a
      BY <2>2
    <3> HIDE DEF x
    <3>2. x \in Nat /\ clock <= x
      BY <2>1, <3>1
    <3>3. QED BY <3>2 DEF x
  <2>4. base.calls = <<>> /\ Len(<<>>) = 0 /\ base.cursor = Max({clock, a})
    BY DEF a
  <2>5. base \in StackRecord
    BY <2>3 DEF StackRecord, a
  <2> HIDE DEF base
  <2>6. 1 .. Len(base.calls) = {}
    BY <2>4
  <2>7. QED BY <2>3, <2>4, <2>5, <2>6 DEF StackGood, Stacks
<1>3. step \in [1 .. N -> [StackRecord -> StackRecord]]
  <2>1. ASSUME NEW n \in 1 .. N, NEW s \in StackRecord PROVE Stacked(s, work[n]) \in StackRecord
    <3> DEFINE i == work[n]
               e == s.cursor + Duration(i)
               new == Proposal("carry_forward_task", i, s.cursor, e, "yesterday")
               d == Append(s.calls, new)
    <3>1. /\ i \in Unfinished /\ i \in Nat /\ s.cursor \in Nat /\ s.calls \in Seq(MoveProposal)
          /\ tasks[i].status = "WINDOW_ENDED"
      BY <1>1, UnfinishedFinite DEF StackRecord
    <3>2. Duration(i) \in Nat
      BY <3>1, EndedHasEnd
    <3>3. e \in Nat
      BY <3>1, <3>2
    <3>4. Stacked(s, i) = s \/ Stacked(s, i) = [cursor |-> e, calls |-> d]
      BY DEF Stacked
    <3> HIDE DEF e
    <3>5. new \in MoveProposal
      BY <3>1, <3>3 DEF Proposal, MoveProposal
    <3> HIDE DEF new
    <3>6. d \in Seq(MoveProposal)
      BY <3>1, <3>5
    <3> HIDE DEF d
    <3>7. [cursor |-> e, calls |-> d] \in StackRecord
      BY <3>3, <3>6 DEF StackRecord
    <3>8. QED BY <3>4, <3>7
  <2>2. QED BY <2>1
<1>4. PICK f \in [0 .. N -> StackRecord] : Iterates(f, base, N, step)
  <2> HIDE DEF step, N, base
  <2>1. QED BY <1>1, <1>2, <1>3, IterationExists
<1>5. f[0] = base /\ \A n \in 1 .. N : f[n] = Stacked(f[n - 1], work[n])
  <2>1. f[0] = base
    BY <1>4 DEF Iterates
  <2>2. ASSUME NEW n \in 1 .. N PROVE f[n] = Stacked(f[n - 1], work[n])
    <3>1. n - 1 \in 0 .. N
      BY <1>1
    <3>2. f[n - 1] \in StackRecord
      <4> HIDE DEF N, base
      <4>1. QED BY <1>4, <3>1
    <3>3. QED BY <1>4, <3>2 DEF Iterates
  <2>3. QED BY <2>1, <2>2
<1> HIDE DEF step, N, base
<1>6. Steps(f)
  <2> DEFINE h == [n \in 0 .. N |-> IF n = 0 THEN base ELSE Stacked(f[n - 1], work[n])]
  <2>1. ASSUME NEW n \in 0 .. N PROVE f[n] = h[n]
    <3>1. CASE n = 0
      BY <1>5, <3>1
    <3>2. CASE n # 0
      <4>1. n \in 1 .. N
        BY <1>1, <3>2
      <4>2. QED BY <1>5, <3>2, <4>1
    <3>3. QED BY <3>1, <3>2
  <2>2. DOMAIN f = DOMAIN h
    BY <1>4
  <2>3. f = h
    BY <1>4, <2>1
  <2>4. QED BY <2>3
<1>7. Steps(g)
  <2> HIDE DEF Steps
  <2>1. QED BY <1>6
<1> HIDE DEF g
<1>8. AreAlike(f, g, N)
  <2> DEFINE h == [n \in 0 .. N |-> IF n = 0 THEN base ELSE Stacked(g[n - 1], work[n])]
  <2>1. g = h
    BY <1>7
  <2>2. h[0] = base /\ \A n \in 1 .. N : h[n] = Stacked(g[n - 1], work[n])
    BY <1>1
  <2> HIDE DEF h
  <2>3. g[0] = base /\ \A n \in 1 .. N : g[n] = Stacked(g[n - 1], work[n])
    BY <2>1, <2>2
  <2>4. GoAlike(f, g, N)
    BY <1>5, <2>3 DEF GoAlike
  <2>5. QED BY <1>1, <2>4, IterationUnique
<1>9. StackOf(work) = f[N]
  <2>1. StackOf(work) = g[N]
    BY DEF StackOf, g, N, base
  <2>2. N \in 0 .. N
    BY <1>1
  <2>3. QED BY <1>8, <2>1, <2>2 DEF AreAlike
<1> DEFINE T == {n \in 0 .. N : StackGood(f[n], work, n)}
<1>10. 0 \in T
  BY <1>1, <1>2, <1>5
<1>11. ASSUME NEW n \in 0 .. N - 1, n \in T PROVE n + 1 \in T
  <2>1. n + 1 \in 1 .. N /\ n + 1 - 1 = n /\ n + 1 \in 0 .. N /\ n \in 0 .. N
    BY <1>1
  <2>2. f[n] \in StackRecord /\ StackGood(f[n], work, n + 1 - 1)
    BY <1>4, <1>11, <2>1
  <2>3. f[n + 1] = Stacked(f[n], work[n + 1])
    BY <1>5, <2>1
  <2>4. StackGood(Stacked(f[n], work[n + 1]), work, n + 1)
    BY <2>1, <2>2, StackedGood DEF N
  <2>5. QED BY <2>1, <2>3, <2>4
<1> HIDE DEF T
<1>12. \A n \in 0 .. N : n \in T
  BY <1>1, <1>10, <1>11, Induction
<1>13. StackGood(f[N], work, N) /\ f[N] \in StackRecord
  BY <1>1, <1>4, <1>12 DEF T
<1>14. QED BY <1>9, <1>13 DEF N

-----------------------------------------------------------------------------
(* The invariant                                                            *)

\* The clock does not go back, an answer is fresh at the instant it was asked
\* for only, and nothing is planned before the agent is started.
LoopTyped ==
    /\ clock \in Nat /\ asked \in Nat /\ asked <= clock
    /\ newDay \in BOOLEAN /\ fresh \in BOOLEAN /\ enabled \in BOOLEAN
    /\ ended \in Seq(Nat) /\ plan \in Seq(MoveProposal)
    /\ fresh => asked = clock
    /\ ~enabled => plan = <<>>

Early == {"CREATED", "SCHEDULED", "ACTIVE"}

HasEnded(i) ==
    /\ i \in 1 .. Len(tasks)
    /\ tasks[i].end # NoTime /\ tasks[i].end <= clock
    /\ tasks[i].status \notin Early

\* The events that wait for the agent are about windows that ended, each once.
EndedInv ==
    /\ \A i \in ToSet(ended) : HasEnded(i)
    /\ Distinct(ended)

\* Who was created by a move at the instant at which the moved task had itself
\* been created has a window that ends later.
IsChild(i, p) ==
    /\ tasks[i].createdAt = tasks[p].lastTransitionAt
    /\ tasks[p].createdAt = tasks[p].lastTransitionAt => tasks[p].lastTransitionAt < tasks[i].end

\* Nothing is dated in the future; a task is moved when its window has ended,
\* and replaced at that instant, and older versions were moved before it was made.
DatesHold ==
    /\ \A i \in 1 .. Len(tasks) :
          tasks[i].createdAt <= clock /\ tasks[i].lastTransitionAt <= clock
    /\ \A i \in 1 .. Len(tasks) : IsMoved(tasks[i]) => tasks[i].end <= tasks[i].lastTransitionAt
    /\ \A i \in 1 .. Len(tasks) : tasks[i].carriedFrom # NoTask => IsChild(i, tasks[i].carriedFrom)
    /\ \A i \in 1 .. Len(tasks) : \A j \in Ancestors(tasks, i) :
          tasks[j].lastTransitionAt <= tasks[i].createdAt

\* A move is into the future, as it was when the heuristic was asked, and of a
\* task whose window had ended by then.
PlannedMove(p) ==
    /\ p.task \in 1 .. Len(tasks)
    /\ tasks[p.task].end <= asked /\ tasks[p.task].createdAt <= asked
    /\ asked <= p.start /\ p.start < p.end

DistinctTasks(c) == \A m, n \in 1 .. Len(c) : c[m].task = c[n].task => m = n

PlanInv ==
    /\ \A n \in 1 .. Len(plan) : PlannedMove(plan[n])
    /\ DistinctTasks(plan)
    /\ fresh => \A n \in 1 .. Len(plan) : ~IsTerminal(tasks[plan[n].task])

\* Every window that ended is somewhere: in an event, in the plan, or among
\* those that were not moved.
Accounted(i) == i \in unmoved \/ i \in ToSet(ended) \/ \E n \in 1 .. Len(plan) : plan[n].task = i

AccountInv ==
    enabled => \A i \in 1 .. Len(tasks) : tasks[i].status = "WINDOW_ENDED" => Accounted(i)

EngineHolds == TypeOK /\ StatusIsJustified /\ LineageIsAChain

\* The carried work of a plan is in order.
InMorningOrder(c) ==
    \A n \in 1 .. Len(c) : c[n].reason = "yesterday" =>
        \A m \in 1 .. n - 1 : c[m].reason = "yesterday" =>
            c[m].end <= c[n].start /\ tasks[c[m].task].end <= tasks[c[n].task].end

LoopInv ==
    /\ EngineHolds
    /\ LoopTyped
    /\ EndedInv
    /\ DatesHold
    /\ PlanInv
    /\ AccountInv
    /\ InMorningOrder(plan)

-----------------------------------------------------------------------------
(* The answer as a whole                                                    *)

\* A proposal at the instant it is made.
Proposed(p) ==
    /\ p.task \in Unfinished /\ tasks[p.task].end <= clock
    /\ clock <= p.start /\ p.start < p.end

\* What StubHeuristicLLM.decide answers: moves of unfinished tasks whose window
\* ended, into the future, each once; all the tasks of the events; and the
\* work carried into a new day in order.
LEMMA AnswerShape ==
    ASSUME TypeOK, StatusIsJustified, LoopTyped, EndedInv, DatesHold
    PROVE  LET a == Answer(Context) IN
           /\ a \in Seq(MoveProposal)
           /\ \A n \in 1 .. Len(a) : Proposed(a[n])
           /\ DistinctTasks(a)
           /\ InMorningOrder(a)
           /\ \A i \in Unfinished \cap ToSet(ended) : \E n \in 1 .. Len(a) : a[n].task = i
<1> DEFINE context == Context
           handled == Handled(context)
           H == Len(handled)
           x == [n \in 1 .. H |-> HandleWindowEnded(context, handled[n])]
           work == StaleWork(context, ToSet(handled))
           stack == StackOf(work)
           y == IF newDay THEN stack.calls ELSE <<>>
           a == x \o y
<1>1. clock \in Nat /\ ended \in Seq(Nat)
  BY DEF LoopTyped
<1>2. context \in Seq(Unfinished) /\ Distinct(context) /\ ToSet(context) \subseteq Unfinished
      /\ Unfinished \cap ToSet(ended) \subseteq ToSet(context)
  BY <1>1, ContextShape DEF ToSet
<1> HIDE DEF context
<1>3. handled \in Seq(Nat) /\ ToSet(handled) = ToSet(ended) \cap ToSet(context) /\ Distinct(handled)
      /\ H \in Nat /\ DOMAIN handled = 1 .. H
  BY <1>1, HandledShape DEF EndedInv
<1>4. \A n \in 1 .. H : handled[n] \in ToSet(handled)
  BY <1>3 DEF ToSet
<1> HIDE DEF handled, H
<1>5. ASSUME NEW n \in 1 .. H
      PROVE  /\ x[n] \in MoveProposal /\ x[n].task = handled[n] /\ x[n].reason # "yesterday"
             /\ Proposed(x[n])
  <2>1. handled[n] \in Unfinished /\ handled[n] \in ToSet(ended)
    BY <1>2, <1>3, <1>4
  <2>2. tasks[handled[n]].end # NoTime /\ tasks[handled[n]].end <= clock
    BY <2>1 DEF EndedInv, HasEnded
  <2>3. LET p == HandleWindowEnded(context, handled[n]) IN
          /\ p \in MoveProposal /\ p.task = handled[n] /\ p.reason # "yesterday"
          /\ clock <= p.start /\ p.start < p.end
    BY <1>1, <1>2, <2>1, <2>2, WindowEndedShape
  <2>4. x[n] = HandleWindowEnded(context, handled[n])
    OBVIOUS
  <2> HIDE DEF x
  <2>5. QED BY <2>1, <2>2, <2>3, <2>4 DEF Proposed
<1>6. x \in Seq(MoveProposal) /\ Len(x) = H
  BY <1>3, <1>5
<1> HIDE DEF x
<1>7. Stackable(work) /\ \A n \in 1 .. Len(work) : work[n] \notin ToSet(handled)
  BY <1>2, StaleShape DEF Stackable
<1> HIDE DEF work
<1>8. stack \in StackRecord /\ StackGood(stack, work, Len(work))
  BY <1>1, <1>7, StackShape
<1> HIDE DEF stack
<1>9. y \in Seq(MoveProposal) /\ (y = stack.calls \/ Len(y) = 0) /\ Len(y) \in Nat
  <2>1. stack.calls \in Seq(MoveProposal)
    BY <1>8 DEF StackRecord
  <2>2. CASE newDay
    BY <2>1, <2>2
  <2>3. CASE ~newDay
    <3>1. y = <<>>
      BY <2>3
    <3>2. Len(<<>>) = 0 /\ <<>> \in Seq(MoveProposal)
      OBVIOUS
    <3> HIDE DEF y
    <3>3. QED BY <3>1, <3>2
  <2>4. QED BY <2>2, <2>3
<1> HIDE DEF y
<1>10. /\ \A n \in 1 .. Len(y) : BeforeCursor(y[n], stack.cursor, work, Len(work))
       /\ Stacks(y)
  <2>1. CASE y = stack.calls
    BY <1>8, <2>1 DEF StackGood
  <2>2. CASE Len(y) = 0
    <3>1. 1 .. Len(y) = {}
      BY <2>2
    <3>2. QED BY <3>1 DEF Stacks
  <2>3. QED BY <1>9, <2>1, <2>2
<1>11. ASSUME NEW n \in 1 .. Len(y)
       PROVE  Proposed(y[n]) /\ y[n].task \notin ToSet(handled) /\ y[n] \in MoveProposal
              /\ y[n].reason = "yesterday"
  <2>1. BeforeCursor(y[n], stack.cursor, work, Len(work)) /\ y[n] \in MoveProposal
    BY <1>9, <1>10
  <2>2. PICK j \in 1 .. Len(work) : work[j] = y[n].task
    BY <2>1 DEF BeforeCursor
  <2>3. y[n].task \in Unfinished /\ tasks[y[n].task].status = "WINDOW_ENDED"
        /\ y[n].task \notin ToSet(handled)
    BY <1>7, <2>2 DEF Stackable
  <2>4. y[n].task \in 1 .. Len(tasks) /\ tasks[y[n].task].end <= tasks[y[n].task].lastTransitionAt
    BY <2>3, EndedHasEnd, UnfinishedFinite
  <2>5. /\ tasks[y[n].task].lastTransitionAt <= clock
        /\ tasks[y[n].task].end \in Int /\ tasks[y[n].task].lastTransitionAt \in Int
    BY <2>4, TaskFields DEF DatesHold
  <2>6. tasks[y[n].task].end <= clock
    BY <1>1, <2>4, <2>5
  <2>7. QED BY <2>1, <2>3, <2>6 DEF BeforeCursor, Proposed
<1>12. /\ a \in Seq(MoveProposal) /\ Len(a) = H + Len(y)
       /\ \A n \in 1 .. H : a[n] = x[n]
       /\ \A n \in 1 .. Len(y) : a[H + n] = y[n]
  BY <1>3, <1>6, <1>9
<1> HIDE DEF a
<1>13. ASSUME NEW n \in 1 .. Len(a)
       PROVE  \/ n \in 1 .. H /\ a[n] = x[n]
              \/ n > H /\ n - H \in 1 .. Len(y) /\ a[n] = y[n - H]
  <2>1. CASE n <= H
    BY <1>3, <1>12, <2>1
  <2>2. CASE n > H
    <3>1. n - H \in 1 .. Len(y) /\ H + (n - H) = n
      BY <1>3, <1>9, <1>12, <2>2
    <3>2. a[H + (n - H)] = y[n - H]
      BY <1>12, <3>1
    <3>3. QED BY <2>2, <3>1, <3>2
  <2>3. QED BY <1>3, <2>1, <2>2
<1>14. ASSUME NEW n \in 1 .. Len(a) PROVE Proposed(a[n])
  BY <1>5, <1>11, <1>13
<1>15. DistinctTasks(a)
  <2> SUFFICES ASSUME NEW m \in 1 .. Len(a), NEW n \in 1 .. Len(a), a[m].task = a[n].task
               PROVE  m = n
    BY DEF DistinctTasks
  <2>1. CASE m \in 1 .. H /\ n \in 1 .. H
    <3>1. handled[m] = handled[n]
      BY <1>5, <1>12, <2>1
    <3>2. QED BY <1>3, <2>1, <3>1 DEF Distinct
  <2>2. CASE m > H /\ n > H
    <3>1. /\ m - H \in 1 .. Len(y) /\ n - H \in 1 .. Len(y)
          /\ y[m - H].task = y[n - H].task
      BY <1>3, <1>13, <2>2
    <3>2. ASSUME NEW j \in 1 .. Len(y), NEW k \in 1 .. Len(y), j < k PROVE y[j].task # y[k].task
      <4>1. j \in 1 .. k - 1
        BY <3>2
      <4>2. QED BY <1>10, <4>1 DEF Stacks
    <3>3. ~(m - H < n - H) /\ ~(n - H < m - H)
      BY <3>1, <3>2
    <3>4. QED BY <1>3, <3>1, <3>3
  <2>3. CASE m \in 1 .. H /\ n > H
    <3>1. a[m].task = handled[m] /\ a[n] = y[n - H] /\ n - H \in 1 .. Len(y)
      BY <1>3, <1>5, <1>12, <1>13, <2>3
    <3>2. QED BY <1>4, <1>11, <2>3, <3>1
  <2>4. CASE m > H /\ n \in 1 .. H
    <3>1. a[n].task = handled[n] /\ a[m] = y[m - H] /\ m - H \in 1 .. Len(y)
      BY <1>3, <1>5, <1>12, <1>13, <2>4
    <3>2. QED BY <1>4, <1>11, <2>4, <3>1
  <2>5. QED BY <1>3, <2>1, <2>2, <2>3, <2>4
<1>16. InMorningOrder(a)
  <2> SUFFICES ASSUME NEW n \in 1 .. Len(a), NEW m \in 1 .. n - 1,
                      a[n].reason = "yesterday", a[m].reason = "yesterday"
               PROVE  a[m].end <= a[n].start /\ tasks[a[m].task].end <= tasks[a[n].task].end
    BY DEF InMorningOrder
  <2>1. m \in 1 .. Len(a)
    BY <1>3, <1>9, <1>12
  <2>2. ~(n \in 1 .. H) /\ ~(m \in 1 .. H)
    BY <1>5, <1>12
  <2>3. n - H \in 1 .. Len(y) /\ a[n] = y[n - H] /\ m - H \in 1 .. Len(y) /\ a[m] = y[m - H]
    BY <1>13, <2>1, <2>2
  <2>4. m - H \in 1 .. (n - H) - 1
    BY <1>3, <2>3
  <2> DEFINE j == m - H
             k == n - H
  <2> HIDE DEF j, k
  <2>5. j \in 1 .. k - 1 /\ k \in 1 .. Len(y) /\ a[n] = y[k] /\ a[m] = y[j]
    BY <2>3, <2>4 DEF j, k
  <2>6. QED BY <1>10, <2>5 DEF Stacks
<1>17. ASSUME NEW i \in Unfinished \cap ToSet(ended) PROVE \E n \in 1 .. Len(a) : a[n].task = i
  <2>1. i \in ToSet(handled)
    BY <1>2, <1>3
  <2>2. PICK n \in 1 .. H : handled[n] = i
    BY <1>3, <2>1 DEF ToSet
  <2>3. n \in 1 .. Len(a)
    BY <1>3, <1>9, <1>12
  <2>4. a[n].task = i
    BY <1>5, <1>12, <2>2
  <2>5. QED BY <2>3, <2>4
<1>18. Answer(Context) = a
  <2>1. Answer(context) = x \o y
    BY <1>3 DEF Answer, HandleNewDay, x, y, stack, work, handled, H
  <2>2. QED BY <2>1 DEF a, context
<1>19. QED BY <1>12, <1>14, <1>15, <1>16, <1>17, <1>18

-----------------------------------------------------------------------------
(* What a step does to the tasks                                            *)

\* A tick dates what it changes, ends a window when it says so, and takes no
\* status back.
LEMMA TickFacts ==
    ASSUME NEW task \in TaskRecord(Key), NEW now \in Nat
    PROVE  LET t == Ticked(task, now)
               ends == WindowEnds(Opened(task, now), now) IN
           /\ t = task \/ t.lastTransitionAt = now
           /\ ends => task.status \in Early /\ Reached(task.end, now) /\ t.status \notin Early
           /\ t.status = "WINDOW_ENDED" => task.status = "WINDOW_ENDED" \/ ends
           /\ task.status \notin Early => t.status \notin Early
<1> DEFINE o == Opened(task, now)
           e == Ended(o, now)
           t == Breached(e, now)
<1>1. /\ o \in TaskRecord(Key) /\ o.end = task.end
      /\ o = task \/ (task.status = "SCHEDULED" /\ o.status = "ACTIVE" /\ o.lastTransitionAt = now)
  <2>1. CASE WindowOpens(task, now)
    <3>1. o = WithStatus(task, "ACTIVE", now) /\ task.status = "SCHEDULED"
      BY <2>1 DEF Opened, WindowOpens
    <3>2. QED BY <3>1 DEF WithStatus, TaskRecord, Statuses, LiveStatuses, OptionalInstant
  <2>2. CASE ~WindowOpens(task, now)
    BY <2>2 DEF Opened
  <2>3. QED BY <2>1, <2>2
<1> HIDE DEF o
<1>2. /\ e \in TaskRecord(Key)
      /\ WindowEnds(o, now) =>
            e.status = "WINDOW_ENDED" /\ e.lastTransitionAt = now /\ o.status = "ACTIVE" /\ Reached(o.end, now)
      /\ ~WindowEnds(o, now) => e = o
  <2>1. CASE WindowEnds(o, now)
    <3>1. e = WithStatus(o, "WINDOW_ENDED", now) /\ o.status = "ACTIVE" /\ Reached(o.end, now)
      BY <2>1 DEF Ended, WindowEnds
    <3>2. e.status = "WINDOW_ENDED" /\ e.lastTransitionAt = now
      BY <1>1, <3>1 DEF WithStatus, TaskRecord
    <3>3. e \in TaskRecord(Key)
      BY <1>1, <3>1 DEF WithStatus, TaskRecord, Statuses, LiveStatuses, OptionalInstant
    <3> HIDE DEF e
    <3>4. QED BY <2>1, <3>1, <3>2, <3>3
  <2>2. CASE ~WindowEnds(o, now)
    <3>1. e = o
      BY <2>2 DEF Ended
    <3> HIDE DEF e
    <3>2. QED BY <1>1, <2>2, <3>1
  <2> HIDE DEF e
  <2>3. QED BY <2>1, <2>2
<1> HIDE DEF e
<1>3. t = e \/ (t.status = "OVERDUE" /\ t.lastTransitionAt = now)
  <2>1. CASE DeadlineBreaks(e, now)
    <3>1. t = WithStatus(e, "OVERDUE", now)
      BY <2>1 DEF Breached
    <3>2. QED BY <1>2, <3>1 DEF WithStatus, TaskRecord
  <2>2. CASE ~DeadlineBreaks(e, now)
    BY <2>2 DEF Breached
  <2>3. QED BY <2>1, <2>2
<1> HIDE DEF t
<1>4. Ticked(task, now) = t
  BY DEF Ticked, t, e, o
<1>5. t = task \/ t.lastTransitionAt = now
  BY <1>1, <1>2, <1>3
<1>6. WindowEnds(o, now) => task.status \in Early /\ Reached(task.end, now) /\ t.status \notin Early
  BY <1>1, <1>2, <1>3 DEF Early
<1>7. t.status = "WINDOW_ENDED" => task.status = "WINDOW_ENDED" \/ WindowEnds(o, now)
  BY <1>1, <1>2, <1>3
<1>8. task.status \notin Early => t.status \notin Early
  BY <1>1, <1>2, <1>3 DEF Early
<1>9. QED BY <1>4, <1>5, <1>6, <1>7, <1>8 DEF o

IsNewCall(c, action, i, start, end, deadline) ==
    /\ c \in ActionCall /\ c.key \notin seen /\ ~c.holds /\ ~c.oversized
    /\ c.action = action /\ c.task = i
    /\ c.start = start /\ c.end = end /\ c.deadline = deadline

\* The calls of the loop are well-formed, with a key that is new.
LEMMA CallShape ==
    ASSUME TypeOK, seen # Key, NEW action \in Actions, NEW i \in Nat,
           NEW start \in OptionalInstant, NEW end \in OptionalInstant,
           NEW deadline \in OptionalInstant
    PROVE  IsNewCall(CallOf(action, i, start, end, deadline), action, i, start, end, deadline)
<1>1. \E k \in Key : k \notin seen
  BY DEF TypeOK
<1>2. FreshKey \in Key /\ FreshKey \notin seen
  BY <1>1 DEF FreshKey
<1>3. QED BY <1>2 DEF CallOf, ActionCall, IsNewCall

\* Steps that add no task: what changes is dated now.
Dated ==
    /\ InPlace
    /\ \A i \in 1 .. Len(tasks) : tasks'[i] = tasks[i] \/ tasks'[i].lastTransitionAt = clock
    /\ \A i \in 1 .. Len(tasks) : tasks[i].status \notin Early => tasks'[i].status \notin Early

\* The user's steps: a creation, or the end of a task.
LEMMA UserShape ==
    ASSUME TypeOK, clock \in Nat, UserActs
    PROVE  /\ EngineStep /\ pending' \subseteq pending
           /\ \/ \E c \in ActionCall : CreateTask(c, clock)
              \/ Dated /\ \A i \in 1 .. Len(tasks) :
                             tasks'[i].status = "WINDOW_ENDED" => tasks[i].status = "WINDOW_ENDED"
<1>1. CASE \E shape \in Shapes :
              Apply(CallOf("create_task", NoTask, shape[1], shape[2], shape[3]), clock, FALSE)
  <2>1. PICK shape \in Shapes :
              Apply(CallOf("create_task", NoTask, shape[1], shape[2], shape[3]), clock, FALSE)
    BY <1>1
  <2> DEFINE c == CallOf("create_task", NoTask, shape[1], shape[2], shape[3])
  <2>2. /\ shape[1] \in OptionalInstant /\ shape[2] \in OptionalInstant /\ shape[3] \in OptionalInstant
        /\ "create_task" \in Actions /\ NoTask \in Nat /\ seen # Key
    BY ShapesAssumption DEF Actions, NoTask, UserActs
  <2>3. c \in ActionCall /\ c.action = "create_task"
    BY <2>2, CallShape DEF IsNewCall
  <2>4. Apply(c, clock, FALSE)
    BY <2>1
  <2> HIDE DEF c
  <2>5. CreateTask(c, clock)
    BY <2>3, <2>4 DEF Apply, StartTask, CanStart, CompleteTask, CanComplete, MoveTask, CanMove,
                      CancelTask, CanCancel
  <2>6. EngineStep
    BY <2>3, <2>4 DEF EngineStep
  <2>7. pending' \subseteq pending
    BY <2>4 DEF Apply, Released
  <2>8. QED BY <2>3, <2>5, <2>6, <2>7
<1>2. CASE \E i \in DOMAIN tasks : Apply(CallOf("complete_task", i, NoTime, NoTime, NoTime), clock, FALSE)
  <2>1. PICK i \in DOMAIN tasks : Apply(CallOf("complete_task", i, NoTime, NoTime, NoTime), clock, FALSE)
    BY <1>2
  <2> DEFINE c == CallOf("complete_task", i, NoTime, NoTime, NoTime)
  <2>2. /\ NoTime \in OptionalInstant /\ "complete_task" \in Actions /\ i \in Nat /\ seen # Key
        /\ i \in 1 .. Len(tasks) /\ tasks[i] \in TaskRecord(Key)
    BY DEF Actions, OptionalInstant, UserActs, TypeOK
  <2>3. c \in ActionCall /\ c.action = "complete_task" /\ c.task = i
    BY <2>2, CallShape DEF IsNewCall
  <2>4. Apply(c, clock, FALSE)
    BY <2>1
  <2> HIDE DEF c
  <2>5. CompleteTask(c, clock)
    BY <2>3, <2>4 DEF Apply, StartTask, CanStart, CreateTask, CanCreate, MoveTask, CanMove,
                      CancelTask, CanCancel
  <2> DEFINE to == CompletionStatus(tasks[i])
             u == WithStatus(tasks[i], to, clock)
  <2>6. to \in {"COMPLETED", "COMPLETED_LATE"}
    BY DEF CompletionStatus
  <2>7. /\ tasks' = [tasks EXCEPT ![i] = u] /\ CanTransition(tasks[i].status, to)
    BY <2>3, <2>5 DEF CompleteTask, CanComplete
  <2>8. ~IsTerminal(tasks[i])
    BY <2>2, <2>7 DEF CanTransition, Transitions, IsTerminal, TerminalStatuses, Statuses, TaskRecord
  <2>9. u.status = to /\ u.lastTransitionAt = clock
    BY <2>2 DEF WithStatus, TaskRecord
  <2>10. Kept(tasks[i], u)
    <3>1. to \in Statuses \ {"RESCHEDULED", "CARRIED_FORWARD"}
      BY <2>6 DEF Statuses, TerminalStatuses
    <3>2. QED BY <2>2, <2>8, <3>1, LiveTaskKept
  <2> HIDE DEF u, to
  <2>11. InPlace
    BY <2>7, <2>10, ReplaceTask
  <2>12. \A j \in 1 .. Len(tasks) : tasks'[j] = IF j = i THEN u ELSE tasks[j]
    BY <2>2, <2>7, <2>10, ExceptSeq DEF TypeOK, Kept
  <2>13. u.status \notin Early /\ u.status # "WINDOW_ENDED"
    BY <2>6, <2>9 DEF Early
  <2>14. Dated /\ \A j \in 1 .. Len(tasks) :
             tasks'[j].status = "WINDOW_ENDED" => tasks[j].status = "WINDOW_ENDED"
    BY <2>9, <2>11, <2>12, <2>13 DEF Dated
  <2>15. EngineStep
    BY <2>3, <2>4 DEF EngineStep
  <2>16. pending' \subseteq pending
    BY <2>4 DEF Apply, Released
  <2>17. QED BY <2>14, <2>15, <2>16
<1>3. QED BY <1>1, <1>2 DEF UserActs

\* A pass ticks every task.
LEMMA PassShape ==
    ASSUME TypeOK, clock \in Nat, Pass
    PROVE  /\ EngineStep /\ pending' = pending
           /\ Dated
           /\ EndingNow \in SUBSET (1 .. Len(tasks))
           /\ \A i \in 1 .. Len(tasks) :
                 tasks'[i].status = "WINDOW_ENDED" => tasks[i].status = "WINDOW_ENDED" \/ i \in EndingNow
           /\ \A i \in EndingNow :
                 /\ tasks[i].status \in Early /\ tasks'[i].status \notin Early
                 /\ tasks[i].end # NoTime /\ tasks[i].end <= clock
<1>1. Tick(clock)
  BY DEF Pass
<1>2. EngineStep /\ pending' = pending
  BY <1>1 DEF EngineStep, Tick
<1>3. /\ Len(tasks) \in Nat /\ DOMAIN tasks = 1 .. Len(tasks)
      /\ \A i \in 1 .. Len(tasks) : tasks[i] \in TaskRecord(Key)
  BY DEF TypeOK
<1>4. /\ Len(tasks') = Len(tasks)
      /\ \A i \in 1 .. Len(tasks) : tasks'[i] = Ticked(tasks[i], clock)
  BY <1>1, <1>3 DEF Tick
<1>5. ASSUME NEW i \in 1 .. Len(tasks) PROVE Kept(tasks[i], Ticked(tasks[i], clock))
  <2>1. tasks[i] \in TaskRecord(Key)
    BY <1>3
  <2>2. QED BY <2>1, TickedTask DEF Kept, IsMoved, IsTerminal, TerminalStatuses, LiveStatuses
<1>6. InPlace
  <2>1. \A i \in 1 .. Len(tasks) : Kept(tasks[i], tasks'[i])
    BY <1>4, <1>5
  <2>2. tasks' \in Seq(TaskRecord(Key))
    BY <1>2, ListStep
  <2>3. QED BY <1>4, <2>1, <2>2 DEF InPlace
<1>7. ASSUME NEW i \in 1 .. Len(tasks)
      PROVE  /\ tasks'[i] = tasks[i] \/ tasks'[i].lastTransitionAt = clock
             /\ i \in EndingNow =>
                   /\ tasks[i].status \in Early /\ tasks'[i].status \notin Early
                   /\ Reached(tasks[i].end, clock)
             /\ tasks'[i].status = "WINDOW_ENDED" => tasks[i].status = "WINDOW_ENDED" \/ i \in EndingNow
             /\ tasks[i].status \notin Early => tasks'[i].status \notin Early
  <2>1. i \in EndingNow <=> WindowEnds(Opened(tasks[i], clock), clock)
    BY <1>3 DEF EndingNow
  <2>2. tasks'[i] = Ticked(tasks[i], clock) /\ tasks[i] \in TaskRecord(Key)
    BY <1>3, <1>4
  <2>3. QED BY <2>1, <2>2, TickFacts
<1>8. EndingNow \in SUBSET (1 .. Len(tasks))
  BY <1>3 DEF EndingNow
<1>9. ASSUME NEW i \in EndingNow PROVE tasks[i].end # NoTime /\ tasks[i].end <= clock
  <2>1. i \in 1 .. Len(tasks)
    BY <1>8
  <2>2. Reached(tasks[i].end, clock) /\ tasks[i].end \in Int
    BY <1>7, <2>1, TaskFields
  <2>3. QED BY <2>2 DEF Reached
<1>10. Dated
  BY <1>6, <1>7 DEF Dated
<1>11. QED BY <1>2, <1>7, <1>8, <1>9, <1>10

\* What is left of a sequence after its first element.
LEMMA TailShape ==
    ASSUME NEW A, NEW s \in Seq(A), s # <<>>
    PROVE  /\ Len(s) \in Nat /\ Len(s) >= 1 /\ Head(s) = s[1] /\ Head(s) \in A
           /\ Tail(s) \in Seq(A) /\ Len(Tail(s)) = Len(s) - 1
           /\ \A n \in 1 .. Len(Tail(s)) : n + 1 \in 1 .. Len(s) /\ Tail(s)[n] = s[n + 1]
<1>1. Len(s) \in Nat /\ Len(s) >= 1 /\ Head(s) = s[1] /\ Head(s) \in A
  OBVIOUS
<1>2. Tail(s) \in Seq(A) /\ Len(Tail(s)) = Len(s) - 1
  OBVIOUS
<1>3. \A n \in 1 .. Len(Tail(s)) : n + 1 \in 1 .. Len(s) /\ Tail(s)[n] = s[n + 1]
  BY <1>1, <1>2
<1>4. QED BY <1>1, <1>2, <1>3

ProposedCall(p) == CallOf(p.action, p.task, p.start, p.end, NoTime)

\* The call that carries out a proposal.
LEMMA MoveCallShape ==
    ASSUME TypeOK, seen # Key, NEW p \in MoveProposal
    PROVE  LET c == ProposedCall(p) IN
           /\ c \in ActionCall /\ c.key \notin seen /\ ~c.holds
           /\ c.action \in {"reschedule_task", "carry_forward_task"} /\ c.task = p.task
           /\ c.start = p.start /\ c.end = p.end /\ c.deadline = NoTime
<1>1. /\ p.action \in {"reschedule_task", "carry_forward_task"}
      /\ p.task \in Nat /\ p.start \in Nat /\ p.end \in Nat
  BY DEF MoveProposal
<1>2. /\ p.action \in Actions /\ p.start \in OptionalInstant /\ p.end \in OptionalInstant
      /\ NoTime \in OptionalInstant
  BY <1>1 DEF Actions, OptionalInstant
<1> DEFINE action == p.action
           i == p.task
           start == p.start
           end == p.end
           c == CallOf(action, i, start, end, NoTime)
<1>3. action \in Actions /\ i \in Nat /\ start \in OptionalInstant /\ end \in OptionalInstant
  BY <1>1, <1>2
<1> HIDE DEF action, i, start, end
<1>4. /\ c \in ActionCall /\ c.key \notin seen /\ ~c.holds
      /\ c.action = action /\ c.task = i
      /\ c.start = start /\ c.end = end /\ c.deadline = NoTime
  <2>1. IsNewCall(c, action, i, start, end, NoTime)
    BY <1>2, <1>3, CallShape
  <2>2. QED BY <2>1 DEF IsNewCall
<1>5. ProposedCall(p) = c
  BY DEF ProposedCall, action, i, start, end
<1> HIDE DEF c
<1>6. QED BY <1>1, <1>4, <1>5 DEF action, i, start, end

\* Carrying out a proposal moves its task, or is refused and remembered.
LEMMA ExecuteShape ==
    ASSUME TypeOK, LoopTyped, ExecuteNext
    PROVE  LET p == Head(plan)
               c == ProposedCall(p) IN
           /\ EngineStep /\ pending' \subseteq pending
           /\ c \in ActionCall /\ c.task = p.task /\ c.start = p.start /\ c.end = p.end
           /\ c.deadline = NoTime /\ c.action \in {"reschedule_task", "carry_forward_task"}
           /\ \/ MoveTask(c, clock) /\ unmoved \subseteq unmoved'
              \/ tasks' = tasks /\ ~CanMove(c, clock) /\ unmoved' = unmoved \cup {p.task}
<1> DEFINE p == Head(plan)
           c == ProposedCall(p)
<1>1. plan \in Seq(MoveProposal) /\ plan # <<>> /\ seen # Key /\ clock \in Nat
  BY DEF LoopTyped, ExecuteNext
<1>2. p \in MoveProposal
  BY <1>1, TailShape
<1>3. /\ Execute(c, clock)
      /\ unmoved' = IF tasks' = tasks THEN unmoved \cup {p.task} ELSE unmoved
  BY DEF ExecuteNext, ProposedCall
<1> HIDE DEF p
<1>4. /\ c \in ActionCall /\ c.key \notin seen /\ ~c.holds
      /\ c.action \in {"reschedule_task", "carry_forward_task"} /\ c.task = p.task
      /\ c.start = p.start /\ c.end = p.end /\ c.deadline = NoTime
  BY <1>1, <1>2, MoveCallShape
<1> HIDE DEF c
<1>5. CASE Apply(c, clock, FALSE)
  <2>1. MoveTask(c, clock)
    BY <1>4, <1>5 DEF Apply, CreateTask, CanCreate, StartTask, CanStart, CompleteTask, CanComplete,
                      CancelTask, CanCancel
  <2>2. EngineStep
    BY <1>1, <1>4, <1>5 DEF EngineStep
  <2>3. pending' \subseteq pending
    BY <1>5 DEF Apply, Released
  <2>4. unmoved \subseteq unmoved'
    BY <1>3
  <2>5. QED BY <1>4, <2>1, <2>2, <2>3, <2>4 DEF p, c
<1>6. CASE Refuse(c, clock, FALSE)
  <2>1. tasks' = tasks /\ seen' = seen /\ pending' \subseteq pending
    BY <1>6 DEF Refuse, Released
  <2>2. unmoved' = unmoved \cup {p.task}
    BY <1>3, <2>1
  <2>3. ~CanMove(c, clock)
    BY <1>4, <1>6 DEF Refuse, OverLimit, Accepted
  <2>4. EngineStep
    BY <2>1 DEF EngineStep
  <2>5. QED BY <1>4, <2>1, <2>2, <2>3, <2>4 DEF p, c
<1>7. ~Supersede(c) /\ ~Hold(c, FALSE)
  BY <1>4 DEF Supersede, Hold
<1>8. QED BY <1>3, <1>5, <1>6, <1>7 DEF Execute, Decide

\* Steps of the loop that leave the engine alone.
LEMMA IdleShape ==
    ASSUME Advance \/ Enable \/ Ask \/ UNCHANGED loopVars
    PROVE  tasks' = tasks /\ seen' = seen /\ pending' = pending
BY DEF Advance, Enable, Ask, loopVars

\* Every step of the loop is a step of the engine, or of something else.
LEMMA LoopIsEngine ==
    ASSUME TypeOK, LoopTyped, [PlanNext]_loopVars
    PROVE  EngineStep /\ pending' \subseteq pending
<1>1. CASE Advance \/ Enable \/ Ask \/ UNCHANGED loopVars
  BY <1>1, IdleShape DEF EngineStep
<1>2. CASE Pass
  BY <1>2, PassShape DEF LoopTyped
<1>3. CASE ExecuteNext
  BY <1>3, ExecuteShape
<1>4. CASE UserActs
  BY <1>4, UserShape DEF LoopTyped
<1>5. QED BY <1>1, <1>2, <1>3, <1>4 DEF PlanNext

\* The engine's invariant holds in the loop.
LEMMA EngineKept ==
    ASSUME EngineHolds, LoopTyped, [PlanNext]_loopVars
    PROVE  EngineHolds'
<1>1. TypeOK /\ StatusIsJustified /\ LineageIsAChain
  BY DEF EngineHolds
<1>2. EngineStep /\ pending' \subseteq pending
  BY <1>1, LoopIsEngine
<1>3. TypeOK'
  <2>1. tasks' \in Seq(TaskRecord(Key)) /\ seen' \subseteq Key
    BY <1>1, <1>2, ListStep
  <2>2. pending' \subseteq Calls
    BY <1>1, <1>2 DEF TypeOK
  <2>3. QED BY <2>1, <2>2 DEF TypeOK
<1>4. StatusIsJustified' /\ LineageIsAChain'
  BY <1>1, <1>2, JustifiedStep, ChainStep
<1>5. QED BY <1>3, <1>4 DEF EngineHolds

-----------------------------------------------------------------------------
(* Dates                                                                    *)

\* What DatesHold says of one task, in tasks ts at the instant now.
TaskDated(task, now) == task.createdAt <= now /\ task.lastTransitionAt <= now

MovedWhenOver(task) == IsMoved(task) => task.end <= task.lastTransitionAt

ChildDated(i) == tasks[i].carriedFrom # NoTask => IsChild(i, tasks[i].carriedFrom)

WalkDated(i) == \A j \in Ancestors(tasks, i) : tasks[j].lastTransitionAt <= tasks[i].createdAt

\* DatesHold, one task at a time.
LEMMA DatesByTask ==
    DatesHold <=> \A i \in 1 .. Len(tasks) :
                     /\ TaskDated(tasks[i], clock) /\ MovedWhenOver(tasks[i])
                     /\ ChildDated(i) /\ WalkDated(i)
BY DEF DatesHold, TaskDated, MovedWhenOver, ChildDated, WalkDated

\* A task that another one replaced is history.
LEMMA ParentIsMoved ==
    ASSUME EngineHolds, NEW i \in 1 .. Len(tasks), tasks[i].carriedFrom # NoTask
    PROVE  /\ tasks[i].carriedFrom \in 1 .. Len(tasks) /\ tasks[i].carriedFrom < i
           /\ IsMoved(tasks[tasks[i].carriedFrom]) /\ IsTerminal(tasks[tasks[i].carriedFrom])
<1> DEFINE p == tasks[i].carriedFrom
<1>1. /\ DOMAIN tasks = 1 .. Len(tasks) /\ Len(tasks) \in Nat /\ p \in Nat
  BY ListShape DEF EngineHolds
<1>2. p < i
  BY <1>1 DEF EngineHolds, LineageIsAChain
<1>3. p \in 1 .. Len(tasks)
  <2> HIDE DEF p
  <2>1. p # 0
    BY DEF NoTask, p
  <2>2. QED BY <1>1, <1>2, <2>1
<1>4. IsMoved(tasks[p])
  BY <1>1, <1>3 DEF EngineHolds, LineageIsAChain
<1>5. IsTerminal(tasks[p])
  BY <1>4 DEF IsMoved, IsTerminal, TerminalStatuses
<1>6. QED BY <1>2, <1>3, <1>4, <1>5

\* What a task has to do with older ones does not change.
LEMMA DatesOfOld ==
    ASSUME EngineHolds, DatesHold, EngineStep, TypeOK', NEW i \in 1 .. Len(tasks)
    PROVE  ChildDated(i)' /\ WalkDated(i)'
<1>1. TypeOK /\ LineageIsAChain
  BY DEF EngineHolds
<1>2. /\ tasks'[i].carriedFrom = tasks[i].carriedFrom
      /\ tasks'[i].createdAt = tasks[i].createdAt
      /\ tasks'[i].end = tasks[i].end
  BY <1>1, OldTasks
<1>3. ChildDated(i) /\ WalkDated(i)
  BY DatesByTask
<1>4. ChildDated(i)'
  <2>1. CASE tasks[i].carriedFrom = NoTask
    BY <1>2, <2>1 DEF ChildDated
  <2>2. CASE tasks[i].carriedFrom # NoTask
    <3> DEFINE p == tasks[i].carriedFrom
    <3>1. p \in 1 .. Len(tasks) /\ IsTerminal(tasks[p])
      BY <2>2, ParentIsMoved
    <3>2. tasks'[p] = tasks[p]
      BY <1>1, <3>1, OldTasks
    <3>3. IsChild(i, p)
      BY <1>3, <2>2 DEF ChildDated
    <3>4. QED BY <1>2, <3>2, <3>3 DEF ChildDated, IsChild
  <2>3. QED BY <2>1, <2>2
<1>5. WalkDated(i)'
  <2>1. Ancestors(tasks', i) = Ancestors(tasks, i) /\ \A j \in Ancestors(tasks, i) : tasks'[j] = tasks[j]
    BY <1>1, OldWalks
  <2>2. \A j \in Ancestors(tasks, i) : tasks[j].lastTransitionAt <= tasks[i].createdAt
    BY <1>3 DEF WalkDated
  <2>3. QED BY <1>2, <2>1, <2>2 DEF WalkDated
<1>6. QED BY <1>4, <1>5

\* A task that is its lineage's first has no ancestors.
LEMMA AncestorsOfRoot ==
    ASSUME NEW ts, NEW i, ts[i].carriedFrom = NoTask
    PROVE  Ancestors(ts, i) = {}
<1>1. \A k \in {} \cup {i} : ts[k].carriedFrom \in {} \cup {NoTask}
  OBVIOUS
<1>2. {} \in SUBSET DOMAIN ts
  OBVIOUS
<1>3. QED BY <1>1, <1>2 DEF Ancestors

\* The walk from a task begins at its parent.
LEMMA WalkOfChild ==
    ASSUME EngineHolds, NEW i \in 1 .. Len(tasks), NEW p \in 1 .. Len(tasks), p = tasks[i].carriedFrom
    PROVE  Ancestors(tasks, i) = {p} \cup Ancestors(tasks, p)
<1>1. DOMAIN tasks = 1 .. Len(tasks) /\ Len(tasks) \in Nat
  BY ListShape DEF EngineHolds
<1>2. NoTask \notin DOMAIN tasks
  BY <1>1 DEF NoTask
<1>3. ASSUME NEW k \in DOMAIN tasks PROVE tasks[k].carriedFrom \in DOMAIN tasks \cup {NoTask}
  <2>1. tasks[k].carriedFrom # NoTask => tasks[k].carriedFrom \in 1 .. Len(tasks)
    BY <1>1, ParentIsMoved
  <2>2. QED BY <1>1, <2>1
<1>4. QED BY <1>1, <1>2, <1>3, AncestorsOfChild

\* A new task has not changed yet, and its window has not ended.
LEMMA CreatedLast ==
    ASSUME TypeOK, NEW c \in ActionCall, NEW now \in Nat,
           CreateTask(c, now) \/ MoveTask(c, now)
    PROVE  LET t == tasks'[Len(tasks) + 1] IN
           t.lastTransitionAt = NoTime /\ t.status # "WINDOW_ENDED"
<1> DEFINE n == Len(tasks) + 1
<1>1. tasks \in Seq(TaskRecord(Key)) /\ Len(tasks) \in Nat
  BY DEF TypeOK
<1>2. CASE CreateTask(c, now)
  <2> DEFINE t == NewTask(c.start, c.end, c.deadline, NoTask, now, c.key)
  <2>1. tasks' = Append(tasks, t)
    BY <1>2 DEF CreateTask
  <2>2. t.lastTransitionAt = NoTime /\ t.status # "WINDOW_ENDED"
    BY DEF NewTask, InitialStatus
  <2> HIDE DEF t
  <2>3. tasks'[n] = t
    BY <1>1, <2>1
  <2>4. QED BY <2>2, <2>3
<1>3. CASE MoveTask(c, now)
  <2> DEFINE t == NewTask(c.start, c.end, DeadlineAfter(c), c.task, now, NoKey)
             moved == [tasks EXCEPT ![c.task] = WithStatus(@, MovedStatus(c), now)]
  <2>1. tasks' = Append(moved, t)
    BY <1>3 DEF MoveTask
  <2>2. t.lastTransitionAt = NoTime /\ t.status # "WINDOW_ENDED"
    BY DEF NewTask, InitialStatus
  <2>3. moved \in Seq({moved[k] : k \in 1 .. Len(tasks)}) /\ Len(moved) = Len(tasks)
    <3> DEFINE R == {moved[k] : k \in 1 .. Len(tasks)}
    <3>1. DOMAIN moved = 1 .. Len(tasks)
      BY <1>1
    <3>2. \A k \in 1 .. Len(tasks) : moved[k] \in R
      OBVIOUS
    <3> HIDE DEF R
    <3>3. moved \in [1 .. Len(tasks) -> R]
      BY <3>1, <3>2
    <3> HIDE DEF moved
    <3>4. moved \in Seq(R) /\ Len(moved) = Len(tasks)
      BY <1>1, <3>3
    <3>5. QED BY <3>4 DEF R
  <2> HIDE DEF t, moved
  <2>4. tasks'[n] = t
    BY <1>1, <2>1, <2>3
  <2>5. QED BY <2>2, <2>4
<1>4. QED BY <1>2, <1>3

\* The steps of the loop, by what they do to the tasks.
LEMMA LoopShape ==
    ASSUME TypeOK, LoopTyped, [PlanNext]_loopVars
    PROVE  /\ clock' \in Nat /\ clock <= clock'
           /\ \/ tasks' = tasks
              \/ clock' = clock /\ Dated
              \/ clock' = clock /\ \E c \in ActionCall : CreateTask(c, clock)
              \/ clock' = clock /\ ExecuteNext /\ MoveTask(ProposedCall(Head(plan)), clock)
<1>1. clock \in Nat
  BY DEF LoopTyped
<1>2. CASE Advance
  <2>1. tasks' = tasks /\ clock' = clock + 1
    BY <1>2 DEF Advance
  <2>2. QED BY <1>1, <2>1
<1>3. CASE Enable \/ Ask \/ UNCHANGED loopVars
  <2>1. tasks' = tasks /\ clock' = clock
    BY <1>3 DEF Enable, Ask, loopVars, planVars
  <2>2. QED BY <1>1, <2>1
<1>4. CASE Pass
  <2>1. clock' = clock
    BY <1>4 DEF Pass
  <2>2. Dated
    BY <1>1, <1>4, PassShape
  <2>3. QED BY <1>1, <2>1, <2>2
<1>5. CASE ExecuteNext
  <2>1. clock' = clock
    BY <1>5 DEF ExecuteNext
  <2>2. MoveTask(ProposedCall(Head(plan)), clock) \/ tasks' = tasks
    BY <1>5, ExecuteShape
  <2>3. QED BY <1>1, <1>5, <2>1, <2>2
<1>6. CASE UserActs
  <2>1. clock' = clock
    BY <1>6 DEF UserActs
  <2>2. Dated \/ \E c \in ActionCall : CreateTask(c, clock)
    BY <1>1, <1>6, UserShape
  <2>3. QED BY <1>1, <2>1, <2>2
<1>7. QED BY <1>2, <1>3, <1>4, <1>5, <1>6 DEF PlanNext

\* The dates stay as they should be when tasks change in place.
LEMMA DatedDates ==
    ASSUME TypeOK, LoopTyped, DatesHold, Dated, NEW i \in 1 .. Len(tasks)
    PROVE  TaskDated(tasks'[i], clock) /\ MovedWhenOver(tasks'[i])
<1>1. Kept(tasks[i], tasks'[i])
  BY DEF Dated, InPlace
<1>2. TaskDated(tasks[i], clock) /\ MovedWhenOver(tasks[i]) /\ clock \in Nat
  BY DatesByTask DEF LoopTyped
<1>3. TaskDated(tasks'[i], clock)
  <2>1. tasks'[i].createdAt = tasks[i].createdAt
    BY <1>1 DEF Kept
  <2>2. CASE tasks'[i] = tasks[i]
    BY <1>2, <2>2
  <2>3. CASE tasks'[i].lastTransitionAt = clock
    <3>1. clock <= clock
      BY <1>2
    <3>2. QED BY <1>2, <2>1, <2>3, <3>1 DEF TaskDated
  <2>4. QED BY <2>2, <2>3 DEF Dated
<1>4. MovedWhenOver(tasks'[i])
  <2>1. CASE IsMoved(tasks[i])
    <3>1. tasks'[i] = tasks[i]
      BY <1>1, <2>1 DEF Kept, IsMoved, IsTerminal, TerminalStatuses
    <3>2. QED BY <1>2, <3>1
  <2>2. CASE ~IsMoved(tasks[i])
    BY <1>1, <2>2 DEF Kept, MovedWhenOver
  <2>3. QED BY <2>1, <2>2
<1>5. QED BY <1>3, <1>4

\* ... when a task is created.
LEMMA CreatedDates ==
    ASSUME TypeOK, LoopTyped, NEW c \in ActionCall, CreateTask(c, clock),
           NEW n, n = Len(tasks) + 1
    PROVE  /\ TaskDated(tasks'[n], clock) /\ MovedWhenOver(tasks'[n])
           /\ ChildDated(n)' /\ WalkDated(n)'
<1>1. clock \in Nat
  BY DEF LoopTyped
<1>2. /\ tasks'[n].carriedFrom = NoTask /\ tasks'[n].createdAt = clock
      /\ tasks'[n].status \in LiveStatuses
  BY <1>1, CreateShape
<1>3. tasks'[n].lastTransitionAt = NoTime
  BY <1>1, CreatedLast
<1>4. TaskDated(tasks'[n], clock)
  BY <1>1, <1>2, <1>3 DEF TaskDated, NoTime
<1>5. MovedWhenOver(tasks'[n])
  BY <1>2 DEF MovedWhenOver, IsMoved, LiveStatuses
<1>6. ChildDated(n)'
  BY <1>2 DEF ChildDated
<1>7. Ancestors(tasks', n) = {}
  BY <1>2, AncestorsOfRoot
<1>8. WalkDated(n)'
  BY <1>7 DEF WalkDated
<1>9. QED BY <1>4, <1>5, <1>6, <1>8

\* The plan's next move is of a task whose window ended before now, to a later window.
LEMMA NextMove ==
    ASSUME TypeOK, LoopTyped, PlanInv, ExecuteNext
    PROVE  LET p == Head(plan) IN
           /\ p \in MoveProposal /\ p.task \in 1 .. Len(tasks)
           /\ PlannedMove(p)
           /\ tasks[p.task].end <= clock
           /\ tasks[p.task].createdAt = clock => clock < p.end
<1> DEFINE p == Head(plan)
<1>1. /\ plan \in Seq(MoveProposal) /\ plan # <<>>
      /\ asked \in Nat /\ clock \in Nat /\ asked <= clock
  BY DEF LoopTyped, ExecuteNext
<1>2. p = plan[1] /\ p \in MoveProposal /\ 1 \in 1 .. Len(plan)
  <2>1. Len(plan) \in Nat /\ Len(plan) >= 1 /\ p = plan[1] /\ p \in MoveProposal
    BY <1>1, TailShape
  <2>2. QED BY <2>1
<1>3. PlannedMove(p)
  BY <1>2 DEF PlanInv
<1> HIDE DEF p
<1>4. /\ p.task \in 1 .. Len(tasks)
      /\ tasks[p.task].end <= asked /\ tasks[p.task].createdAt <= asked
      /\ asked <= p.start /\ p.start < p.end
  BY <1>3 DEF PlannedMove
<1>5. /\ tasks[p.task].end \in Int /\ tasks[p.task].createdAt \in Nat
      /\ p.start \in Nat /\ p.end \in Nat
  BY <1>2, <1>4, TaskFields DEF MoveProposal
<1>6. tasks[p.task].end <= clock
  BY <1>1, <1>4, <1>5
<1>7. tasks[p.task].createdAt = clock => clock < p.end
  BY <1>1, <1>4, <1>5
<1>8. QED BY <1>2, <1>3, <1>4, <1>6, <1>7 DEF p

\* ... and when the plan's next move is made.
LEMMA MovedDates ==
    ASSUME EngineHolds, LoopTyped, DatesHold, PlanInv, TypeOK', EngineStep, ExecuteNext,
           MoveTask(ProposedCall(Head(plan)), clock), NEW n, n = Len(tasks) + 1
    PROVE  /\ \A i \in 1 .. Len(tasks) : TaskDated(tasks'[i], clock) /\ MovedWhenOver(tasks'[i])
           /\ TaskDated(tasks'[n], clock) /\ MovedWhenOver(tasks'[n])
           /\ ChildDated(n)' /\ WalkDated(n)'
<1> DEFINE p == Head(plan)
           c == ProposedCall(p)
           i == p.task
<1>1. clock \in Nat /\ TypeOK /\ LineageIsAChain /\ DOMAIN tasks = 1 .. Len(tasks) /\ Len(tasks) \in Nat
  BY ListShape DEF LoopTyped, EngineHolds
<1>2. /\ p \in MoveProposal /\ i \in 1 .. Len(tasks)
      /\ tasks[i].end <= clock
      /\ tasks[i].createdAt = clock => clock < p.end
  BY <1>1, NextMove
<1>3. c \in ActionCall /\ c.task = i /\ c.end = p.end /\ MoveTask(c, clock)
  BY <1>1, ExecuteShape
<1> HIDE DEF p
<1> HIDE DEF c
<1>4. /\ tasks' \in Seq(TaskRecord(Key)) /\ Len(tasks') = n
      /\ \A j \in 1 .. Len(tasks) : j # i => tasks'[j] = tasks[j]
      /\ IsMoved(tasks'[i]) /\ tasks'[i].lastTransitionAt = clock
      /\ tasks'[i].createdAt = tasks[i].createdAt /\ tasks'[i].end = tasks[i].end
      /\ tasks'[n].carriedFrom = i /\ tasks'[n].createdAt = clock /\ tasks'[n].end = p.end
      /\ tasks'[n].status \in LiveStatuses
  BY <1>1, <1>3, MoveShape
<1>5. tasks'[n].lastTransitionAt = NoTime
  BY <1>1, <1>3, CreatedLast
<1> HIDE DEF i
<1>6. \A j \in 1 .. Len(tasks) : TaskDated(tasks[j], clock) /\ MovedWhenOver(tasks[j])
  BY DatesByTask
<1>7. clock <= clock
  BY <1>1
<1>8. ASSUME NEW j \in 1 .. Len(tasks) PROVE TaskDated(tasks'[j], clock) /\ MovedWhenOver(tasks'[j])
  <2>1. CASE j # i
    BY <1>4, <1>6, <2>1
  <2>2. CASE j = i
    <3>1. TaskDated(tasks'[i], clock)
      BY <1>2, <1>4, <1>6, <1>7 DEF TaskDated
    <3>2. MovedWhenOver(tasks'[i])
      BY <1>2, <1>4 DEF MovedWhenOver
    <3>3. QED BY <2>2, <3>1, <3>2
  <2>3. QED BY <2>1, <2>2
<1>9. TaskDated(tasks'[n], clock)
  BY <1>1, <1>4, <1>5 DEF TaskDated, NoTime
<1>10. MovedWhenOver(tasks'[n])
  BY <1>4 DEF MovedWhenOver, IsMoved, LiveStatuses
<1>11. ChildDated(n)'
  BY <1>2, <1>4 DEF ChildDated, IsChild
<1>12. Ancestors(tasks', n) = {i} \cup Ancestors(tasks', i)
  <2>1. DOMAIN tasks' = 1 .. n /\ n = Len(tasks) + 1
    BY <1>4
  <2>2. n \in DOMAIN tasks' /\ i \in DOMAIN tasks' /\ NoTask \notin DOMAIN tasks'
    BY <1>1, <1>2, <2>1 DEF NoTask
  <2>3. LineageIsAChain'
    BY <1>1, ChainStep
  <2>4. ASSUME NEW k \in DOMAIN tasks' PROVE tasks'[k].carriedFrom \in DOMAIN tasks' \cup {NoTask}
    <3>1. tasks'[k].carriedFrom \in Nat
      <4>1. tasks'[k] \in TaskRecord(Key)
        BY <1>4, <2>1, <2>4
      <4>2. QED BY <4>1 DEF TaskRecord
    <3>2. tasks'[k].carriedFrom < k
      BY <2>3, <2>4 DEF LineageIsAChain
    <3>3. QED BY <1>1, <2>1, <2>4, <3>1, <3>2 DEF NoTask
  <2>5. QED BY <1>4, <2>2, <2>4, AncestorsOfChild
<1>13. /\ Ancestors(tasks', i) = Ancestors(tasks, i)
       /\ \A j \in Ancestors(tasks, i) : tasks'[j] = tasks[j]
  BY <1>1, <1>2, OldWalks
<1>14. WalkDated(n)'
  <2>1. ASSUME NEW j \in Ancestors(tasks', n) PROVE tasks'[j].lastTransitionAt <= clock
    <3>1. CASE j = i
      BY <1>4, <1>7, <3>1
    <3>2. CASE j \in Ancestors(tasks, i)
      <4>1. j \in 1 .. Len(tasks) /\ tasks'[j] = tasks[j]
        BY <1>1, <1>13, <3>2 DEF Ancestors
      <4>2. QED BY <1>6, <4>1 DEF TaskDated
    <3>3. QED BY <1>12, <1>13, <3>1, <3>2
  <2>2. QED BY <1>4, <2>1 DEF WalkDated
<1>15. QED BY <1>8, <1>9, <1>10, <1>11, <1>14

\* Every step keeps the dates as they should be.
LEMMA DatesKept ==
    ASSUME EngineHolds, LoopTyped, DatesHold, PlanInv, EngineHolds', [PlanNext]_loopVars
    PROVE  DatesHold'
<1>1. TypeOK /\ TypeOK' /\ Len(tasks) \in Nat /\ clock \in Nat
  BY ListShape DEF EngineHolds, LoopTyped
<1>2. EngineStep
  BY <1>1, LoopIsEngine
<1>3. \A i \in 1 .. Len(tasks) : ChildDated(i)' /\ WalkDated(i)'
  BY <1>1, <1>2, DatesOfOld
<1>4. CASE tasks' = tasks
  <2>1. clock' \in Nat /\ clock <= clock'
    BY <1>1, LoopShape
  <2>2. ASSUME NEW i \in 1 .. Len(tasks) PROVE TaskDated(tasks'[i], clock') /\ MovedWhenOver(tasks'[i])
    <3>1. TaskDated(tasks[i], clock) /\ MovedWhenOver(tasks[i])
      BY DatesByTask
    <3>2. tasks[i].createdAt \in Int /\ tasks[i].lastTransitionAt \in Int
      BY <1>1, TaskFields
    <3>3. TaskDated(tasks[i], clock')
      BY <1>1, <2>1, <3>1, <3>2 DEF TaskDated
    <3>4. QED BY <1>4, <3>1, <3>3
  <2>3. Len(tasks') = Len(tasks)
    BY <1>4
  <2>4. \A i \in 1 .. Len(tasks') :
            /\ TaskDated(tasks'[i], clock') /\ MovedWhenOver(tasks'[i])
            /\ ChildDated(i)' /\ WalkDated(i)'
    BY <1>3, <2>2, <2>3
  <2>5. QED BY <2>4 DEF DatesHold, TaskDated, MovedWhenOver, ChildDated, WalkDated
<1>5. CASE clock' = clock /\ Dated
  <2>1. Len(tasks') = Len(tasks)
    BY <1>5 DEF Dated, InPlace
  <2>2. \A i \in 1 .. Len(tasks) : TaskDated(tasks'[i], clock) /\ MovedWhenOver(tasks'[i])
    BY <1>1, <1>5, DatedDates
  <2>3. \A i \in 1 .. Len(tasks') :
            /\ TaskDated(tasks'[i], clock') /\ MovedWhenOver(tasks'[i])
            /\ ChildDated(i)' /\ WalkDated(i)'
    BY <1>3, <1>5, <2>1, <2>2
  <2>4. QED BY <2>3 DEF DatesHold, TaskDated, MovedWhenOver, ChildDated, WalkDated
<1>6. CASE clock' = clock /\ \E c \in ActionCall : CreateTask(c, clock)
  <2>1. PICK c \in ActionCall : CreateTask(c, clock)
    BY <1>6
  <2>2. PICK n : n = Len(tasks) + 1
    OBVIOUS
  <2>3. Len(tasks') = n /\ \A i \in 1 .. Len(tasks) : tasks'[i] = tasks[i]
    BY <1>1, <2>1, <2>2, CreateShape
  <2>4. /\ TaskDated(tasks'[n], clock) /\ MovedWhenOver(tasks'[n])
        /\ ChildDated(n)' /\ WalkDated(n)'
    BY <1>1, <2>1, <2>2, CreatedDates
  <2>5. \A i \in 1 .. Len(tasks) : TaskDated(tasks[i], clock) /\ MovedWhenOver(tasks[i])
    BY DatesByTask
  <2>6. \A i \in 1 .. n : i \in 1 .. Len(tasks) \/ i = n
    BY <1>1, <2>2
  <2>7. \A i \in 1 .. Len(tasks') :
            /\ TaskDated(tasks'[i], clock') /\ MovedWhenOver(tasks'[i])
            /\ ChildDated(i)' /\ WalkDated(i)'
    BY <1>3, <1>6, <2>3, <2>4, <2>5, <2>6
  <2>8. QED BY <2>7 DEF DatesHold, TaskDated, MovedWhenOver, ChildDated, WalkDated
<1>7. CASE clock' = clock /\ ExecuteNext /\ MoveTask(ProposedCall(Head(plan)), clock)
  <2>1. PICK n : n = Len(tasks) + 1
    OBVIOUS
  <2>2. Len(tasks') = n
    <3>1. ProposedCall(Head(plan)) \in ActionCall
      BY <1>1, <1>7, ExecuteShape
    <3>2. QED BY <1>1, <1>7, <2>1, <3>1, MoveShape
  <2>3. /\ \A i \in 1 .. Len(tasks) : TaskDated(tasks'[i], clock) /\ MovedWhenOver(tasks'[i])
        /\ TaskDated(tasks'[n], clock) /\ MovedWhenOver(tasks'[n])
        /\ ChildDated(n)' /\ WalkDated(n)'
    BY <1>1, <1>2, <1>7, <2>1, MovedDates
  <2>4. \A i \in 1 .. n : i \in 1 .. Len(tasks) \/ i = n
    BY <1>1, <2>1
  <2>5. \A i \in 1 .. Len(tasks') :
            /\ TaskDated(tasks'[i], clock') /\ MovedWhenOver(tasks'[i])
            /\ ChildDated(i)' /\ WalkDated(i)'
    BY <1>3, <1>7, <2>2, <2>3, <2>4
  <2>6. QED BY <2>5 DEF DatesHold, TaskDated, MovedWhenOver, ChildDated, WalkDated
<1>8. QED BY <1>1, <1>4, <1>5, <1>6, <1>7, LoopShape

-----------------------------------------------------------------------------
(* What the steps keep                                                      *)

\* No step of the loop changes the schedule of a task, or takes its status back.
LEMMA OldKept ==
    ASSUME TypeOK, LoopTyped, [PlanNext]_loopVars, NEW i \in 1 .. Len(tasks)
    PROVE  /\ i \in 1 .. Len(tasks')
           /\ tasks'[i].end = tasks[i].end /\ tasks'[i].createdAt = tasks[i].createdAt
           /\ tasks[i].status \notin Early => tasks'[i].status \notin Early
<1>1. EngineStep
  BY LoopIsEngine
<1>2. i \in DOMAIN tasks' /\ tasks'[i].end = tasks[i].end /\ tasks'[i].createdAt = tasks[i].createdAt
  BY <1>1, OldTasks
<1>3. i \in 1 .. Len(tasks')
  <2>1. tasks' \in Seq(TaskRecord(Key))
    BY <1>1, ListStep
  <2>2. DOMAIN tasks' = 1 .. Len(tasks')
    BY <2>1
  <2>3. QED BY <1>2, <2>2
<1>4. ASSUME tasks[i].status \notin Early PROVE tasks'[i].status \notin Early
  <2>1. clock \in Nat
    BY DEF LoopTyped
  <2>2. CASE tasks' = tasks
    BY <1>4, <2>2
  <2>3. CASE Dated
    BY <1>4, <2>3 DEF Dated
  <2>4. CASE \E c \in ActionCall : CreateTask(c, clock)
    <3>1. PICK c \in ActionCall : CreateTask(c, clock)
      BY <2>4
    <3>2. tasks'[i] = tasks[i]
      BY <2>1, <3>1, CreateShape
    <3>3. QED BY <1>4, <3>2
  <2>5. CASE ExecuteNext /\ MoveTask(ProposedCall(Head(plan)), clock)
    <3> DEFINE c == ProposedCall(Head(plan))
    <3>1. c \in ActionCall
      BY <2>5, ExecuteShape
    <3>2. MoveTask(c, clock)
      BY <2>5
    <3> HIDE DEF c
    <3>3. /\ i # c.task => tasks'[i] = tasks[i]
          /\ IsMoved(tasks'[c.task])
      BY <2>1, <3>1, <3>2, MoveShape
    <3>4. QED BY <1>4, <3>3 DEF IsMoved, Early
  <2>6. QED BY <2>2, <2>3, <2>4, <2>5, LoopShape
<1>5. QED BY <1>2, <1>3, <1>4

\* A window that has ended has ended.
LEMMA EndedKept ==
    ASSUME TypeOK, LoopTyped, [PlanNext]_loopVars, NEW i, HasEnded(i)
    PROVE  HasEnded(i)'
<1>1. i \in 1 .. Len(tasks) /\ tasks[i].end # NoTime /\ tasks[i].end <= clock /\ tasks[i].status \notin Early
  BY DEF HasEnded
<1>2. /\ i \in 1 .. Len(tasks') /\ tasks'[i].end = tasks[i].end
      /\ tasks'[i].status \notin Early
  BY <1>1, OldKept
<1>3. clock \in Nat /\ clock' \in Nat /\ clock <= clock' /\ tasks[i].end \in Int
  BY <1>1, LoopShape, TaskFields DEF LoopTyped
<1>4. tasks[i].end <= clock'
  BY <1>1, <1>3
<1>5. QED BY <1>1, <1>2, <1>4 DEF HasEnded

\* The events stay when there is nothing new.
LEMMA SameEnded ==
    ASSUME TypeOK, LoopTyped, EndedInv, [PlanNext]_loopVars, ended' = ended \/ ended' = <<>>
    PROVE  EndedInv'
<1>1. CASE ended' = ended
  <2>1. ASSUME NEW i \in ToSet(ended) PROVE HasEnded(i)'
    <3>1. HasEnded(i)
      BY DEF EndedInv
    <3>2. QED BY <3>1, EndedKept
  <2>2. Distinct(ended)
    BY DEF EndedInv
  <2>3. QED BY <1>1, <2>1, <2>2 DEF EndedInv
<1>2. CASE ended' = <<>>
  <2>1. ToSet(<<>>) = {}
    BY DEF ToSet
  <2>2. Distinct(<<>>)
    BY DEF Distinct
  <2>3. QED BY <1>2, <2>1, <2>2 DEF EndedInv
<1>3. QED BY <1>1, <1>2

\* A move that was planned is still one, as long as nothing else was asked for.
LEMMA PlannedKept ==
    ASSUME TypeOK, LoopTyped, [PlanNext]_loopVars, asked' = asked, NEW p, PlannedMove(p)
    PROVE  PlannedMove(p)'
<1>1. p.task \in 1 .. Len(tasks)
  BY DEF PlannedMove
<1>2. /\ p.task \in 1 .. Len(tasks')
      /\ tasks'[p.task].end = tasks[p.task].end /\ tasks'[p.task].createdAt = tasks[p.task].createdAt
  BY <1>1, OldKept
<1>3. QED BY <1>2 DEF PlannedMove

\* An order of planned moves stays one.
LEMMA OrderKept ==
    ASSUME TypeOK, LoopTyped, [PlanNext]_loopVars, NEW c \in Seq(MoveProposal),
           \A n \in 1 .. Len(c) : c[n].task \in 1 .. Len(tasks), InMorningOrder(c)
    PROVE  InMorningOrder(c)'
<1> SUFFICES ASSUME NEW n \in 1 .. Len(c), NEW m \in 1 .. n - 1,
                    c[n].reason = "yesterday", c[m].reason = "yesterday"
             PROVE  c[m].end <= c[n].start /\ tasks'[c[m].task].end <= tasks'[c[n].task].end
  BY DEF InMorningOrder
<1>1. m \in 1 .. Len(c)
  OBVIOUS
<1>2. c[m].task \in 1 .. Len(tasks) /\ c[n].task \in 1 .. Len(tasks)
  BY <1>1
<1>3. tasks'[c[m].task].end = tasks[c[m].task].end /\ tasks'[c[n].task].end = tasks[c[n].task].end
  BY <1>2, OldKept
<1>4. QED BY <1>3 DEF InMorningOrder

\* The plan stays when it is not touched, and is fresh only if nobody acted.
LEMMA SamePlan ==
    ASSUME TypeOK, LoopTyped, PlanInv, InMorningOrder(plan), [PlanNext]_loopVars,
           plan' = plan, asked' = asked, fresh' => fresh /\ tasks' = tasks
    PROVE  PlanInv' /\ InMorningOrder(plan)'
<1>1. PICK c : c = plan
  OBVIOUS
<1>2. c \in Seq(MoveProposal) /\ (\A n \in 1 .. Len(c) : PlannedMove(c[n])) /\ InMorningOrder(c)
  BY <1>1 DEF LoopTyped, PlanInv
<1>3. \A n \in 1 .. Len(c) : PlannedMove(c[n])'
  BY <1>2, PlannedKept
<1>4. \A n \in 1 .. Len(c) : c[n].task \in 1 .. Len(tasks)
  BY <1>2 DEF PlannedMove
<1>5. InMorningOrder(c)'
  BY <1>2, <1>4, OrderKept
<1>6. DistinctTasks(c)
  BY <1>1 DEF PlanInv
<1>7. fresh' => \A n \in 1 .. Len(c) : ~IsTerminal(tasks'[c[n].task])
  BY <1>1 DEF PlanInv
<1>8. c = plan'
  BY <1>1
<1>9. QED BY <1>3, <1>5, <1>6, <1>7, <1>8 DEF PlanInv, InMorningOrder, DistinctTasks, PlannedMove

\* What the invariant says of the loop, the engine aside.
AgentInv == LoopTyped /\ EndedInv /\ PlanInv /\ AccountInv /\ InMorningOrder(plan)

\* A window that has ended is accounted for as before when no other window
\* ends and nothing is taken away.
LEMMA AccountKept ==
    ASSUME TypeOK, AccountInv, enabled' = enabled,
           ended' = ended, plan' = plan, unmoved' = unmoved,
           \A i \in 1 .. Len(tasks') : tasks'[i].status = "WINDOW_ENDED" =>
              i \in 1 .. Len(tasks) /\ tasks[i].status = "WINDOW_ENDED"
    PROVE  AccountInv'
BY DEF AccountInv, Accounted

\* The clock moves.
LEMMA AdvanceKept ==
    ASSUME TypeOK, AgentInv, Advance
    PROVE  AgentInv'
<1>1. LoopTyped /\ EndedInv /\ PlanInv /\ AccountInv /\ InMorningOrder(plan)
  BY DEF AgentInv
<1>2. /\ tasks' = tasks /\ clock' = clock + 1 /\ fresh' = FALSE
      /\ UNCHANGED <<ended, newDay, enabled, plan, asked, unmoved>>
  BY DEF Advance
<1>3. [PlanNext]_loopVars
  BY DEF PlanNext
<1>4. LoopTyped'
  <2>1. clock \in Nat /\ asked \in Nat /\ asked <= clock
    BY <1>1 DEF LoopTyped
  <2>2. clock' \in Nat /\ asked' \in Nat /\ asked' <= clock'
    BY <1>2, <2>1
  <2>3. QED BY <1>1, <1>2, <2>2 DEF LoopTyped
<1>5. EndedInv'
  BY <1>1, <1>2, <1>3, SameEnded
<1>6. PlanInv' /\ InMorningOrder(plan)'
  BY <1>1, <1>2, <1>3, SamePlan
<1>7. AccountInv'
  BY <1>1, <1>2, AccountKept
<1>8. QED BY <1>4, <1>5, <1>6, <1>7 DEF AgentInv

\* Nothing happens.
LEMMA StutterKept ==
    ASSUME TypeOK, AgentInv, UNCHANGED loopVars
    PROVE  AgentInv'
<1>1. LoopTyped /\ EndedInv /\ PlanInv /\ AccountInv /\ InMorningOrder(plan)
  BY DEF AgentInv
<1>2. UNCHANGED <<tasks, clock, ended, newDay, enabled, plan, asked, fresh, unmoved>>
  BY DEF loopVars, planVars
<1>3. [PlanNext]_loopVars
  OBVIOUS
<1>4. LoopTyped'
  BY <1>1, <1>2 DEF LoopTyped
<1>5. EndedInv'
  BY <1>1, <1>2, <1>3, SameEnded
<1>6. PlanInv' /\ InMorningOrder(plan)'
  BY <1>1, <1>2, <1>3, SamePlan
<1>7. AccountInv'
  BY <1>1, <1>2, AccountKept
<1>8. QED BY <1>4, <1>5, <1>6, <1>7 DEF AgentInv

\* The agent is started: what has ended so far is history.
LEMMA EnableKept ==
    ASSUME TypeOK, AgentInv, Enable
    PROVE  AgentInv'
<1>1. LoopTyped /\ EndedInv /\ PlanInv /\ AccountInv /\ InMorningOrder(plan)
  BY DEF AgentInv
<1>2. /\ enabled' = TRUE /\ ended' = <<>> /\ newDay' = FALSE
      /\ unmoved' = {i \in DOMAIN tasks : tasks[i].status = "WINDOW_ENDED"}
      /\ UNCHANGED <<tasks, clock, plan, asked, fresh>>
  BY DEF Enable
<1>3. [PlanNext]_loopVars
  BY DEF PlanNext
<1>4. LoopTyped'
  <2>1. <<>> \in Seq(Nat)
    OBVIOUS
  <2>2. QED BY <1>1, <1>2, <2>1 DEF LoopTyped
<1>5. EndedInv'
  BY <1>1, <1>2, <1>3, SameEnded
<1>6. PlanInv' /\ InMorningOrder(plan)'
  BY <1>1, <1>2, <1>3, SamePlan
<1>7. AccountInv'
  <2>1. DOMAIN tasks = 1 .. Len(tasks)
    BY DEF TypeOK
  <2>2. \A i \in 1 .. Len(tasks) : tasks[i].status = "WINDOW_ENDED" => i \in unmoved'
    BY <1>2, <2>1
  <2>3. QED BY <1>2, <2>2 DEF AccountInv, Accounted
<1>8. QED BY <1>4, <1>5, <1>6, <1>7 DEF AgentInv

\* The user acts.
LEMMA UserKept ==
    ASSUME TypeOK, AgentInv, UserActs
    PROVE  AgentInv'
<1>1. LoopTyped /\ EndedInv /\ PlanInv /\ AccountInv /\ InMorningOrder(plan)
  BY DEF AgentInv
<1>2. fresh' = FALSE /\ UNCHANGED <<clock, ended, newDay, enabled, plan, asked, unmoved>>
  BY DEF UserActs
<1>3. [PlanNext]_loopVars
  BY DEF PlanNext
<1>4. LoopTyped'
  BY <1>1, <1>2 DEF LoopTyped
<1>5. EndedInv'
  BY <1>1, <1>2, <1>3, SameEnded
<1>6. PlanInv' /\ InMorningOrder(plan)'
  BY <1>1, <1>2, <1>3, SamePlan
<1>7. \A i \in 1 .. Len(tasks') : tasks'[i].status = "WINDOW_ENDED" =>
          i \in 1 .. Len(tasks) /\ tasks[i].status = "WINDOW_ENDED"
  <2>1. clock \in Nat /\ Len(tasks) \in Nat
    BY <1>1, ListShape DEF LoopTyped
  <2>2. CASE \E c \in ActionCall : CreateTask(c, clock)
    <3>1. PICK c \in ActionCall : CreateTask(c, clock)
      BY <2>2
    <3> DEFINE n == Len(tasks) + 1
    <3>2. Len(tasks') = n /\ \A i \in 1 .. Len(tasks) : tasks'[i] = tasks[i]
      BY <2>1, <3>1, CreateShape
    <3>3. tasks'[n].status # "WINDOW_ENDED"
      BY <2>1, <3>1, CreatedLast
    <3>4. \A i \in 1 .. n : i \in 1 .. Len(tasks) \/ i = n
      BY <2>1
    <3> HIDE DEF n
    <3>5. QED BY <3>2, <3>3, <3>4
  <2>3. CASE Dated /\ \A i \in 1 .. Len(tasks) :
                         tasks'[i].status = "WINDOW_ENDED" => tasks[i].status = "WINDOW_ENDED"
    BY <2>3 DEF Dated, InPlace
  <2>4. QED BY <2>1, <2>2, <2>3, UserShape
<1>8. AccountInv'
  BY <1>1, <1>2, <1>7, AccountKept
<1>9. QED BY <1>4, <1>5, <1>6, <1>8 DEF AgentInv

\* A pass: the windows it ends are told to the agent.
LEMMA PassKept ==
    ASSUME TypeOK, AgentInv, Pass
    PROVE  AgentInv'
<1> DEFINE new == InOrder(EndingNow, Ascending)
<1>1. LoopTyped /\ EndedInv /\ PlanInv /\ AccountInv /\ InMorningOrder(plan)
  BY DEF AgentInv
<1>2. /\ ended' = ended \o new /\ fresh' = (fresh /\ tasks' = tasks)
      /\ newDay' = (newDay \/ DateOf(clock) # day)
      /\ UNCHANGED <<clock, enabled, plan, asked, unmoved>>
  BY DEF Pass
<1>3. [PlanNext]_loopVars
  BY DEF PlanNext
<1>4. clock \in Nat /\ ended \in Seq(Nat) /\ Len(tasks) \in Nat
  BY <1>1, ListShape DEF LoopTyped
<1>5. /\ Dated
      /\ EndingNow \in SUBSET (1 .. Len(tasks))
      /\ \A i \in 1 .. Len(tasks) :
            tasks'[i].status = "WINDOW_ENDED" => tasks[i].status = "WINDOW_ENDED" \/ i \in EndingNow
      /\ \A i \in EndingNow :
            /\ tasks[i].status \in Early /\ tasks'[i].status \notin Early
            /\ tasks[i].end # NoTime /\ tasks[i].end <= clock
  BY <1>4, PassShape
<1>6. new \in Seq(Nat) /\ Distinct(new) /\ ToSet(new) = EndingNow
  <2>1. EndingNow \in SUBSET Nat /\ IsFiniteSet(EndingNow)
    <3>1. IsFiniteSet(1 .. Len(tasks)) /\ 1 .. Len(tasks) \subseteq Nat
      BY <1>4, FS_Interval
    <3>2. QED BY <1>5, <3>1, FS_Subset
  <2>2. Orders(Ascending, EndingNow)
    BY <2>1, AscendingOrders
  <2>3. new \in Seq(EndingNow) /\ Distinct(new) /\ ToSet(new) = EndingNow
    BY <2>1, <2>2, InOrderShape
  <2> HIDE DEF new
  <2>4. new \in Seq(Nat)
    <3>1. Len(new) \in Nat /\ new \in [1 .. Len(new) -> EndingNow]
      BY <2>3
    <3>2. new \in [1 .. Len(new) -> Nat]
      BY <2>1, <3>1
    <3>3. QED BY <3>1, <3>2
  <2>5. QED BY <2>3, <2>4
<1> HIDE DEF new
<1>7. \A i \in ToSet(ended) : HasEnded(i) /\ HasEnded(i)'
  <2>1. \A i \in ToSet(ended) : HasEnded(i)
    BY <1>1 DEF EndedInv
  <2>2. QED BY <1>1, <1>3, <2>1, EndedKept
<1>8. ToSet(ended) \cap ToSet(new) = {}
  BY <1>5, <1>6, <1>7 DEF HasEnded
<1>9. ended' \in Seq(Nat) /\ ToSet(ended') = ToSet(ended) \cup EndingNow /\ Distinct(ended')
  BY <1>1, <1>2, <1>4, <1>6, <1>8, JoinedMembers DEF EndedInv
<1>10. ASSUME NEW i \in EndingNow PROVE HasEnded(i)'
  <2>1. i \in 1 .. Len(tasks)
    BY <1>5
  <2>2. i \in 1 .. Len(tasks') /\ tasks'[i].end = tasks[i].end
    BY <1>1, <1>3, <2>1, OldKept
  <2>3. QED BY <1>2, <1>5, <2>2 DEF HasEnded
<1>11. EndedInv'
  BY <1>7, <1>9, <1>10 DEF EndedInv
<1>12. LoopTyped'
  <2>1. newDay' \in BOOLEAN /\ fresh' \in BOOLEAN /\ (fresh' => fresh)
    BY <1>1, <1>2 DEF LoopTyped
  <2>2. QED BY <1>1, <1>2, <1>9, <2>1 DEF LoopTyped
<1>13. PlanInv' /\ InMorningOrder(plan)'
  <2>1. fresh' => fresh /\ tasks' = tasks
    BY <1>2
  <2>2. QED BY <1>1, <1>2, <1>3, <2>1, SamePlan
<1>14. AccountInv'
  <2>1. Len(tasks') = Len(tasks)
    BY <1>5 DEF Dated, InPlace
  <2>2. SUFFICES ASSUME enabled', NEW i \in 1 .. Len(tasks), tasks'[i].status = "WINDOW_ENDED"
                 PROVE  i \in unmoved' \/ i \in ToSet(ended') \/ \E n \in 1 .. Len(plan') : plan'[n].task = i
    BY <2>1 DEF AccountInv, Accounted
  <2>3. CASE i \in EndingNow
    BY <1>9, <2>3
  <2>4. CASE tasks[i].status = "WINDOW_ENDED"
    BY <1>1, <1>2, <1>9, <2>2, <2>4 DEF AccountInv, Accounted
  <2>5. QED BY <1>5, <2>2, <2>3, <2>4
<1>15. QED BY <1>11, <1>12, <1>13, <1>14 DEF AgentInv

\* The heuristic is asked: its answer is the new plan, as far as the agent
\* carries one out.
LEMMA AskKept ==
    ASSUME EngineHolds, DatesHold, AgentInv, Ask
    PROVE  AgentInv'
<1>1. LoopTyped /\ EndedInv /\ PlanInv /\ AccountInv /\ InMorningOrder(plan)
  BY DEF AgentInv
<1>2. TypeOK /\ StatusIsJustified /\ clock \in Nat /\ DOMAIN tasks = 1 .. Len(tasks) /\ MaxCalls \in Int
  BY <1>1, ListShape, AgentAssumption DEF EngineHolds, LoopTyped
<1> DEFINE a == Answer(Context)
           c == FirstOf(a, MaxCalls)
<1>3. /\ plan' = c /\ unmoved' = unmoved \cup {p.task : p \in ToSet(a) \ ToSet(c)}
      /\ ended' = <<>> /\ newDay' = FALSE /\ asked' = clock /\ fresh' = TRUE
      /\ UNCHANGED <<tasks, clock, enabled>>
  BY DEF Ask
<1>4. enabled /\ plan = <<>>
  BY DEF Ask
<1>5. [PlanNext]_loopVars
  BY DEF PlanNext
<1>6. /\ a \in Seq(MoveProposal)
      /\ \A n \in 1 .. Len(a) : Proposed(a[n])
      /\ DistinctTasks(a)
      /\ InMorningOrder(a)
      /\ \A i \in Unfinished \cap ToSet(ended) : \E n \in 1 .. Len(a) : a[n].task = i
  BY <1>1, <1>2, AnswerShape
<1> HIDE DEF a
<1>7. /\ c \in Seq(MoveProposal) /\ Len(c) <= Len(a)
      /\ \A n \in 1 .. Len(c) : c[n] = a[n]
  BY <1>2, <1>6, FirstOfShape
<1> HIDE DEF c
<1>8. Len(c) \in Nat /\ Len(a) \in Nat /\ DOMAIN c = 1 .. Len(c) /\ DOMAIN a = 1 .. Len(a)
  BY <1>6, <1>7
<1>9. \A n \in 1 .. Len(c) : n \in 1 .. Len(a)
  BY <1>7, <1>8
<1>10. LoopTyped'
  <2>1. <<>> \in Seq(Nat) /\ clock <= clock
    BY <1>2
  <2>2. QED BY <1>1, <1>3, <1>4, <1>7, <2>1 DEF LoopTyped
<1>11. EndedInv'
  BY <1>1, <1>2, <1>3, <1>5, SameEnded
<1>12. PlanInv'
  <2>1. ASSUME NEW n \in 1 .. Len(c)
        PROVE  /\ c[n].task \in 1 .. Len(tasks) /\ ~IsTerminal(tasks[c[n].task])
               /\ tasks[c[n].task].end <= clock /\ tasks[c[n].task].createdAt <= clock
               /\ clock <= c[n].start /\ c[n].start < c[n].end
    <3>1. Proposed(c[n])
      BY <1>6, <1>7, <1>9
    <3>2. c[n].task \in 1 .. Len(tasks) /\ ~IsTerminal(tasks[c[n].task])
      BY <1>2, <3>1 DEF Proposed, Unfinished
    <3>3. tasks[c[n].task].createdAt <= clock
      BY <3>2 DEF DatesHold
    <3>4. QED BY <3>1, <3>2, <3>3 DEF Proposed
  <2>2. \A n \in 1 .. Len(plan') : PlannedMove(plan[n])'
    BY <1>3, <2>1 DEF PlannedMove
  <2>3. DistinctTasks(c)
    BY <1>6, <1>7, <1>9 DEF DistinctTasks
  <2>4. fresh' => \A n \in 1 .. Len(plan') : ~IsTerminal(tasks'[plan'[n].task])
    BY <1>3, <2>1
  <2>5. QED BY <1>3, <2>2, <2>3, <2>4 DEF PlanInv, DistinctTasks
<1>13. InMorningOrder(plan)'
  <2>1. InMorningOrder(c)
    <3> SUFFICES ASSUME NEW n \in 1 .. Len(c), NEW m \in 1 .. n - 1,
                        c[n].reason = "yesterday", c[m].reason = "yesterday"
                 PROVE  c[m].end <= c[n].start /\ tasks[c[m].task].end <= tasks[c[n].task].end
      BY DEF InMorningOrder
    <3>1. m \in 1 .. Len(c)
      BY <1>8
    <3>2. c[n] = a[n] /\ c[m] = a[m] /\ n \in 1 .. Len(a)
      BY <1>7, <1>9, <3>1
    <3>3. QED BY <1>6, <3>2 DEF InMorningOrder
  <2>2. QED BY <1>3, <2>1 DEF InMorningOrder
<1>14. AccountInv'
  <2>1. SUFFICES ASSUME NEW i \in 1 .. Len(tasks), tasks[i].status = "WINDOW_ENDED"
                 PROVE  i \in unmoved' \/ \E n \in 1 .. Len(c) : c[n].task = i
    BY <1>3 DEF AccountInv, Accounted
  <2>2. Accounted(i)
    BY <1>1, <1>4, <2>1 DEF AccountInv
  <2>3. 1 .. Len(plan) = {}
    BY <1>4
  <2>4. CASE i \in unmoved
    BY <1>3, <2>4
  <2>5. CASE i \in ToSet(ended)
    <3>1. i \in Unfinished
      BY <1>2, <2>1 DEF Unfinished, IsTerminal, TerminalStatuses
    <3>2. PICK n \in 1 .. Len(a) : a[n].task = i
      BY <1>6, <2>5, <3>1
    <3>3. CASE a[n] \in ToSet(c)
      <4>1. PICK m \in 1 .. Len(c) : c[m] = a[n]
        BY <1>8, <3>3 DEF ToSet
      <4>2. QED BY <3>2, <4>1
    <3>4. CASE a[n] \notin ToSet(c)
      <4>1. a[n] \in ToSet(a)
        BY <1>8 DEF ToSet
      <4>2. i \in unmoved'
        BY <1>3, <3>2, <3>4, <4>1
      <4>3. QED BY <4>2
    <3>5. QED BY <3>3, <3>4
  <2>6. QED BY <2>2, <2>3, <2>4, <2>5 DEF Accounted
<1>15. QED BY <1>10, <1>11, <1>12, <1>13, <1>14 DEF AgentInv

\* A move is carried out, or refused: the rest of the plan is as good as before.
LEMMA ExecuteKept ==
    ASSUME TypeOK, AgentInv, ExecuteNext
    PROVE  AgentInv'
<1>1. LoopTyped /\ EndedInv /\ PlanInv /\ AccountInv /\ InMorningOrder(plan)
  BY DEF AgentInv
<1>2. /\ plan' = Tail(plan) /\ plan # <<>>
      /\ UNCHANGED <<clock, ended, newDay, enabled, asked, fresh>>
  BY DEF ExecuteNext
<1>3. [PlanNext]_loopVars
  BY DEF PlanNext
<1>4. plan \in Seq(MoveProposal) /\ clock \in Nat /\ Len(tasks) \in Nat
  BY <1>1, ListShape DEF LoopTyped
<1>5. PICK c : c = Tail(plan)
  OBVIOUS
<1>6. PICK p : p = Head(plan)
  OBVIOUS
<1>7. /\ Len(plan) \in Nat /\ Len(plan) >= 1 /\ p = plan[1] /\ p \in MoveProposal
      /\ c \in Seq(MoveProposal) /\ Len(c) = Len(plan) - 1
      /\ \A n \in 1 .. Len(c) : n + 1 \in 1 .. Len(plan) /\ c[n] = plan[n + 1]
  BY <1>2, <1>4, <1>5, <1>6, TailShape
<1>8. Len(c) \in Nat /\ 1 \in 1 .. Len(plan)
  BY <1>7
<1> DEFINE move == ProposedCall(p)
<1>9. /\ move \in ActionCall /\ move.task = p.task
      /\ \/ MoveTask(move, clock) /\ unmoved \subseteq unmoved'
         \/ tasks' = tasks /\ unmoved' = unmoved \cup {p.task}
  BY <1>1, <1>6, ExecuteShape
<1> HIDE DEF move
\* What becomes of the other tasks, and of the one that was to be moved.
<1>10. /\ \A i \in 1 .. Len(tasks) : i # p.task => tasks'[i] = tasks[i]
       /\ \A i \in 1 .. Len(tasks') : tasks'[i].status = "WINDOW_ENDED" =>
             /\ i \in 1 .. Len(tasks) /\ tasks[i].status = "WINDOW_ENDED"
             /\ i \in unmoved => i \in unmoved'
             /\ i # p.task \/ i \in unmoved'
  <2>1. CASE tasks' = tasks /\ unmoved' = unmoved \cup {p.task}
    BY <2>1
  <2>2. CASE MoveTask(move, clock) /\ unmoved \subseteq unmoved'
    <3> DEFINE m == Len(tasks) + 1
    <3>1. /\ Len(tasks') = m /\ IsMoved(tasks'[p.task])
          /\ \A i \in 1 .. Len(tasks) : i # p.task => tasks'[i] = tasks[i]
      BY <1>4, <1>9, <2>2, MoveShape
    <3>2. tasks'[m].status # "WINDOW_ENDED"
      BY <1>4, <1>9, <2>2, CreatedLast
    <3>3. tasks'[p.task].status # "WINDOW_ENDED"
      BY <3>1 DEF IsMoved
    <3>4. \A i \in 1 .. m : i \in 1 .. Len(tasks) \/ i = m
      BY <1>4
    <3> HIDE DEF m
    <3>5. QED BY <2>2, <3>1, <3>2, <3>3, <3>4
  <2>3. QED BY <1>9, <2>1, <2>2
<1>11. LoopTyped'
  <2>1. plan # <<>> => enabled
    BY <1>1 DEF LoopTyped
  <2>2. QED BY <1>1, <1>2, <1>5, <1>7, <2>1 DEF LoopTyped
<1>12. EndedInv'
  BY <1>1, <1>2, <1>3, SameEnded
<1>13. \A n \in 1 .. Len(c) : PlannedMove(c[n])
  BY <1>1, <1>7 DEF PlanInv
<1>14. \A n \in 1 .. Len(c) : PlannedMove(c[n])'
  BY <1>1, <1>2, <1>3, <1>13, PlannedKept
<1>15. \A n \in 1 .. Len(c) : c[n].task # p.task
  <2> SUFFICES ASSUME NEW n \in 1 .. Len(c) PROVE c[n].task # p.task
    OBVIOUS
  <2>1. n + 1 \in 1 .. Len(plan) /\ c[n] = plan[n + 1] /\ n + 1 # 1
    BY <1>7
  <2>2. QED BY <1>1, <1>7, <1>8, <2>1 DEF PlanInv, DistinctTasks
<1>16. PlanInv'
  <2>1. DistinctTasks(c)
    <3> SUFFICES ASSUME NEW m \in 1 .. Len(c), NEW n \in 1 .. Len(c), c[m].task = c[n].task
                 PROVE  m = n
      BY DEF DistinctTasks
    <3>1. /\ m + 1 \in 1 .. Len(plan) /\ c[m] = plan[m + 1]
          /\ n + 1 \in 1 .. Len(plan) /\ c[n] = plan[n + 1]
      BY <1>7
    <3>2. m + 1 = n + 1
      BY <1>1, <3>1 DEF PlanInv, DistinctTasks
    <3>3. QED BY <3>2
  <2>2. ASSUME fresh', NEW n \in 1 .. Len(c) PROVE ~IsTerminal(tasks'[c[n].task])
    <3>1. ~IsTerminal(tasks[c[n].task])
      BY <1>1, <1>2, <1>7, <2>2 DEF PlanInv
    <3>2. c[n].task \in 1 .. Len(tasks) /\ c[n].task # p.task
      BY <1>13, <1>15 DEF PlannedMove
    <3>3. tasks'[c[n].task] = tasks[c[n].task]
      BY <1>10, <3>2
    <3>4. QED BY <3>1, <3>3
  <2>3. c = plan'
    BY <1>2, <1>5
  <2>4. QED BY <1>14, <2>1, <2>2, <2>3 DEF PlanInv, DistinctTasks, PlannedMove
<1>17. InMorningOrder(plan)'
  <2>1. InMorningOrder(c)
    <3> SUFFICES ASSUME NEW n \in 1 .. Len(c), NEW m \in 1 .. n - 1,
                        c[n].reason = "yesterday", c[m].reason = "yesterday"
                 PROVE  c[m].end <= c[n].start /\ tasks[c[m].task].end <= tasks[c[n].task].end
      BY DEF InMorningOrder
    <3>1. m \in 1 .. Len(c) /\ m + 1 \in 1 .. (n + 1) - 1
      BY <1>8
    <3>2. n + 1 \in 1 .. Len(plan) /\ c[n] = plan[n + 1] /\ c[m] = plan[m + 1]
      BY <1>7, <3>1
    <3> DEFINE k == n + 1
               l == m + 1
    <3> HIDE DEF k, l
    <3>3. k \in 1 .. Len(plan) /\ l \in 1 .. k - 1 /\ c[n] = plan[k] /\ c[m] = plan[l]
      BY <3>1, <3>2 DEF k, l
    <3>4. QED BY <1>1, <3>3 DEF InMorningOrder
  <2>2. \A n \in 1 .. Len(c) : c[n].task \in 1 .. Len(tasks)
    BY <1>13 DEF PlannedMove
  <2>3. InMorningOrder(c)'
    BY <1>1, <1>3, <1>7, <2>1, <2>2, OrderKept
  <2>4. c = plan'
    BY <1>2, <1>5
  <2>5. QED BY <2>3, <2>4 DEF InMorningOrder
<1>18. AccountInv'
  <2>1. SUFFICES ASSUME enabled', NEW i \in 1 .. Len(tasks'), tasks'[i].status = "WINDOW_ENDED"
                 PROVE  i \in unmoved' \/ i \in ToSet(ended) \/ \E n \in 1 .. Len(c) : c[n].task = i
    BY <1>2, <1>5 DEF AccountInv, Accounted
  <2>2. /\ i \in 1 .. Len(tasks) /\ tasks[i].status = "WINDOW_ENDED"
        /\ i \in unmoved => i \in unmoved'
        /\ i # p.task \/ i \in unmoved'
    BY <1>10, <2>1
  <2>3. Accounted(i)
    BY <1>1, <1>2, <2>1, <2>2 DEF AccountInv
  <2>4. ASSUME NEW n \in 1 .. Len(plan), plan[n].task = i, i # p.task
        PROVE  \E m \in 1 .. Len(c) : c[m].task = i
    <3>1. n # 1
      BY <1>7, <2>4
    <3>2. n - 1 \in 1 .. Len(c) /\ (n - 1) + 1 = n
      BY <1>7, <3>1
    <3>3. c[n - 1] = plan[n]
      BY <1>7, <3>2
    <3>4. QED BY <2>4, <3>2, <3>3
  <2>5. QED BY <2>2, <2>3, <2>4 DEF Accounted
<1>19. QED BY <1>11, <1>12, <1>16, <1>17, <1>18 DEF AgentInv

\* Every step keeps the invariant.
LEMMA LoopKept ==
    ASSUME LoopInv, [PlanNext]_loopVars
    PROVE  LoopInv'
<1>1. EngineHolds /\ DatesHold /\ AgentInv
  BY DEF LoopInv, AgentInv
<1>2. TypeOK /\ LoopTyped /\ PlanInv
  BY <1>1 DEF EngineHolds, AgentInv
<1>3. EngineHolds'
  BY <1>1, <1>2, EngineKept
<1>4. DatesHold'
  BY <1>1, <1>2, <1>3, DatesKept
<1>5. AgentInv'
  BY <1>1, <1>2, AdvanceKept, PassKept, EnableKept, AskKept, ExecuteKept, UserKept, StutterKept
     DEF PlanNext
<1>6. QED BY <1>3, <1>4, <1>5 DEF LoopInv, AgentInv

\* It holds when nothing has happened.
LEMMA LoopStarts == PlanInit => LoopInv
<1> SUFFICES ASSUME PlanInit PROVE LoopInv
  OBVIOUS
<1>1. /\ tasks = <<>> /\ seen = {} /\ pending = {}
      /\ clock = 0 /\ ended = <<>> /\ newDay = FALSE
      /\ enabled = FALSE /\ plan = <<>> /\ asked = 0 /\ fresh = TRUE
  BY DEF PlanInit, Init
<1>2. 1 .. Len(tasks) = {} /\ DOMAIN tasks = {} /\ 1 .. Len(plan) = {} /\ ToSet(ended) = {}
      /\ DOMAIN ended = {}
  BY <1>1 DEF ToSet
<1>3. EngineHolds
  <2>1. TypeOK
    BY <1>1 DEF TypeOK
  <2>2. StatusIsJustified /\ LineageIsAChain
    BY <1>2 DEF StatusIsJustified, LineageIsAChain
  <2>3. QED BY <2>1, <2>2 DEF EngineHolds
<1>4. LoopTyped
  <2>1. <<>> \in Seq(Nat) /\ <<>> \in Seq(MoveProposal)
    OBVIOUS
  <2>2. clock \in Nat /\ asked \in Nat /\ asked <= clock
    BY <1>1
  <2>3. QED BY <1>1, <2>1, <2>2 DEF LoopTyped
<1>5. EndedInv /\ DatesHold /\ PlanInv /\ AccountInv /\ InMorningOrder(plan)
  BY <1>2 DEF EndedInv, Distinct, DatesHold, PlanInv, DistinctTasks, AccountInv, InMorningOrder
<1>6. QED BY <1>3, <1>4, <1>5 DEF LoopInv

\* The invariant of the loop holds in every state.
THEOREM LoopInvariant == PlanSpec => []LoopInv
<1>1. LoopInv /\ [PlanNext]_loopVars => LoopInv'
  BY LoopKept
<1>2. QED BY <1>1, LoopStarts, PTL DEF PlanSpec

\* No window that ended is forgotten (Agent.run_once, Agent._context): the
\* property EndedIsReplanned.
THEOREM EndedReplannedCorrect == PlanSpec => []EndedIsReplanned
<1>1. LoopInv => EndedIsReplanned
  <2> SUFFICES ASSUME LoopInv, enabled, plan = <<>>, ended = <<>>,
                      NEW i \in DOMAIN tasks, tasks[i].status = "WINDOW_ENDED"
               PROVE  i \in unmoved
    BY DEF EndedIsReplanned
  <2>1. i \in 1 .. Len(tasks) /\ AccountInv
    BY ListShape DEF LoopInv, EngineHolds
  <2>2. Accounted(i)
    BY <2>1 DEF AccountInv
  <2>3. 1 .. Len(plan) = {} /\ ToSet(ended) = {}
    BY DEF ToSet
  <2>4. QED BY <2>2, <2>3 DEF Accounted
<1>2. QED BY <1>1, LoopInvariant, PTL

\* Work carried into a new day does not overlap, starts in the future and keeps
\* its order (_handle_new_day): the property MorningIsStacked.
THEOREM MorningStackedCorrect == PlanSpec => []MorningIsStacked
<1>1. LoopInv => MorningIsStacked
  <2> SUFFICES ASSUME LoopInv, NEW n \in DOMAIN plan, plan[n].reason = "yesterday"
               PROVE  /\ plan[n].start >= asked
                      /\ \A m \in 1 .. n - 1 : plan[m].reason = "yesterday" =>
                            /\ plan[m].end <= plan[n].start
                            /\ tasks[plan[m].task].end <= tasks[plan[n].task].end
    BY DEF MorningIsStacked
  <2>1. n \in 1 .. Len(plan) /\ asked \in Nat /\ plan[n] \in MoveProposal
    BY DEF LoopInv, LoopTyped
  <2>2. asked <= plan[n].start
    BY <2>1 DEF LoopInv, PlanInv, PlannedMove
  <2>3. plan[n].start \in Nat
    BY <2>1 DEF MoveProposal
  <2>4. plan[n].start >= asked
    BY <2>1, <2>2, <2>3
  <2>5. QED BY <2>1, <2>4 DEF LoopInv, InMorningOrder
<1>2. QED BY <1>1, LoopInvariant, PTL

\* An unfinished task may be moved.
LEMMA LiveMayMove ==
    ASSUME NEW from \in LiveStatuses, NEW to \in {"RESCHEDULED", "CARRIED_FORWARD"}
    PROVE  CanTransition(from, to)
<1>1. from \in Statuses
  BY DEF Statuses
<1>2. to \in EarlyExits /\ to \in LateExits
  BY DEF EarlyExits, LateExits
<1>3. QED BY <1>1, <1>2 DEF CanTransition, Transitions, LiveStatuses

\* A fresh move is refused for the two reasons only.
LEMMA FreshRefusal ==
    ASSUME LoopInv, ExecuteNext, fresh, tasks' = tasks
    PROVE  LET p == Head(plan) IN
           \/ Cardinality(RecentMoves(p.task, clock)) >= MaxMoves
           \/ tasks[p.task].deadline # NoTime /\ p.start >= tasks[p.task].deadline
<1> DEFINE p == Head(plan)
           c == ProposedCall(p)
           i == p.task
<1>1. /\ TypeOK /\ LoopTyped /\ PlanInv /\ clock \in Nat /\ Len(tasks) \in Nat
      /\ DOMAIN tasks = 1 .. Len(tasks) /\ plan \in Seq(MoveProposal) /\ plan # <<>>
  BY ListShape DEF LoopInv, EngineHolds, LoopTyped, ExecuteNext
<1>2. p \in MoveProposal /\ i \in 1 .. Len(tasks) /\ PlannedMove(p)
  BY <1>1, NextMove
<1>3. ~IsTerminal(tasks[i])
  <2>1. p = plan[1] /\ 1 \in 1 .. Len(plan)
    <3>1. Len(plan) \in Nat /\ Len(plan) >= 1 /\ p = plan[1]
      BY <1>1, TailShape
    <3>2. QED BY <3>1
  <2>2. QED BY <1>1, <2>1 DEF PlanInv
<1>4. /\ c \in ActionCall /\ c.task = i /\ c.start = p.start /\ c.end = p.end
      /\ c.deadline = NoTime /\ c.action \in {"reschedule_task", "carry_forward_task"}
      /\ MoveTask(c, clock) \/ ~CanMove(c, clock)
  BY <1>1, ExecuteShape
<1> HIDE DEF c
<1>5. ~CanMove(c, clock)
  <2>1. SUFFICES ASSUME MoveTask(c, clock) PROVE FALSE
    BY <1>4
  <2>2. Len(tasks') = Len(tasks) + 1
    BY <1>1, <1>4, <2>1, MoveShape
  <2>3. QED BY <1>1, <2>2
<1> HIDE DEF p
<1>6. p.start \in Nat /\ p.end \in Nat /\ p.start < p.end
  BY <1>2 DEF MoveProposal, PlannedMove
<1> DEFINE d == tasks[i].deadline
           count == Cardinality(RecentMoves(i, clock))
<1>7. d \in Int /\ tasks[i].status \in Statuses
  BY <1>1, <1>2, TaskFields
<1>8. count \in Nat /\ MaxMoves \in Nat
  <2>1. RecentMoves(i, clock) \in SUBSET DOMAIN tasks
    BY DEF RecentMoves, Ancestors
  <2>2. QED BY <1>1, <2>1, PositionsFinite, MovesAssumption
<1>9. CanTransition(tasks[i].status, MovedStatus(c))
  <2>1. tasks[i].status \in LiveStatuses
    BY <1>3, <1>7 DEF IsTerminal, Statuses
  <2>2. MovedStatus(c) \in {"RESCHEDULED", "CARRIED_FORWARD"}
    BY DEF MovedStatus
  <2>3. QED BY <2>1, <2>2, LiveMayMove
<1> HIDE DEF i
<1>10. DeadlineAfter(c) = d
  BY <1>4 DEF DeadlineAfter
<1> HIDE DEF d, count
<1>11. ASSUME d = NoTime \/ p.start < d PROVE ValidSchedule(c.start, c.end, DeadlineAfter(c))
  <2> DEFINE s == p.start
             e == p.end
  <2>1. s < e /\ (d = NoTime \/ s < d) /\ c.start = s /\ c.end = e
    BY <1>4, <1>6, <1>11
  <2> HIDE DEF s, e
  <2>2. ValidSchedule(s, e, d)
    <3>1. s # NoTime
      BY <1>6 DEF s, NoTime
    <3>2. QED BY <2>1, <3>1 DEF ValidSchedule
  <2>3. QED BY <1>10, <2>1, <2>2
<1>12. c.start # NoTime /\ c.end # NoTime /\ Known(c)
  BY <1>1, <1>2, <1>4, <1>6 DEF NoTime, Known
<1>13. ~(count < MaxMoves) \/ ~(d = NoTime \/ p.start < d)
  BY <1>4, <1>5, <1>9, <1>11, <1>12 DEF CanMove, count
<1>14. count >= MaxMoves \/ (d # NoTime /\ p.start >= d)
  BY <1>6, <1>7, <1>8, <1>13
<1>15. QED BY <1>14 DEF count, d, i, p

\* What the heuristic proposes is what the engine accepts (StubHeuristicLLM.decide,
\* _relocate): the property PlansAreAccepted.
THEOREM PlansAcceptedCorrect == PlanSpec => PlansAreAccepted
<1> DEFINE Accepts ==
              LET p == Head(plan) IN
              plan # <<>> /\ plan' = Tail(plan) /\ fresh /\ tasks' = tasks =>
                 \/ Cardinality(RecentMoves(p.task, clock)) >= MaxMoves
                 \/ tasks[p.task].deadline # NoTime /\ p.start >= tasks[p.task].deadline
<1>1. LoopInv /\ [PlanNext]_loopVars => [Accepts]_loopVars
  <2> SUFFICES ASSUME LoopInv, [PlanNext]_loopVars, plan # <<>>, plan' = Tail(plan),
                      fresh, tasks' = tasks
               PROVE  LET p == Head(plan) IN
                      \/ Cardinality(RecentMoves(p.task, clock)) >= MaxMoves
                      \/ tasks[p.task].deadline # NoTime /\ p.start >= tasks[p.task].deadline
    OBVIOUS
  <2>1. plan' # plan
    <3>1. plan \in Seq(MoveProposal)
      BY DEF LoopInv, LoopTyped
    <3>2. Len(Tail(plan)) = Len(plan) - 1 /\ Len(plan) \in Nat
      BY <3>1, TailShape
    <3> DEFINE n == Len(plan)
    <3>3. n - 1 # n
      <4>1. n \in Nat
        BY <3>2
      <4> HIDE DEF n
      <4>2. QED BY <4>1
    <3>4. Tail(plan) = plan => Len(Tail(plan)) = n
      OBVIOUS
    <3>5. Tail(plan) # plan
      BY <3>2, <3>3, <3>4
    <3>6. QED BY <3>5
  <2>2. ExecuteNext
    BY <2>1 DEF PlanNext, Advance, Pass, Enable, Ask, UserActs, loopVars, planVars
  <2>3. QED BY <2>2, FreshRefusal
<1>2. QED BY <1>1, LoopInvariant, PTL DEF PlanSpec, PlansAreAccepted

-----------------------------------------------------------------------------
(* The loop cannot run away                                                 *)

\* A set of one or two things has at most two members.
LEMMA AtMostTwo ==
    ASSUME NEW a, NEW b, NEW S \in SUBSET {a, b}
    PROVE  IsFiniteSet(S) /\ Cardinality(S) <= 2
<1>1. IsFiniteSet({a}) /\ Cardinality({a}) = 1
  BY FS_Singleton
<1>2. {a, b} = {a} \cup {b}
  OBVIOUS
<1>3. IsFiniteSet({a} \cup {b}) /\ Cardinality({a} \cup {b}) <= 2
  <2>1. /\ IsFiniteSet({a} \cup {b})
        /\ Cardinality({a} \cup {b}) = IF b \in {a} THEN Cardinality({a}) ELSE Cardinality({a}) + 1
    BY <1>1, FS_AddElement
  <2>2. QED BY <1>1, <2>1
<1>4. IsFiniteSet({a, b}) /\ Cardinality({a, b}) <= 2
  BY <1>2, <1>3
<1>5. IsFiniteSet(S) /\ Cardinality(S) <= Cardinality({a, b})
  BY <1>4, FS_Subset
<1>6. Cardinality(S) \in Nat /\ Cardinality({a, b}) \in Nat
  BY <1>4, <1>5, FS_CardinalityType
<1>7. QED BY <1>4, <1>5, <1>6

\* The moves of a task's lineage at this instant.
MovesNow(i) == (Ancestors(tasks, i) \cup {i}) \cap MovedAt(clock)

\* A task that was moved at this instant, and its parent perhaps, are all of
\* its lineage that was: the parent's window had begun to exist earlier.
LEMMA MovedNow ==
    ASSUME LoopInv, NEW i \in 1 .. Len(tasks), i \in MovedAt(clock)
    PROVE  Cardinality(MovesNow(i)) <= 2
<1>1. /\ EngineHolds /\ TypeOK /\ DatesHold /\ clock \in Nat
      /\ DOMAIN tasks = 1 .. Len(tasks) /\ Len(tasks) \in Nat
  BY ListShape DEF LoopInv, EngineHolds, LoopTyped
<1>2. IsMoved(tasks[i]) /\ tasks[i].lastTransitionAt = clock
  BY DEF MovedAt
<1>3. /\ tasks[i].createdAt <= clock /\ tasks[i].createdAt \in Nat
      /\ tasks[i].end <= clock /\ tasks[i].end \in Int
      /\ WalkDated(i) /\ ChildDated(i)
  <2>1. TaskDated(tasks[i], clock) /\ MovedWhenOver(tasks[i]) /\ WalkDated(i) /\ ChildDated(i)
    BY <1>1, DatesByTask
  <2>2. tasks[i].end <= clock
    BY <1>2, <2>1 DEF MovedWhenOver
  <2>3. QED BY <1>1, <2>1, <2>2, TaskFields DEF TaskDated
<1>4. \A j \in 1 .. Len(tasks) : tasks[j].lastTransitionAt \in Int /\ tasks[j].createdAt \in Nat
  BY <1>1, TaskFields
<1>5. CASE tasks[i].createdAt < clock
  <2>1. ASSUME NEW j \in Ancestors(tasks, i) PROVE j \notin MovedAt(clock)
    <3>1. j \in 1 .. Len(tasks) /\ tasks[j].lastTransitionAt <= tasks[i].createdAt
      BY <1>1, <1>3 DEF WalkDated, Ancestors
    <3>2. tasks[j].lastTransitionAt # clock
      BY <1>1, <1>3, <1>4, <1>5, <3>1
    <3>3. QED BY <3>2 DEF MovedAt
  <2>2. MovesNow(i) \in SUBSET {i, i}
    BY <2>1 DEF MovesNow
  <2>3. QED BY <2>2, AtMostTwo
<1>6. CASE tasks[i].carriedFrom = NoTask
  <2>1. Ancestors(tasks, i) = {}
    BY <1>6, AncestorsOfRoot
  <2>2. MovesNow(i) \in SUBSET {i, i}
    BY <2>1 DEF MovesNow
  <2>3. QED BY <2>2, AtMostTwo
<1>7. CASE tasks[i].createdAt = clock /\ tasks[i].carriedFrom # NoTask
  <2>1. PICK p : p = tasks[i].carriedFrom
    OBVIOUS
  <2>2. p \in 1 .. Len(tasks) /\ IsChild(i, p)
    BY <1>1, <1>3, <1>7, <2>1, ParentIsMoved DEF ChildDated
  <2>3. tasks[p].lastTransitionAt = clock /\ tasks[p].createdAt # clock
    <3>1. tasks[p].lastTransitionAt = clock
      BY <1>7, <2>2 DEF IsChild
    <3>2. tasks[p].createdAt = clock => clock < tasks[i].end
      BY <2>2, <3>1 DEF IsChild
    <3>3. QED BY <1>1, <1>3, <3>1, <3>2
  <2>4. tasks[p].createdAt < clock
    <3>1. tasks[p].createdAt <= clock
      BY <2>2 DEF LoopInv, DatesHold
    <3>2. QED BY <1>1, <1>4, <2>2, <2>3, <3>1
  <2>5. ASSUME NEW j \in Ancestors(tasks, p) PROVE j \notin MovedAt(clock)
    <3>1. j \in 1 .. Len(tasks) /\ tasks[j].lastTransitionAt <= tasks[p].createdAt
      BY <1>1, <2>2 DEF DatesHold, Ancestors
    <3>2. tasks[j].lastTransitionAt # clock
      BY <1>1, <1>4, <2>2, <2>4, <3>1
    <3>3. QED BY <3>2 DEF MovedAt
  <2>6. Ancestors(tasks, i) = {p} \cup Ancestors(tasks, p)
    BY <1>1, <2>1, <2>2, WalkOfChild
  <2>7. MovesNow(i) \in SUBSET {i, p}
    BY <2>5, <2>6 DEF MovesNow
  <2>8. QED BY <2>7, AtMostTwo
<1>8. tasks[i].createdAt < clock \/ tasks[i].createdAt = clock
  BY <1>1, <1>3
<1>9. QED BY <1>5, <1>6, <1>7, <1>8

\* The loop cannot run away (StubHeuristicLLM: "re-fired WINDOW_ENDED and
\* rescheduled again, forever"): the property NoRunaway.
THEOREM NoRunawayCorrect == PlanSpec => []NoRunaway
<1>1. LoopInv => NoRunaway
  <2> SUFFICES ASSUME LoopInv PROVE NoRunaway
    OBVIOUS
  <2>1. EngineHolds /\ Len(tasks) \in Nat /\ DOMAIN tasks = 1 .. Len(tasks)
    BY ListShape DEF LoopInv, EngineHolds
  <2> DEFINE Bad == {i \in 1 .. Len(tasks) : ~(Cardinality(MovesNow(i)) <= 2)}
  <2>2. SUFFICES ASSUME Bad # {} PROVE FALSE
    BY <2>1 DEF NoRunaway, MovesNow
  <2>3. Bad \in SUBSET Nat
    BY <2>1
  <2>4. PICK i \in Bad : \A j \in Bad : i <= j
    <3> HIDE DEF Bad
    <3>1. QED BY <2>2, <2>3, LeastExists
  <2>5. i \in 1 .. Len(tasks) /\ ~(Cardinality(MovesNow(i)) <= 2)
    OBVIOUS
  <2>6. i \notin MovedAt(clock)
    BY <2>5, MovedNow
  <2>7. CASE tasks[i].carriedFrom = NoTask
    <3>1. Ancestors(tasks, i) = {}
      BY <2>7, AncestorsOfRoot
    <3>2. MovesNow(i) \in SUBSET {i, i}
      BY <3>1 DEF MovesNow
    <3>3. QED BY <2>5, <3>2, AtMostTwo
  <2>8. CASE tasks[i].carriedFrom # NoTask
    <3>1. PICK p : p = tasks[i].carriedFrom
      OBVIOUS
    <3>2. p \in 1 .. Len(tasks) /\ p < i
      BY <2>1, <2>5, <2>8, <3>1, ParentIsMoved
    <3>3. Ancestors(tasks, i) = {p} \cup Ancestors(tasks, p)
      BY <2>1, <2>5, <3>1, <3>2, WalkOfChild
    <3>4. MovesNow(i) = MovesNow(p)
      BY <2>6, <3>3 DEF MovesNow
    <3>5. p \in Bad
      BY <2>5, <3>2, <3>4
    <3>6. i <= p
      BY <2>4, <3>5
    <3>7. QED BY <2>1, <2>5, <3>2, <3>6
  <2>9. QED BY <2>7, <2>8
<1>2. QED BY <1>1, LoopInvariant, PTL

=============================================================================
