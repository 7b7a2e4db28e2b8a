--------------------------- MODULE CalendarImport ---------------------------
(***************************************************************************)
(* Imports of calendar files (calendar_import.py) into the engine of       *)
(* TaskEngine.  An import takes the file's events one by one; for each it  *)
(* refreshes the view, chooses a call, and executes it in a transaction of *)
(* its own.  Between the two, and between two events, other imports, the   *)
(* user and the scheduler do what they do, and the process may crash.      *)
(*                                                                         *)
(* A file is a sequence of events with a uid, or NoUid, a window and two   *)
(* flags; other text, and the text of times, is left out.  The source is   *)
(* part of the uid.                                                        *)
(***************************************************************************)
EXTENDS TaskEngine, SequencesExt, TLC

CONSTANTS
    Importer,
    Files,        \* the files that are imported
    NoUid,
    NoFile,
    NoCall,
    UserWindows,  \* the <<start, end>> to which the user moves a task
    MaxUserCalls, \* bound: the calls of the user
    MaxImports    \* bound: the imports ever begun

VARIABLES
    todo,      \* the events an import still has to look at
    call,      \* the call chosen for the first of them, after the view was read
    \* history
    imports,   \* how many imports were begun
    userCalls, \* how many calls the user made
    file,      \* what each importer imports
    alone,     \* the importers with nobody else active and no refusal since they began
    settled    \* the file of an import that ended alone, until something happens

importVars == <<todo, call, imports, userCalls, file, alone, settled>>
allVars == <<tasks, seen, pending, importVars>>

CalendarEvent ==
    [uid : STRING, start : OptionalInstant, end : OptionalInstant,
     cancelled : BOOLEAN, recurring : BOOLEAN]

ASSUME FilesAssumption == Files \subseteq Seq(CalendarEvent)

ImportInit ==
    /\ Init
    /\ todo = [p \in Importer |-> <<>>] /\ call = [p \in Importer |-> NoCall]
    /\ imports = 0 /\ userCalls = 0
    /\ file = [p \in Importer |-> NoFile] /\ alone = {} /\ settled = NoFile

-----------------------------------------------------------------------------
(* What an import reads and chooses                                         *)

\* _finish_event: what cannot be represented is skipped.
Representable(e) ==
    /\ e.uid # NoUid /\ ~e.recurring
    /\ e.start # NoTime /\ e.end # NoTime /\ e.end > e.start

\* parse_ics
Parsed(f) ==
    LET kept[n \in 0 .. Len(f)] ==
            IF n = 0 THEN <<>>
            ELSE IF Representable(f[n]) THEN Append(kept[n - 1], f[n]) ELSE kept[n - 1]
    IN  kept[Len(f)]

Events == UNION {ToSet(Parsed(f)) : f \in Files}
Uids == {e.uid : e \in Events}

BaseKey(uid) == "ics:" \o uid
CancelKey(uid) == BaseKey(uid) \o ":cancelled"

Stamp(i, start, end) == ToString(<<i, start, end>>)

\* Mutant: the key of a move does not name the task that is moved.
MoveKey_NoHead(uid, i, e) == BaseKey(uid) \o Stamp(0, e.start, e.end)

MoveKey(uid, i, e) == BaseKey(uid) \o Stamp(i, e.start, e.end)

\* view.created_by_key
CreatedBy(key) == {i \in DOMAIN tasks : tasks[i].key = key}

\* lineage_heads: the newest version; a lineage is a chain.
Lineage(i) == {i} \cup {j \in DOMAIN tasks : i \in Ancestors(tasks, j)}

LineageHead(i) == CHOOSE j \in Lineage(i) : \A k \in Lineage(i) : k <= j

TheCall(key, action, i, start, end) ==
    [key |-> key, action |-> action, task |-> i,
     start |-> start, end |-> end, deadline |-> NoTime, holds |-> FALSE, oversized |-> FALSE]

CreateCall(e) == TheCall(BaseKey(e.uid), "create_task", NoTask, e.start, e.end)
CancelCall(e, i) == TheCall(CancelKey(e.uid), "cancel_task", i, NoTime, NoTime)
MoveCall(e, i) == TheCall(MoveKey(e.uid, i, e), "reschedule_task", i, e.start, e.end)

\* The loop's body up to runtime.execute.
Chosen(e) ==
    LET existing == CreatedBy(BaseKey(e.uid)) IN
    IF existing = {}
    THEN IF e.cancelled THEN NoCall
         ELSE CreateCall(e)
    ELSE LET head == LineageHead(CHOOSE i \in existing : TRUE)
             live == ~IsTerminal(tasks[head])
         IN  CASE live /\ e.cancelled -> CancelCall(e, head)
               [] live /\ ~e.cancelled
                     /\ (tasks[head].start # e.start \/ tasks[head].end # e.end) ->
                     MoveCall(e, head)
               [] OTHER -> NoCall      \* as it should be, or finished: the local decision wins

-----------------------------------------------------------------------------
(* The import, step by step                                                 *)

Active == {p \in Importer : todo[p] # <<>>}

Begin(p) ==
    /\ p \notin Active /\ imports < MaxImports
    /\ \E f \in Files :
          /\ Parsed(f) # <<>>
          /\ todo' = [todo EXCEPT ![p] = Parsed(f)]
          /\ file' = [file EXCEPT ![p] = f]
    /\ imports' = imports + 1
    /\ alone' = IF Active = {} THEN {p} ELSE {}
    /\ settled' = NoFile
    /\ UNCHANGED <<tasks, seen, pending, call, userCalls>>

\* The event is done with.
NextEvent(p) ==
    /\ todo' = [todo EXCEPT ![p] = Tail(@)]
    /\ call' = [call EXCEPT ![p] = NoCall]
    /\ settled' = IF Len(todo[p]) = 1 /\ p \in alone' THEN file[p] ELSE NoFile

\* store.refresh and the choice; an event that needs no call is done with.
Look(p) ==
    /\ p \in Active /\ call[p] = NoCall
    /\ alone' = alone \cap {p}
    /\ LET chosen == Chosen(todo[p][1]) IN
       \/ /\ chosen # NoCall
          /\ call' = [call EXCEPT ![p] = chosen]
          /\ settled' = NoFile
          /\ UNCHANGED todo
       \/ chosen = NoCall /\ NextEvent(p)
    /\ UNCHANGED <<tasks, seen, pending, imports, userCalls, file>>

\* runtime.execute
Run(p, now) ==
    /\ p \in Active /\ call[p] # NoCall
    /\ Execute(call[p], now)
    /\ alone' = IF call[p].key \in seen' THEN alone \cap {p} ELSE {}   \* applied or superseded
    /\ NextEvent(p)
    /\ UNCHANGED <<imports, userCalls, file>>

Crash(p) ==
    /\ p \in Active
    /\ todo' = [todo EXCEPT ![p] = <<>>]
    /\ call' = [call EXCEPT ![p] = NoCall]
    /\ alone' = {} /\ settled' = NoFile
    /\ UNCHANGED <<tasks, seen, pending, imports, userCalls, file>>

-----------------------------------------------------------------------------
(* The others                                                               *)

UserKey(n) == "user:" \o ToString(n)

Others == alone' = {} /\ settled' = NoFile /\ UNCHANGED <<todo, call, imports, file>>

\* The calls a user may make the n-th time, of task i.
UserCalls(n, i) ==
    {TheCall(UserKey(n), "complete_task", i, NoTime, NoTime),
     TheCall(UserKey(n), "drop_task", i, NoTime, NoTime)}
    \cup {TheCall(UserKey(n), "reschedule_task", i, w[1], w[2]) : w \in UserWindows}

\* Both are clients of the engine.
ImportCalls ==
    UNION {{CreateCall(e)} \cup UNION {{CancelCall(e, i), MoveCall(e, i)} : i \in 1 .. MaxTasks} :
              e \in Events}

CallsOfUsers == UNION {UserCalls(n, i) : n \in 0 .. MaxUserCalls - 1, i \in 1 .. MaxTasks}

ASSUME ClientsAssumption ==
    /\ ImportCalls \subseteq Calls /\ CallsOfUsers \subseteq Calls
    /\ NoCall \notin Calls
    /\ MaxUserCalls \in Nat /\ MaxImports \in Nat

(***************************************************************************)
(* Keys of different kinds differ, and those of one kind tell events, and  *)
(* tasks that are moved, apart.  The code forms them from the uid: a uid   *)
(* that ends as another one's cancellation does would break this.          *)
(***************************************************************************)
BaseKeys == {BaseKey(u) : u \in Uids}
CancelKeys == {CancelKey(u) : u \in Uids}
MoveKeys == UNION {{BaseKey(e.uid) \o Stamp(i, e.start, e.end) : i \in 1 .. MaxTasks} : e \in Events}
UserKeys == {UserKey(n) : n \in 0 .. MaxUserCalls - 1}

ASSUME KeysAssumption ==
    /\ BaseKeys \cap CancelKeys = {} /\ (BaseKeys \cup CancelKeys) \cap MoveKeys = {}
    /\ (BaseKeys \cup CancelKeys \cup MoveKeys) \cap UserKeys = {}
    /\ \A u, v \in Uids : u # v => BaseKey(u) # BaseKey(v) /\ CancelKey(u) # CancelKey(v)
    /\ \A d, e \in Events : \A i, j \in 1 .. MaxTasks :
          BaseKey(d.uid) \o Stamp(i, d.start, d.end) = BaseKey(e.uid) \o Stamp(j, e.start, e.end)
              => i = j

\* A file names an event once: what recurs, where a uid may be repeated, is skipped.
ASSUME UidsAssumption ==
    \A f \in Files : \A m, n \in DOMAIN Parsed(f) : Parsed(f)[m].uid = Parsed(f)[n].uid => m = n

User(now) ==
    /\ userCalls < MaxUserCalls
    /\ \E i \in DOMAIN tasks : \E c \in UserCalls(userCalls, i) : Apply(c, now, FALSE)
    /\ userCalls' = userCalls + 1
    /\ Others

Scheduler(now) ==
    /\ Tick(now) /\ tasks' # tasks
    /\ Others /\ UNCHANGED userCalls

ImportNext ==
    \/ \E p \in Importer : Begin(p) \/ Look(p) \/ Crash(p)
    \/ \E now \in 0 .. MaxInstant :
          (\E p \in Importer : Run(p, now)) \/ User(now) \/ Scheduler(now)

ImportSpec == ImportInit /\ [][ImportNext]_allVars

-----------------------------------------------------------------------------
(* Properties                                                               *)

VersionsOf(uid) == UNION {Lineage(i) : i \in CreatedBy(BaseKey(uid))}

\* However many imports race, crash and are repeated, an event has at most
\* one task that is not finished, and all its tasks are one lineage
\* (calendar_import.py: "An event's identity is (source, UID)").
OneTaskPerEvent ==
    \A u \in Uids :
        /\ Cardinality(CreatedBy(BaseKey(u))) <= 1
        /\ Cardinality({i \in VersionsOf(u) : ~IsTerminal(tasks[i])}) <= 1

Matches(e) ==
    LET heads == {LineageHead(i) : i \in CreatedBy(BaseKey(e.uid))}
    IN  /\ e.cancelled => \A h \in heads : IsTerminal(tasks[h])
        /\ ~e.cancelled => heads # {} /\ \A h \in heads :
              IsTerminal(tasks[h]) \/ (tasks[h].start = e.start /\ tasks[h].end = e.end)

\* After an import that nobody disturbed and nothing refused, each of its
\* events is as the file says, or was finished: also when the calendar goes
\* back to an earlier time ("flaps A, B, A is followed").  And importing the file
\* again, before anything else happened, does nothing ("re-importing the same file
\* does nothing").
SettledIsFollowed ==
    settled # NoFile =>
        \A e \in ToSet(Parsed(settled)) : Matches(e) /\ Chosen(e) = NoCall

=============================================================================
