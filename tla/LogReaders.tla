----------------------------- MODULE LogReaders -----------------------------
(***************************************************************************)
(* Those who follow the event log while others write it (storage.py        *)
(* query_events; cli.py cmd_watch; mcp_server.py get_temporal_context).    *)
(* The watch asks for the events after the last it saw, a page at a time,  *)
(* and tells those that need a human.  A client of the MCP server asks     *)
(* what is new after what it kept of the last answer: the seq of the last  *)
(* event, the cursor, or the time.  An answer is made of two reads, of the *)
(* view and of the events, and others commit in between.                   *)
(*                                                                         *)
(* A row's seq is its place in the log.  The clock is everyone's and does  *)
(* not go back.  How a transaction is committed is EventStore's subject.   *)
(***************************************************************************)
EXTENDS Integers, SequencesExt

CONSTANTS
    Proc,        \* the processes that execute actions
    Clients,     \* what the client may pass on: "seq", "cursor" or "time"
    Kinds,       \* the kinds of events that are written
    PageSize,    \* events in an answer: cmd_watch's 200, a client's event_limit
    MaxInstant,  \* bound: the clock
    MaxLog       \* bound: the events of the log

\* "told" is one that describe has words for; "unreadable" one of a type from
\* a newer version, for which there is no EventType.
ASSUME KindsAssumption == Kinds \subseteq {"told", "silent", "unreadable"}
ASSUME ReadersAssumption == PageSize \in Nat \ {0} /\ MaxInstant \in Nat /\ MaxLog \in Nat

\* The client passes the last seq it was shown or the returned cursor as
\* since_seq, or the returned `now` as since.
ASSUME ClientsAssumption == Clients \subseteq {"seq", "cursor", "time"}
None == -1

VARIABLES
    clock,
    log,      \* the events: kind, recorded_at, and whether a pass wrote it
    reading,  \* per process, the `now` of the action that waits for the write lock
    watch,    \* cmd_watch: how far its poll is, and seen
    told,     \* what it printed, in order
    client,   \* what it passes on, since, and how far its call is, with the cursor or now
    shown,    \* history: the events it was shown
    cut       \* history: one of its answers was as long as a page

readersVars == <<clock, log, reading, watch, told, client, shown, cut>>

ReadersInit ==
    /\ clock = 0 /\ log = <<>>
    /\ reading = [p \in Proc |-> None]
    /\ watch = [at |-> "off", from |-> 0, seen |-> 0]
    /\ told = <<>>
    /\ \E by \in Clients : client = [by |-> by, since |-> None, at |-> "idle", offer |-> 0]
    /\ shown = {} /\ cut = FALSE

-----------------------------------------------------------------------------
(* The writers                                                              *)

Written(time, pass) ==
    /\ Len(log) < MaxLog
    /\ \E kind \in Kinds : log' = Append(log, [kind |-> kind, at |-> time, pass |-> pass])

\* Runtime.execute reads the clock, then waits for the write lock.
ReadClock(p) ==
    /\ reading[p] = None
    /\ reading' = [reading EXCEPT ![p] = clock]
    /\ UNCHANGED <<clock, log, watch, told, client, shown, cut>>

Execute(p) ==
    /\ reading[p] # None
    /\ Written(reading[p], FALSE)
    /\ reading' = [reading EXCEPT ![p] = None]
    /\ UNCHANGED <<clock, watch, told, client, shown, cut>>

\* run_pass reads it again while it holds the lock.
Pass ==
    /\ Written(clock, TRUE)
    /\ UNCHANGED <<clock, reading, watch, told, client, shown, cut>>

Advance ==
    /\ clock < MaxInstant
    /\ clock' = clock + 1
    /\ UNCHANGED <<log, reading, watch, told, client, shown, cut>>

-----------------------------------------------------------------------------
(* Queries                                                                  *)

Take(s, n) == SubSeq(s, 1, Min({n, Len(s)}))

Rows == [n \in DOMAIN log |-> n]     \* the seqs, in ascending order

\* The rows that a WHERE clause or a filter keeps, in their order.  (SelectSeq,
\* written out because nothing can be proved about that one.)
Where(rows, P) ==
    LET kept[n \in 0 .. Len(rows)] ==
            CASE n = 0 -> <<>>
              [] n # 0 /\ rows[n] \in P -> Append(kept[n - 1], rows[n])
              [] OTHER -> kept[n - 1]
    IN  kept[Len(rows)]

\* Mutant: the newest of them are served first.
After_Newest(seq) ==
    Reverse(Take(Reverse(Where(Rows, {n \in DOMAIN log : n > seq})), PageSize))

\* query_events: with since_seq or since_time the oldest of the events first ...
After(seq) == Take(Where(Rows, {n \in DOMAIN log : n > seq}), PageSize)

Since(time) == Take(Where(Rows, {n \in DOMAIN log : log[n].at >= time}), PageSize)

\* ... and without either the newest of all, in ascending order.
Latest == Reverse(Take(Reverse(Rows), PageSize))

\* _row_to_event of every row of the page; it raises for a type it does not know.
Readable(rows) == \A n \in ToSet(rows) : log[n].kind # "unreadable"

-----------------------------------------------------------------------------
(* cmd_watch                                                                *)

\* With --from-start, or after what the log holds.
WatchStart ==
    /\ watch.at = "off"
    /\ \E seen \in {0, Len(log)} :
          watch' = [at |-> "refresh", from |-> seen, seen |-> seen]
    /\ told' = <<>>
    /\ UNCHANGED <<clock, log, reading, client, shown, cut>>

\* describe has words for them.
Tells(rows) == Where(rows, {n \in DOMAIN log : log[n].kind = "told"})

\* Mutant: seen is left where it is by an event without words.
SeenAfter_Told(rows) == IF Tells(rows) = <<>> THEN watch.seen ELSE Last(Tells(rows))

SeenAfter(rows) == IF rows = <<>> THEN watch.seen ELSE Last(rows)

\* A poll tells the page after seen; one that cannot be read ends the watch.
WatchPoll ==
    /\ watch.at = "refresh"
    /\ LET rows == After(watch.seen) IN
          IF Readable(rows)
          THEN /\ told' = told \o Tells(rows)
               /\ watch' = [watch EXCEPT !.at = "sleep", !.seen = SeenAfter(rows)]
          ELSE /\ watch' = [watch EXCEPT !.at = "failed"]
               /\ UNCHANGED told
    /\ UNCHANGED <<clock, log, reading, client, shown, cut>>

WatchSleep ==
    /\ watch.at = "sleep"
    /\ watch' = [watch EXCEPT !.at = "refresh"]
    /\ UNCHANGED <<clock, log, reading, told, client, shown, cut>>

\* Interrupted, or --once.
WatchStop ==
    /\ watch.at = "sleep"
    /\ watch' = [watch EXCEPT !.at = "off"]
    /\ UNCHANGED <<clock, log, reading, told, client, shown, cut>>

-----------------------------------------------------------------------------
(* get_temporal_context                                                     *)

\* Mutant: the cursor is the seq of the next event.
Offer_Next ==
    CASE client.by = "cursor" -> Len(log) + 1
      [] client.by = "time" -> clock
      [] OTHER -> 0

\* What an answer offers to pass on, besides its events.
Offer ==
    CASE client.by = "cursor" -> Len(log)
      [] client.by = "time" -> clock
      [] OTHER -> 0

\* The view is refreshed and the clock read.
Ask ==
    /\ client.at = "idle"
    /\ client' = [client EXCEPT !.at = "asked", !.offer = Offer]
    /\ UNCHANGED <<clock, log, reading, watch, told, shown, cut>>

Page ==
    CASE client.since = None -> Latest
      [] client.since # None /\ client.by = "time" -> Since(client.since)
      [] OTHER -> After(client.since)

\* What the client passes the next time.
Kept(rows) ==
    CASE client.by # "seq" -> client.offer
      [] client.by = "seq" /\ rows # <<>> -> Last(rows)
      [] OTHER -> Max({0, client.since})

\* The events are read and the answer returned, or an error.
Answer ==
    /\ client.at = "asked"
    /\ IF Readable(Page)
       THEN /\ shown' = shown \cup ToSet(Page)
            /\ client' = [client EXCEPT !.at = "idle", !.since = Kept(Page)]
            /\ cut' = (cut \/ Len(Page) = PageSize)
       ELSE /\ client' = [client EXCEPT !.at = "idle"]
            /\ UNCHANGED <<shown, cut>>
    /\ UNCHANGED <<clock, log, reading, watch, told>>

ReadersNext ==
    \/ \E p \in Proc : ReadClock(p) \/ Execute(p)
    \/ Pass \/ Advance
    \/ WatchStart \/ WatchPoll \/ WatchSleep \/ WatchStop
    \/ Ask \/ Answer

ReadersSpec == ReadersInit /\ [][ReadersNext]_readersVars

\* A watch that runs polls again and again; writers and clients may stop.
FairReadersSpec == ReadersSpec /\ WF_readersVars(WatchPoll) /\ WF_readersVars(WatchSleep)

-----------------------------------------------------------------------------
(* Properties                                                               *)

\* The seqs after one and up to another.
Places(from, to) == [i \in 1 .. to - from |-> from + i]

\* The watch tells every event that needs a human, after the place where it
\* began and up to where it is, once and in the log's order, whatever was
\* committed between its polls and however many pages it is behind (cmd_watch).
WatchTellsEach == watch.at # "off" => told = Tells(Places(watch.from, watch.seen))

Shown(n) == n \in shown \/ client.since = None

\* What a client of get_temporal_context misses, whatever is committed between the
\* two reads of an answer.  One that passes the last seq it saw misses nothing,
\* and its pages leave no gap (query_events: "never skips any").  One that passes
\* the cursor misses nothing unless an answer was cut at event_limit.  One that
\* passes the time misses, besides, only what actions recorded: they read the
\* clock before they wait for the write lock, and may get behind it.
ClientMissesOnlyWhatIsCut ==
    /\ client.by = "seq" /\ shown # {} =>
          \E first \in DOMAIN log : shown = first .. client.since
    /\ client.by = "cursor" /\ ~cut =>
          \A n \in DOMAIN log : Shown(n) \/ n > client.since
    /\ client.by = "time" /\ ~cut =>
          \A n \in DOMAIN log : log[n].pass => Shown(n) \/ log[n].at >= client.since

\* A page of events without words does not hold up the watch: while it runs,
\* every event that needs a human is told in the end, unless a row that it
\* cannot read ended it.
EveryEventTold ==
    \A n \in 1 .. MaxLog :
        (watch.at \in {"refresh", "sleep"} /\ n \in DOMAIN log
            /\ n > watch.from /\ log[n].kind = "told")
        ~> (n \in ToSet(told) \/ watch.at \in {"off", "failed"})

=============================================================================
