-------------------------------- MODULE MCLogs -------------------------------
(* Those who follow a log, and those who move one, side by side: in a       *)
(* behaviour the watch, the client, or the transfer moves and the others    *)
(* stay as they began.  The watch does not look at times, and to a client   *)
(* "silent" events are like those the watch tells.                          *)
EXTENDS LogReaders, LogTransfer

VARIABLE side     \* the one that moves

allVars == <<readersVars, vars, side>>

Watch(action) == side = "watch" /\ action /\ UNCHANGED <<client, shown, cut, clock, vars, side>>
Client(action) ==
    /\ side = "client" /\ action /\ UNCHANGED <<watch, told, vars, side>>
    /\ \A n \in DOMAIN log' : log'[n].kind # "silent"
Transfer(action) == side = "transfer" /\ action /\ UNCHANGED <<readersVars, side>>

MCInit ==
    /\ side \in {"watch", "client", "transfer"}
    /\ ReadersInit
    /\ side # "client" => client.by = "seq"
    /\ Init

MCNext == Watch(ReadersNext) \/ Client(ReadersNext) \/ Transfer(Next)

\* The fairness of FairReadersSpec.
MCSpec ==
    /\ MCInit /\ [][MCNext]_allVars
    /\ WF_allVars(Watch(WatchPoll)) /\ WF_allVars(Watch(WatchSleep))

=============================================================================
