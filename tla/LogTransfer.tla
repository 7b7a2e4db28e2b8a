----------------------------- MODULE LogTransfer -----------------------------
(***************************************************************************)
(* Moving a log to another database while both are in use (storage.py      *)
(* export_jsonl, import_jsonl; cli.py cmd_export, cmd_import).  An export is a *)
(* file of the rows the log had when it began, written line by line; an import *)
(* checks that its database has no events, then takes the write lock and   *)
(* inserts the lines with their seqs.  A server on either database may commit *)
(* at any time, two imports may run at once, and each may die.             *)
(*                                                                         *)
(* SQLite, as the code uses it: one writer at a time, seq is a primary key and *)
(* the next one is above all before it, and the rows of a writer that died are *)
(* forgotten.  A log's seqs begin at 1 and have no gaps.                   *)
(***************************************************************************)
EXTENDS Integers, FiniteSets, FiniteSetsExt

CONSTANTS
    Importer,   \* the processes that import the file
    Nobody,     \* nobody holds the write lock of the new database
    MaxRows     \* bound: the rows a server commits to either database

ASSUME ImporterAssumption == Nobody \notin Importer
ASSUME RowsAssumption == MaxRows \in Nat \ {0}

VARIABLES
    source,   \* the last seq of the log that is moved
    file,     \* the export: its complete lines, or NoFile
    export,   \* the export's progress: the seq it goes to, or NoFile
    torn,     \* the file ends within a line
    target,   \* the rows of the new database
    lock,     \* who holds its write lock
    rows,     \* the uncommitted rows of who holds it
    import    \* per importer, how far it is

vars == <<source, file, export, torn, target, lock, rows, import>>

NoFile == -1

Init ==
    /\ source = 0
    /\ file = NoFile /\ export = NoFile /\ torn = FALSE
    /\ target = {} /\ lock = Nobody /\ rows = {}
    /\ import = [i \in Importer |-> "idle"]

-----------------------------------------------------------------------------
(* The log that is moved                                                    *)

\* A server commits events, several at a time.
Commit ==
    /\ \E n \in source + 1 .. MaxRows : source' = n
    /\ UNCHANGED <<file, export, torn, target, lock, rows, import>>

\* export_jsonl: never overwrites; one SELECT reads all rows.
ExportBegin ==
    /\ file = NoFile
    /\ file' = 0 /\ export' = source
    /\ UNCHANGED <<source, torn, target, lock, rows, import>>

ExportLine ==
    /\ export # NoFile /\ file < export
    /\ file' = file + 1
    /\ UNCHANGED <<source, export, torn, target, lock, rows, import>>

ExportEnd ==
    /\ export # NoFile /\ file = export
    /\ export' = NoFile
    /\ UNCHANGED <<source, file, torn, target, lock, rows, import>>

\* What was written stays, to the end of a line or not.
ExportDies ==
    /\ export # NoFile /\ file < export
    /\ export' = NoFile
    /\ torn' \in BOOLEAN
    /\ UNCHANGED <<source, file, target, lock, rows, import>>

-----------------------------------------------------------------------------
(* The new database                                                         *)

Own == 0    \* the origin of a row that was not imported

LastSeq(table) == Max({0} \cup {row.seq : row \in table})

\* A server that opened it commits an event.
ServerCommits ==
    /\ lock = Nobody /\ LastSeq(target) < MaxRows
    /\ target' = target \cup {[seq |-> LastSeq(target) + 1, origin |-> Own]}
    /\ UNCHANGED <<source, file, export, torn, lock, rows, import>>

\* Is there an event?  Asked before the lock is taken.
Check(i) ==
    /\ import[i] = "idle" /\ file # NoFile /\ target = {}
    /\ import' = [import EXCEPT ![i] = "checked"]
    /\ UNCHANGED <<source, file, export, torn, target, lock, rows>>

Begin(i) ==
    /\ import[i] = "checked" /\ lock = Nobody
    /\ lock' = i /\ rows' = {}
    /\ import' = [import EXCEPT ![i] = "inserting"]
    /\ UNCHANGED <<source, file, export, torn, target>>

Inserted == Cardinality(rows)

\* The row of the next line, with the seq it had.
NextRow == [seq |-> Inserted + 1, origin |-> Inserted + 1]

\* Mutant: a row that is there already is passed over.
Collides_Never(row) == FALSE

\* seq is the primary key.
Collides(row) == \E other \in target : other.seq = row.seq

Insert(i) ==
    /\ lock = i /\ Inserted < file /\ ~Collides(NextRow)
    /\ rows' = rows \cup {NextRow}
    /\ UNCHANGED <<source, file, export, torn, target, lock, import>>

ImportEnds(i, stage) ==
    /\ lock = i
    /\ lock' = Nobody /\ rows' = {}
    /\ import' = [import EXCEPT ![i] = stage]
    /\ UNCHANGED <<source, file, export, torn>>

\* At the end of the file, while the export may still be at work on it.
ImportCommits(i) ==
    /\ Inserted = file /\ ~torn
    /\ ImportEnds(i, "done")
    /\ target' = target \cup rows

\* Mutant: the rows inserted so far are kept.
ImportFails_Keeps(i) == ImportEnds(i, "idle") /\ target' = target \cup rows

\* A line is torn or its seq is taken, or the process dies: rollback.
ImportFails(i) == ImportEnds(i, "idle") /\ UNCHANGED target

Next ==
    \/ Commit
    \/ ExportBegin \/ ExportLine \/ ExportEnd \/ ExportDies
    \/ ServerCommits
    \/ \E i \in Importer :
          Check(i) \/ Begin(i) \/ Insert(i) \/ ImportCommits(i) \/ ImportFails(i)

Spec == Init /\ [][Next]_vars

-----------------------------------------------------------------------------
(* Properties                                                               *)

Imported == {row \in target : row.origin # Own}

\* The check is made before the lock is taken, so another import, or a server,
\* may have filled the database meanwhile; yet an import never merges into
\* events that are there.  What is imported keeps its seqs, and is the log from
\* its first event on without a gap, before all the database's own events; and no
\* process that failed or died left a part of the file behind (import_jsonl:
\* "Rebuild an EMPTY database", "seq is preserved").
ImportIsWhole ==
    /\ \A row \in Imported : row.seq = row.origin
    /\ {row.origin : row \in Imported} = 1 .. Cardinality(Imported)
    /\ \A row \in Imported, other \in target : other.origin = Own => row.seq < other.seq
    /\ Imported # {} => \E i \in Importer : import[i] = "done"

\* The committed events keep their seqs and new ones come after them, so no
\* reader that pages by seq and no agent's checkpoint misses one.
NewRowsComeAfter ==
    [][ /\ target \subseteq target'
        /\ \A row \in target' \ target : row.seq > LastSeq(target) ]_vars

=============================================================================
