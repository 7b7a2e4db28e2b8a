----------------------------- MODULE Logs_proofs -----------------------------
(***************************************************************************)
(* Proofs about LogTransfer, for every number of importers and of rows,    *)
(* and about LogReaders, for every log, page and client.                   *)
(***************************************************************************)
EXTENDS LogTransfer, LogReaders, SetInduction, FiniteSetTheorems

-----------------------------------------------------------------------------
(* The shape of the new database                                            *)

Row(k, origin) == [seq |-> k, origin |-> origin]

\* The first n lines of the file, as rows.
FileRows(n) == {Row(k, k) : k \in 1 .. n}

\* m imported rows, and after them those of the servers.
Table(m, n) == FileRows(m) \cup {Row(k, Own) : k \in m + 1 .. n}

\* The new database holds the file's first rows or none, then its own; a writer
\* that has inserted a row found the table empty, and nobody else can write.
TableInv ==
    /\ \E m, n \in Nat : m <= n /\ target = Table(m, n)
    /\ \E n \in Nat : rows = FileRows(n)
    /\ rows # {} => lock # Nobody /\ target = {}
    /\ lock \in Importer \cup {Nobody}
    /\ import \in [Importer -> {"idle", "checked", "inserting", "done"}]
    /\ lock # Nobody => import[lock] = "inserting"
    /\ Imported # {} => \E i \in Importer : import[i] = "done"

\* The rows of the file's first n lines are n.
LEMMA FileRowsCount ==
    ASSUME NEW n \in Nat
    PROVE  Cardinality(FileRows(n)) = n
<1> DEFINE f == [k \in 1 .. n |-> Row(k, k)]
<1>1. f \in Bijection(1 .. n, FileRows(n))
  <2>1. f \in Injection(1 .. n, FileRows(n))
    BY DEF Injection, IsInjective, FileRows, Row
  <2>2. f \in Surjection(1 .. n, FileRows(n))
    BY DEF Surjection, FileRows
  <2>3. QED BY <2>1, <2>2 DEF Bijection
<1>2. IsFiniteSet(1 .. n) /\ Cardinality(1 .. n) = n
  BY FS_Interval
<1>3. QED BY <1>1, <1>2, FS_Bijection, ExistsBijection(1 .. n, FileRows(n)) DEF ExistsBijection

\* The last seq of a table, after which the next row goes.
LEMMA TableLast ==
    ASSUME NEW m \in Nat, NEW n \in Nat, m <= n
    PROVE  LastSeq(Table(m, n)) = n
<1>1. {0} \cup {row.seq : row \in Table(m, n)} = 0 .. n
  <2>1. \A k \in 1 .. n : \E row \in Table(m, n) : row.seq = k
    <3> SUFFICES ASSUME NEW k \in 1 .. n PROVE \E row \in Table(m, n) : row.seq = k
      OBVIOUS
    <3>1. CASE k <= m
      <4>1. Row(k, k) \in Table(m, n)
        BY <3>1 DEF Table, FileRows
      <4>2. Row(k, k).seq = k
        BY DEF Row
      <4>3. QED BY <4>1, <4>2
    <3>2. CASE k > m
      <4>1. Row(k, Own) \in Table(m, n)
        BY <3>2 DEF Table
      <4>2. Row(k, Own).seq = k
        BY DEF Row
      <4>3. QED BY <4>1, <4>2
    <3>3. QED BY <3>1, <3>2
  <2>2. \A row \in Table(m, n) : row.seq \in 1 .. n
    BY DEF Table, FileRows, Row
  <2>3. QED BY <2>1, <2>2
<1>2. n \in 0 .. n /\ \A y \in 0 .. n : n >= y
  OBVIOUS
<1>3. \A x \in 0 .. n : (\A y \in 0 .. n : x >= y) => x = n
  BY <1>2
<1>4. Max(0 .. n) = n
  BY <1>2, <1>3 DEF Max
<1>5. QED BY <1>1, <1>4 DEF LastSeq

\* A table that is not empty holds seq 1, where every import begins.
LEMMA TableStarts ==
    ASSUME NEW m \in Nat, NEW n \in Nat, m <= n, n >= 1
    PROVE  \E row \in Table(m, n) : row.seq = 1
<1>1. CASE m >= 1
  <2>1. Row(1, 1) \in Table(m, n)
    BY <1>1 DEF Table, FileRows
  <2>2. Row(1, 1).seq = 1
    BY DEF Row
  <2>3. QED BY <2>1, <2>2
<1>2. CASE m = 0
  <2>1. Row(1, Own) \in Table(m, n)
    BY <1>2 DEF Table
  <2>2. Row(1, Own).seq = 1
    BY DEF Row
  <2>3. QED BY <2>1, <2>2
<1>3. QED BY <1>1, <1>2

\* A table without rows of either kind is empty.
LEMMA TableEmpty ==
    ASSUME NEW m \in Nat, m <= 0
    PROVE  Table(m, 0) = {}
BY DEF Table, FileRows

\* What of a table was imported.
LEMMA TableImported ==
    ASSUME NEW m \in Nat, NEW n \in Nat
    PROVE  {row \in Table(m, n) : row.origin # Own} = FileRows(m)
BY DEF Table, FileRows, Row, Own

-----------------------------------------------------------------------------
(* The invariant                                                            *)

\* Every step of the servers, the export and the imports keeps TableInv.
LEMMA TableStep == TableInv /\ [Next]_vars => TableInv'
<1> SUFFICES ASSUME TableInv, [Next]_vars PROVE TableInv'
  OBVIOUS
<1>0. PICK m \in Nat, n \in Nat : m <= n /\ target = Table(m, n)
  BY DEF TableInv
\* The new database is as it was, and so are its writers.
<1>1. CASE UNCHANGED <<target, lock, rows, import>>
  BY <1>1 DEF TableInv, Imported
<1>2. CASE ServerCommits
  <2>1. /\ lock = Nobody /\ target' = target \cup {Row(n + 1, Own)}
        /\ UNCHANGED <<lock, rows, import>>
    BY <1>0, <1>2, TableLast DEF ServerCommits, Row
  <2>2. target' = Table(m, n + 1) /\ n + 1 \in Nat /\ m <= n + 1
    BY <1>0, <2>1 DEF Table
  <2>3. Imported' = Imported
    BY <1>0, <2>2, TableImported DEF Imported
  <2>4. rows = {}
    BY <2>1 DEF TableInv
  <2>5. QED BY <2>1, <2>2, <2>3, <2>4 DEF TableInv
<1>3. ASSUME NEW i \in Importer, Check(i) PROVE TableInv'
  <2>1. /\ import[i] = "idle" /\ import' = [import EXCEPT ![i] = "checked"]
        /\ UNCHANGED <<target, lock, rows>>
    BY <1>3 DEF Check
  <2>2. \A j \in Importer : (import[j] \in {"done", "inserting"}) => import'[j] = import[j]
    BY <2>1 DEF TableInv
  <2>3. QED BY <2>1, <2>2 DEF TableInv, Imported
<1>4. ASSUME NEW i \in Importer, Begin(i) PROVE TableInv'
  <2>1. /\ import[i] = "checked" /\ import' = [import EXCEPT ![i] = "inserting"]
        /\ lock' = i /\ rows' = {} /\ UNCHANGED target
    BY <1>4 DEF Begin
  <2>2. /\ \A j \in Importer : import[j] = "done" => import'[j] = "done"
        /\ import'[i] = "inserting"
    BY <2>1 DEF TableInv
  <2>3. rows' = FileRows(0)
    BY <2>1 DEF FileRows
  <2>4. QED BY <2>1, <2>2, <2>3 DEF TableInv, Imported
<1>5. ASSUME NEW i \in Importer, Insert(i) PROVE TableInv'
  <2>1. PICK k \in Nat : rows = FileRows(k)
    BY DEF TableInv
  <2>2. NextRow = Row(k + 1, k + 1)
    BY <2>1, FileRowsCount DEF NextRow, Inserted, Row
  <2>3. /\ lock = i /\ ~Collides(NextRow) /\ rows' = rows \cup {NextRow}
        /\ UNCHANGED <<target, lock, import>>
    BY <1>5 DEF Insert
  <2>4. rows' = FileRows(k + 1)
    BY <2>1, <2>2, <2>3 DEF FileRows
  <2>5. target = {}
    <3>1. CASE k = 0
      <4>1. \A row \in target : row.seq # 1
        BY <2>2, <2>3, <3>1 DEF Collides, Row
      <4>2. n = 0
        BY <1>0, <4>1, TableStarts
      <4>3. QED BY <1>0, <4>2, TableEmpty
    <3>2. CASE k > 0
      <4>1. Row(1, 1) \in rows
        BY <2>1, <3>2 DEF FileRows
      <4>2. QED BY <4>1 DEF TableInv
    <3>3. QED BY <3>1, <3>2
  <2>6. lock # Nobody
    BY <2>3, ImporterAssumption
  <2>7. k + 1 \in Nat
    OBVIOUS
  <2>8. QED BY <2>3, <2>4, <2>5, <2>6, <2>7 DEF TableInv, Imported
<1>6. ASSUME NEW i \in Importer, NEW stage \in {"idle", "done"}, ImportEnds(i, stage)
      PROVE  /\ import' \in [Importer -> {"idle", "checked", "inserting", "done"}]
             /\ lock' = Nobody /\ rows' = FileRows(0)
             /\ \A j \in Importer : import[j] = "done" => import'[j] = "done"
             /\ import'[i] = stage
  <2>1. lock = i /\ lock' = Nobody /\ rows' = {} /\ import' = [import EXCEPT ![i] = stage]
    BY <1>6 DEF ImportEnds
  <2>2. lock # Nobody
    BY <2>1, ImporterAssumption
  <2>3. import \in [Importer -> {"idle", "checked", "inserting", "done"}] /\ import[i] = "inserting"
    BY <2>1, <2>2 DEF TableInv
  <2>4. rows' = FileRows(0)
    BY <2>1 DEF FileRows
  <2>5. import' \in [Importer -> {"idle", "checked", "inserting", "done"}] /\ import'[i] = stage
    BY <2>1, <2>3
  <2>6. \A j \in Importer : import[j] = "done" => import'[j] = "done"
    BY <2>1, <2>3
  <2>7. QED BY <2>1, <2>4, <2>5, <2>6
<1>7. ASSUME NEW i \in Importer, ImportCommits(i) PROVE TableInv'
  <2>1. ImportEnds(i, "done") /\ target' = target \cup rows
    BY <1>7 DEF ImportCommits
  <2>2. \E p, q \in Nat : p <= q /\ target' = Table(p, q)
    <3>1. CASE rows = {}
      BY <1>0, <2>1, <3>1
    <3>2. CASE rows # {}
      <4>1. PICK k \in Nat : rows = FileRows(k)
        BY DEF TableInv
      <4>2. target' = FileRows(k)
        BY <2>1, <3>2, <4>1 DEF TableInv
      <4>3. target' = Table(k, k)
        BY <4>2 DEF Table
      <4>4. QED BY <4>3
    <3>3. QED BY <3>1, <3>2
  <2>3. rows' = {}
    BY <2>1 DEF ImportEnds
  <2>4. QED BY <1>6, <2>1, <2>2, <2>3 DEF TableInv
<1>8. ASSUME NEW i \in Importer, ImportFails(i) PROVE TableInv'
  <2>1. ImportEnds(i, "idle") /\ UNCHANGED target /\ rows' = {}
    BY <1>8 DEF ImportFails, ImportEnds
  <2>2. QED BY <1>0, <1>6, <2>1 DEF TableInv, Imported
<1>9. QED
  BY <1>1, <1>2, <1>3, <1>4, <1>5, <1>7, <1>8
  DEF Next, Commit, ExportBegin, ExportLine, ExportEnd, ExportDies, vars

\* TableInv holds of every state.
LEMMA TableAlways == Spec => []TableInv
<1>1. Init => TableInv
  <2>1. Table(0, 0) = {} /\ FileRows(0) = {}
    BY DEF Table, FileRows
  <2>2. QED BY <2>1 DEF Init, TableInv, Imported
<1>2. QED BY <1>1, TableStep, PTL DEF Spec

-----------------------------------------------------------------------------
(* The properties                                                           *)

\* An import never merges into events that are there, although it checks before
\* it takes the lock (import_jsonl), and what is imported is the log from its first
\* event on, without a gap.
THEOREM ImportIsWholeCorrect == Spec => []ImportIsWhole
<1>1. TableInv => ImportIsWhole
  <2> SUFFICES ASSUME TableInv PROVE ImportIsWhole
    OBVIOUS
  <2>1. PICK m \in Nat, n \in Nat : m <= n /\ target = Table(m, n)
    BY DEF TableInv
  <2>2. Imported = FileRows(m) /\ Cardinality(Imported) = m
    BY <2>1, TableImported, FileRowsCount DEF Imported
  <2>3. \A row \in FileRows(m) : row.seq = row.origin /\ row.origin \in 1 .. m
    BY DEF FileRows, Row
  <2>4. {row.origin : row \in FileRows(m)} = 1 .. m
    <3>1. \A k \in 1 .. m : Row(k, k) \in FileRows(m) /\ Row(k, k).origin = k
      BY DEF FileRows, Row
    <3>2. QED BY <2>3, <3>1
  <2>5. \A row \in Table(m, n) : row.origin = Own => row.seq \in m + 1 .. n
    BY DEF Table, FileRows, Row, Own
  <2>6. \A row \in Imported, other \in target : other.origin = Own => row.seq < other.seq
    <3> SUFFICES ASSUME NEW row \in FileRows(m), NEW other \in Table(m, n), other.origin = Own
                 PROVE  row.seq < other.seq
      BY <2>1, <2>2
    <3>1. row.seq \in 1 .. m /\ other.seq \in m + 1 .. n
      BY <2>3, <2>5
    <3>2. QED BY <3>1
  <2>7. QED BY <2>2, <2>3, <2>4, <2>6 DEF ImportIsWhole, TableInv
<1>2. QED BY <1>1, TableAlways, PTL

\* Committed rows stay, and new ones come after them.
THEOREM NewRowsCorrect == Spec => NewRowsComeAfter
<1> DEFINE InOrder == /\ target \subseteq target'
                      /\ \A row \in target' \ target : row.seq > LastSeq(target)
<1>1. TableInv /\ [Next]_vars => [InOrder]_vars
  <2> SUFFICES ASSUME TableInv, Next PROVE InOrder
    BY DEF vars
  <2>0. PICK m \in Nat, n \in Nat : m <= n /\ target = Table(m, n)
    BY DEF TableInv
  <2>1. LastSeq(target) = n
    BY <2>0, TableLast
  <2>2. CASE UNCHANGED target
    BY <2>2
  <2>3. CASE ServerCommits
    BY <2>0, <2>1, <2>3 DEF ServerCommits
  <2>4. ASSUME NEW i \in Importer, ImportCommits(i) PROVE InOrder
    <3>1. target' = target \cup rows /\ (rows # {} => target = {})
      BY <2>4 DEF ImportCommits, TableInv
    <3>2. \A row \in rows : row.seq > 0
      BY DEF TableInv, FileRows, Row
    <3>3. rows # {} => n = 0
      <4>1. n >= 1 => target # {}
        BY <2>0, TableStarts
      <4>2. QED BY <2>0, <3>1, <4>1
    <3>4. QED BY <2>1, <3>1, <3>2, <3>3
  <2>5. QED
    BY <2>2, <2>3, <2>4
    DEF Next, Commit, ExportBegin, ExportLine, ExportEnd, ExportDies, Check, Begin, Insert,
        ImportFails
<1>2. QED BY <1>1, TableAlways, PTL DEF Spec, NewRowsComeAfter

-----------------------------------------------------------------------------
(* Filters                                                                  *)

\* One row of a filter: kept, or not.
Kept1(s, row, P) == IF row \in P THEN Append(s, row) ELSE s

\* f is a filter's way over the rows.
Filters(f, seqs, P) ==
    /\ f[0] = <<>>
    /\ \A n \in 1 .. Len(seqs) : f[n] = Kept1(f[n - 1], seqs[n], P)

\* Where goes over the rows one by one (the filters of query_events and cmd_watch).
LEMMA WhereSteps ==
    ASSUME NEW A, NEW P, NEW seqs \in Seq(A)
    PROVE  \E f \in [0 .. Len(seqs) -> Seq(A)] :
              Filters(f, seqs, P) /\ Where(seqs, P) = f[Len(seqs)]
<1> DEFINE N == Len(seqs)
           Steps(f) == f = [n \in 0 .. N |-> CASE n = 0 -> <<>>
                                               [] n # 0 /\ seqs[n] \in P -> Append(f[n - 1], seqs[n])
                                               [] OTHER -> f[n - 1]]
           none == <<>>
           step == [n \in 1 .. N |-> [w \in Seq(A) |-> Kept1(w, seqs[n], P)]]
           g == CHOOSE f : Steps(f)
<1>1. N \in Nat /\ none \in Seq(A) /\ \A n \in 1 .. N : seqs[n] \in A
  OBVIOUS
<1>2. step \in [1 .. N -> [Seq(A) -> Seq(A)]]
  BY <1>1 DEF Kept1
<1>3. PICK f \in [0 .. N -> Seq(A)] : Iterates(f, none, N, step)
  <2> HIDE DEF step, N, none
  <2>1. QED BY <1>1, <1>2, IterationExists
<1>4. f[0] = none /\ \A n \in 1 .. N : f[n] = Kept1(f[n - 1], seqs[n], P)
  <2>1. f[0] = none
    BY <1>3 DEF Iterates
  <2>2. ASSUME NEW n \in 1 .. N PROVE f[n] = Kept1(f[n - 1], seqs[n], P)
    <3>1. f[n - 1] \in Seq(A)
      BY <1>1, <1>3
    <3>2. QED BY <1>3, <3>1 DEF Iterates
  <2>3. QED BY <2>1, <2>2
<1> HIDE DEF step, N
<1>5. Steps(f)
  <2> DEFINE h == [n \in 0 .. N |-> CASE n = 0 -> <<>>
                                      [] n # 0 /\ seqs[n] \in P -> Append(f[n - 1], seqs[n])
                                      [] OTHER -> f[n - 1]]
  <2>1. ASSUME NEW n \in 0 .. N PROVE f[n] = h[n]
    <3>1. CASE n = 0
      BY <1>4, <3>1
    <3>2. CASE n # 0
      <4>1. n \in 1 .. N
        BY <3>2
      <4>2. f[n] = Kept1(f[n - 1], seqs[n], P)
        BY <1>4, <4>1
      <4>3. QED BY <3>2, <4>2 DEF Kept1
    <3>3. QED BY <3>1, <3>2
  <2> HIDE DEF h
  <2>2. f = [n \in 0 .. N |-> h[n]]
    BY <1>3, <2>1
  <2>3. QED BY <2>2 DEF h
<1>6. Steps(g)
  BY <1>5
<1>7. Where(seqs, P) = g[N]
  BY DEF Where, N
<1> HIDE DEF g
<1>8. g[0] = none /\ \A n \in 1 .. N : g[n] = Kept1(g[n - 1], seqs[n], P)
  <2> DEFINE h == [n \in 0 .. N |-> CASE n = 0 -> <<>>
                                      [] n # 0 /\ seqs[n] \in P -> Append(g[n - 1], seqs[n])
                                      [] OTHER -> g[n - 1]]
  <2>1. g = h
    BY <1>6
  <2>2. h[0] = none /\ \A n \in 1 .. N : h[n] = Kept1(g[n - 1], seqs[n], P)
    BY <1>1 DEF Kept1
  <2> HIDE DEF h
  <2>3. QED BY <2>1, <2>2
<1>9. AreAlike(f, g, N)
  <2>1. GoAlike(f, g, N)
    BY <1>4, <1>8 DEF GoAlike
  <2>2. QED BY <1>1, <2>1, IterationUnique
<1>10. g[N] = f[N]
  BY <1>1, <1>9 DEF AreAlike
<1>11. QED BY <1>3, <1>4, <1>7, <1>10 DEF N, Filters

\* What a filter keeps is rows.
LEMMA WhereType ==
    ASSUME NEW A, NEW P, NEW seqs \in Seq(A)
    PROVE  Where(seqs, P) \in Seq(A)
<1>1. PICK f \in [0 .. Len(seqs) -> Seq(A)] : Where(seqs, P) = f[Len(seqs)]
  BY WhereSteps
<1>2. Len(seqs) \in 0 .. Len(seqs)
  OBVIOUS
<1>3. QED BY <1>1, <1>2

\* No rows.
LEMMA WhereEmpty == ASSUME NEW P PROVE Where(<<>>, P) = <<>>
<1>1. <<>> \in Seq(Nat)
  OBVIOUS
<1>2. ASSUME NEW seqs \in Seq(Nat), seqs = <<>> PROVE Where(seqs, P) = <<>>
  <2>1. PICK f \in [0 .. Len(seqs) -> Seq(Nat)] :
            Filters(f, seqs, P) /\ Where(seqs, P) = f[Len(seqs)]
    BY WhereSteps
  <2>2. Len(seqs) = 0
    BY <1>2
  <2>3. QED BY <2>1, <2>2 DEF Filters
<1>3. QED BY <1>1, <1>2

\* One more row.
LEMMA WhereAppend ==
    ASSUME NEW A, NEW P, NEW seqs \in Seq(A), NEW row \in A
    PROVE  Where(Append(seqs, row), P) = Kept1(Where(seqs, P), row, P)
<1> DEFINE more == Append(seqs, row)
           N == Len(seqs)
<1>1. /\ more \in Seq(A) /\ Len(more) = N + 1 /\ N \in Nat
      /\ more[N + 1] = row /\ \A n \in 1 .. N : more[n] = seqs[n]
  OBVIOUS
<1> HIDE DEF more
<1>2. PICK f \in [0 .. N -> Seq(A)] : Filters(f, seqs, P) /\ Where(seqs, P) = f[N]
  BY WhereSteps
<1>3. PICK g : Filters(g, more, P) /\ Where(more, P) = g[N + 1]
  <2>1. more \in Seq(A) /\ Len(more) = N + 1
    BY <1>1
  <2>2. PICK g \in [0 .. Len(more) -> Seq(A)] : Filters(g, more, P) /\ Where(more, P) = g[Len(more)]
    BY <2>1, WhereSteps
  <2>3. QED BY <2>1, <2>2
<1>4. AreAlike(f, g, N)
  <2>1. f[0] = g[0]
    BY <1>2, <1>3 DEF Filters
  <2>2. ASSUME NEW n \in 1 .. N, f[n - 1] = g[n - 1] PROVE f[n] = g[n]
    <3>1. n \in 1 .. Len(more) /\ more[n] = seqs[n]
      BY <1>1
    <3>2. QED BY <1>2, <1>3, <2>2, <3>1 DEF Filters
  <2>3. GoAlike(f, g, N)
    BY <2>1, <2>2 DEF GoAlike
  <2>4. QED BY <1>1, <2>3, IterationUnique
<1>5. f[N] = g[N]
  BY <1>1, <1>4 DEF AreAlike
<1>6. g[N + 1] = Kept1(g[N], row, P)
  <2>1. N + 1 \in 1 .. Len(more) /\ N + 1 - 1 = N
    BY <1>1
  <2>2. QED BY <1>1, <1>3, <2>1 DEF Filters
<1>7. QED BY <1>2, <1>3, <1>5, <1>6 DEF more

AppendsAfter(A) ==
    \A x \in Seq(A), y \in Seq(A), e \in A : Append(x \o y, e) = x \o Append(y, e)

\* One more element after two sequences is one more after the second.
LEMMA ConcatAppend ==
    ASSUME NEW A
    PROVE  AppendsAfter(A)
<1> USE DEF AppendsAfter
<1> SUFFICES ASSUME NEW x \in Seq(A), NEW y \in Seq(A), NEW e \in A
             PROVE  Append(x \o y, e) = x \o Append(y, e)
  OBVIOUS
<1>1. <<e>> \in Seq(A) /\ x \o y \in Seq(A)
  OBVIOUS
<1>2. Append(x \o y, e) = (x \o y) \o <<e>> /\ Append(y, e) = y \o <<e>>
  BY <1>1, AppendIsConcat
<1>3. \A last \in Seq(A) : (x \o y) \o last = x \o (y \o last)
  BY ConcatAssociative
<1>4. QED BY <1>1, <1>2, <1>3

\* A filter of rows that are put together.
LEMMA WhereConcat ==
    ASSUME NEW A, NEW P, NEW a \in Seq(A), NEW b \in Seq(A)
    PROVE  Where(a \o b, P) = Where(a, P) \o Where(b, P)
<1> DEFINE T == {r \in Seq(A) : Where(a \o r, P) = Where(a, P) \o Where(r, P)}
<1>00. AppendsAfter(A)
  BY ConcatAppend
<1>0. Where(a, P) \in Seq(A)
  BY WhereType
<1>1. <<>> \in T
  <2>1. a \o <<>> = a /\ Where(a, P) \o <<>> = Where(a, P) /\ <<>> \in Seq(A)
    BY <1>0
  <2>2. QED BY <2>1, WhereEmpty
<1>2. ASSUME NEW r \in Seq(A), NEW row \in A, r \in T PROVE Append(r, row) \in T
  <2>1. a \o Append(r, row) = Append(a \o r, row) /\ a \o r \in Seq(A) /\ Append(r, row) \in Seq(A)
    OBVIOUS
  <2>2. Where(a \o Append(r, row), P) = Kept1(Where(a, P) \o Where(r, P), row, P)
    BY <1>2, <2>1, WhereAppend
  <2>3. Where(Append(r, row), P) = Kept1(Where(r, P), row, P) /\ Where(r, P) \in Seq(A)
    BY WhereAppend, WhereType
  <2>4. Kept1(Where(a, P) \o Where(r, P), row, P) = Where(a, P) \o Kept1(Where(r, P), row, P)
    <3> DEFINE x == Where(a, P)
               y == Where(r, P)
    <3>1. x \in Seq(A) /\ y \in Seq(A)
      BY <1>0, <2>3
    <3> HIDE DEF x, y, T
    <3>2. Append(x \o y, row) = x \o Append(y, row)
      BY <3>1, <1>00 DEF AppendsAfter
    <3>3. QED BY <3>2 DEF Kept1, x, y
  <2>5. QED BY <2>1, <2>2, <2>3, <2>4
<1> HIDE DEF T
<1>3. \A r \in Seq(A) : r \in T
  BY <1>1, <1>2, SequencesGrow
<1>4. QED BY <1>3 DEF T

\* Two conditions that say the same of the rows.
LEMMA WhereSame ==
    ASSUME NEW A, NEW P, NEW Q, NEW seqs \in Seq(A), \A e \in A : e \in P <=> e \in Q
    PROVE  Where(seqs, P) = Where(seqs, Q)
<1> DEFINE T == {r \in Seq(A) : Where(r, P) = Where(r, Q)}
<1>1. <<>> \in T
  <2>1. <<>> \in Seq(A)
    OBVIOUS
  <2>2. QED BY <2>1, WhereEmpty
<1>2. ASSUME NEW r \in Seq(A), NEW row \in A, r \in T PROVE Append(r, row) \in T
  <2>1. Append(r, row) \in Seq(A)
    OBVIOUS
  <2>2. /\ Where(Append(r, row), P) = Kept1(Where(r, P), row, P)
        /\ Where(Append(r, row), Q) = Kept1(Where(r, Q), row, Q)
    BY WhereAppend
  <2>3. Where(r, P) = Where(r, Q) /\ (row \in P <=> row \in Q)
    BY <1>2
  <2>4. Where(Append(r, row), P) = Where(Append(r, row), Q)
    BY <2>2, <2>3 DEF Kept1
  <2>5. QED BY <2>1, <2>4
<1> HIDE DEF T
<1>3. \A r \in Seq(A) : r \in T
  BY <1>1, <1>2, SequencesGrow
<1>4. QED BY <1>3 DEF T

\* A condition that all rows meet, or none.
LEMMA WhereAll ==
    ASSUME NEW A, NEW P, NEW seqs \in Seq(A)
    PROVE  /\ A \subseteq P => Where(seqs, P) = seqs
           /\ A \cap P = {} => Where(seqs, P) = <<>>
<1> DEFINE T == {r \in Seq(A) : /\ A \subseteq P => Where(r, P) = r
                                /\ A \cap P = {} => Where(r, P) = <<>>}
<1>1. <<>> \in T
  <2>1. <<>> \in Seq(A)
    OBVIOUS
  <2>2. QED BY <2>1, WhereEmpty
<1>2. ASSUME NEW r \in Seq(A), NEW row \in A, r \in T PROVE Append(r, row) \in T
  <2>1. Append(r, row) \in Seq(A)
    OBVIOUS
  <2>2. Where(Append(r, row), P) = Kept1(Where(r, P), row, P)
    BY WhereAppend
  <2>3. A \subseteq P => Where(Append(r, row), P) = Append(r, row)
    BY <1>2, <2>2 DEF Kept1
  <2>4. A \cap P = {} => Where(Append(r, row), P) = <<>>
    BY <1>2, <2>2 DEF Kept1
  <2>5. QED BY <2>1, <2>3, <2>4
<1> HIDE DEF T
<1>3. \A r \in Seq(A) : r \in T
  BY <1>1, <1>2, SequencesGrow
<1>4. QED BY <1>3 DEF T

\* The rows of a filter are those that meet the condition.
LEMMA WhereSet ==
    ASSUME NEW A, NEW P, NEW seqs \in Seq(A)
    PROVE  ToSet(Where(seqs, P)) = ToSet(seqs) \cap P
<1> DEFINE T == {r \in Seq(A) : ToSet(Where(r, P)) = ToSet(r) \cap P}
<1>1. <<>> \in T
  <2>1. <<>> \in Seq(A) /\ ToSet(<<>>) = {}
    BY DEF ToSet
  <2>2. QED BY <2>1, WhereEmpty
<1>2. ASSUME NEW r \in Seq(A), NEW row \in A, r \in T PROVE Append(r, row) \in T
  <2>0. ASSUME NEW s \in Seq(A) PROVE ToSet(Append(s, row)) = ToSet(s) \cup {row}
    <3>1. /\ DOMAIN Append(s, row) = DOMAIN s \cup {Len(s) + 1}
          /\ Append(s, row)[Len(s) + 1] = row
          /\ \A n \in DOMAIN s : Append(s, row)[n] = s[n]
      OBVIOUS
    <3>2. QED BY <3>1 DEF ToSet
  <2>1. Append(r, row) \in Seq(A) /\ Where(r, P) \in Seq(A)
    BY WhereType
  <2>2. Where(Append(r, row), P) = Kept1(Where(r, P), row, P)
    BY WhereAppend
  <2>3. CASE row \in P
    <3>1. ToSet(Where(Append(r, row), P)) = ToSet(Where(r, P)) \cup {row}
      BY <2>0, <2>1, <2>2, <2>3 DEF Kept1
    <3>2. ToSet(Append(r, row)) = ToSet(r) \cup {row}
      BY <2>0
    <3>3. QED BY <1>2, <2>1, <2>3, <3>1, <3>2
  <2>4. CASE row \notin P
    <3>1. Where(Append(r, row), P) = Where(r, P)
      BY <2>2, <2>4 DEF Kept1
    <3>2. ToSet(Append(r, row)) = ToSet(r) \cup {row}
      BY <2>0
    <3>3. QED BY <1>2, <2>1, <2>4, <3>1, <3>2
  <2>5. QED BY <2>3, <2>4
<1> HIDE DEF T
<1>3. \A r \in Seq(A) : r \in T
  BY <1>1, <1>2, SequencesGrow
<1>4. QED BY <1>3 DEF T

-----------------------------------------------------------------------------
(* Pages                                                                    *)

\* The greater of two numbers.
LEMMA MaxOfTwo ==
    ASSUME NEW a \in Int, NEW b \in Int
    PROVE  Max({a, b}) \in {a, b} /\ Max({a, b}) >= a /\ Max({a, b}) >= b
<1>1. \E x \in {a, b} : \A y \in {a, b} : x >= y
  BY a >= b \/ b >= a
<1>2. QED BY <1>1 DEF Max

\* The smaller of two numbers.
LEMMA MinOfTwo ==
    ASSUME NEW a \in Int, NEW b \in Int
    PROVE  Min({a, b}) \in {a, b} /\ Min({a, b}) <= a /\ Min({a, b}) <= b
<1>1. \E x \in {a, b} : \A y \in {a, b} : x <= y
  BY a <= b \/ b <= a
<1>2. QED BY <1>1 DEF Min

\* The seqs after one and up to another are so many, and each is its place's.
LEMMA PlacesType ==
    ASSUME NEW from \in Nat, NEW to \in Nat, from <= to
    PROVE  /\ Places(from, to) \in Seq(from + 1 .. to)
           /\ Len(Places(from, to)) = to - from
           /\ \A i \in 1 .. to - from : Places(from, to)[i] = from + i
           /\ ToSet(Places(from, to)) = from + 1 .. to
           /\ from < to => Places(from, to) # <<>> /\ Last(Places(from, to)) = to
           /\ from = to => Places(from, to) = <<>>
<1> DEFINE s == Places(from, to)
           N == to - from
<1>1. N \in Nat /\ s = [i \in 1 .. N |-> from + i]
  BY DEF Places
<1>2. \A i \in 1 .. N : from + i \in from + 1 .. to
  OBVIOUS
<1> HIDE DEF s
<1>3. s \in Seq(from + 1 .. to) /\ Len(s) = N /\ \A i \in 1 .. N : s[i] = from + i
  <2> HIDE DEF N
  <2>1. QED BY <1>1, <1>2
<1>4. ToSet(s) = from + 1 .. to
  <2>1. DOMAIN s = 1 .. N
    BY <1>1
  <2>2. \A n \in from + 1 .. to : n - from \in 1 .. N /\ s[n - from] = n
    BY <1>3
  <2>3. \A i \in 1 .. N : s[i] \in from + 1 .. to
    BY <1>2, <1>3
  <2>4. QED BY <2>1, <2>2, <2>3 DEF ToSet
<1>5. from < to => s # <<>> /\ Last(s) = to
  <2> SUFFICES ASSUME from < to PROVE s # <<>> /\ Last(s) = to
    OBVIOUS
  <2>1. N \in 1 .. N /\ from + N = to
    OBVIOUS
  <2>2. s[N] = to /\ Len(s) # 0
    BY <1>3, <2>1
  <2>3. QED BY <1>3, <2>2 DEF Last
<1>6. from = to => s = <<>>
  BY <1>3
<1>7. QED BY <1>3, <1>4, <1>5, <1>6 DEF s

\* s holds the seqs after one and up to another.
ArePlaces(s, from, to) ==
    s \in Seq(Nat) /\ Len(s) = to - from /\ \A i \in 1 .. to - from : s[i] = from + i

\* Nothing else does.
LEMMA PlacesUnique ==
    ASSUME NEW from \in Nat, NEW to \in Nat, from <= to
    PROVE  /\ ArePlaces(Places(from, to), from, to)
           /\ \A s : ArePlaces(s, from, to) => s = Places(from, to)
<1> DEFINE p == Places(from, to)
<1>1. ArePlaces(p, from, to)
  <2>1. /\ p \in Seq(from + 1 .. to) /\ Len(p) = to - from
        /\ \A i \in 1 .. to - from : p[i] = from + i
    BY PlacesType
  <2>2. from + 1 .. to \subseteq Nat
    OBVIOUS
  <2> HIDE DEF p
  <2>3. p \in Seq(Nat)
    BY <2>1, <2>2
  <2>4. QED BY <2>1, <2>3 DEF ArePlaces
<1> HIDE DEF p
<1>2. ASSUME NEW s, ArePlaces(s, from, to) PROVE s = p
  BY <1>1, <1>2 DEF ArePlaces
<1>3. QED BY <1>1, <1>2 DEF p

\* A stretch of the log in two parts.
LEMMA PlacesConcat ==
    ASSUME NEW a \in Nat, NEW b \in Nat, NEW c \in Nat, a <= b, b <= c
    PROVE  Places(a, c) = Places(a, b) \o Places(b, c)
<1> DEFINE r == Places(a, b)
           s == Places(b, c)
           t == r \o s
<1>1. ArePlaces(r, a, b) /\ ArePlaces(s, b, c)
  BY PlacesUnique
<1> HIDE DEF r, s
<1>2. t \in Seq(Nat) /\ Len(t) = c - a
  <2>1. r \in Seq(Nat) /\ s \in Seq(Nat) /\ Len(r) = b - a /\ Len(s) = c - b
    BY <1>1 DEF ArePlaces
  <2>2. t \in Seq(Nat) /\ Len(t) = Len(r) + Len(s)
    BY <2>1, ConcatProperties
  <2>3. b - a + (c - b) = c - a
    OBVIOUS
  <2>4. QED BY <2>1, <2>2, <2>3
<1>3. ASSUME NEW i \in 1 .. c - a PROVE t[i] = a + i
  <2>0. PICK k \in Int : k = i - (b - a)
    OBVIOUS
  <2>1. r \in Seq(Nat) /\ s \in Seq(Nat) /\ Len(r) = b - a /\ Len(s) = c - b
    BY <1>1 DEF ArePlaces
  <2>2. i \in 1 .. Len(r) + Len(s)
    BY <2>1
  <2>3. t[i] = IF i <= Len(r) THEN r[i] ELSE s[i - Len(r)]
    BY <2>1, <2>2, ConcatProperties
  <2>4. CASE i <= b - a
    <3>1. t[i] = r[i] /\ i \in 1 .. b - a
      BY <2>1, <2>3, <2>4
    <3>2. QED BY <1>1, <3>1 DEF ArePlaces
  <2>5. CASE i > b - a
    <3>1. t[i] = s[k] /\ k \in 1 .. c - b /\ b + k = a + i
      BY <2>0, <2>1, <2>3, <2>5
    <3>2. s[k] = b + k
      BY <1>1, <3>1 DEF ArePlaces
    <3>3. QED BY <3>1, <3>2
  <2>6. i <= b - a \/ i > b - a
    OBVIOUS
  <2>7. QED BY <2>4, <2>5, <2>6, Zenon
<1>4. ArePlaces(t, a, c)
  BY <1>2, <1>3 DEF ArePlaces
<1> HIDE DEF t
<1>5. t = Places(a, c)
  BY <1>4, PlacesUnique
<1>6. QED BY <1>5 DEF r, s, t

\* The first rows of a stretch.
LEMMA PlacesTake ==
    ASSUME NEW a \in Nat, NEW c \in Nat, a <= c, NEW n \in Nat
    PROVE  \E b \in a .. c : /\ Take(Places(a, c), n) = Places(a, b)
                             /\ Len(Take(Places(a, c), n)) # n => b = c
<1> DEFINE t == Places(a, c)
           m == Min({n, Len(t)})
           r == SubSeq(t, 1, m)
<1>1. ArePlaces(t, a, c)
  BY PlacesUnique
<1> HIDE DEF t
<1>2. Len(t) \in Int /\ n \in Int
  BY <1>1 DEF ArePlaces
<1>3. m \in {n, Len(t)} /\ m <= n /\ m <= Len(t)
  BY <1>2, MinOfTwo
<1> HIDE DEF m
<1>4. m \in Nat /\ m <= c - a /\ a + m \in a .. c /\ (m # n => a + m = c) /\ Len(t) = c - a
  BY <1>1, <1>3 DEF ArePlaces
<1>5. ArePlaces(r, a, a + m)
  <2>1. \A i \in 1 .. m : i \in 1 .. c - a
    BY <1>4
  <2>2. \A i \in 1 .. m : t[i] = a + i /\ t[i] \in Nat
    BY <1>1, <1>4, <2>1 DEF ArePlaces
  <2>3. r \in Seq(Nat) /\ Len(r) = (IF 1 <= m THEN m - 1 + 1 ELSE 0)
        /\ \A i \in 1 .. m - 1 + 1 : r[i] = t[1 + i - 1]
    BY <1>4, <2>2, SubSeqProperties
  <2> HIDE DEF r
  <2>4. Len(r) = m /\ m = a + m - a
    BY <1>4, <2>3
  <2>5. ASSUME NEW i \in 1 .. m PROVE r[i] = a + i
    <3>1. i \in 1 .. m - 1 + 1 /\ 1 + i - 1 = i
      BY <1>4
    <3>2. QED BY <2>2, <2>3, <3>1
  <2>6. QED BY <2>3, <2>4, <2>5 DEF ArePlaces
<1>6. Len(r) = m
  BY <1>4, <1>5 DEF ArePlaces
<1> HIDE DEF r
<1>7. r = Places(a, a + m)
  BY <1>4, <1>5, PlacesUnique
<1>8. Take(t, n) = r
  BY DEF Take, r, m
<1>9. QED BY <1>4, <1>6, <1>7, <1>8 DEF t

\* Where a page of the log leads: the rows after a seq, in order and without a
\* gap, up to the end of the log unless the page is full (query_events).
LEMMA AfterIsPlaces ==
    ASSUME Len(log) \in Nat, DOMAIN log = 1 .. Len(log), NEW seq \in 0 .. Len(log)
    PROVE  \E end \in seq .. Len(log) :
              After(seq) = Places(seq, end) /\ (Len(After(seq)) # PageSize => end = Len(log))
<1> DEFINE N == Len(log)
           P == {n \in DOMAIN log : n > seq}
<1>0. N \in Nat /\ seq \in Nat /\ seq <= N /\ 0 <= seq /\ PageSize \in Nat
  BY ReadersAssumption
<1>1. Rows = Places(0, N)
  <2>1. \A i \in 1 .. N : 0 + i = i
    OBVIOUS
  <2>2. QED BY <1>0, <2>1 DEF Rows, Places
<1>2. Places(0, N) = Places(0, seq) \o Places(seq, N)
  BY <1>0, PlacesConcat
<1>3. Places(0, seq) \in Seq(1 .. seq) /\ Places(seq, N) \in Seq(seq + 1 .. N)
  BY <1>0, PlacesType
<1>4. Where(Places(0, seq), P) = <<>>
  <2>1. (1 .. seq) \cap P = {}
    BY <1>0
  <2> HIDE DEF P
  <2>2. QED BY <1>3, <2>1, WhereAll
<1>5. Where(Places(seq, N), P) = Places(seq, N)
  <2>1. seq + 1 .. N \subseteq P
    BY <1>0
  <2> HIDE DEF P
  <2>2. QED BY <1>3, <2>1, WhereAll
<1>6. Where(Rows, P) = Places(seq, N)
  <2>1. Places(0, seq) \in Seq(Nat) /\ Places(seq, N) \in Seq(Nat)
    BY <1>0, <1>3
  <2> DEFINE x == Places(0, seq)
             y == Places(seq, N)
  <2> HIDE DEF P, x, y
  <2>2. Where(x \o y, P) = Where(x, P) \o Where(y, P)
    BY <2>1, WhereConcat DEF x, y
  <2>3. y \in Seq(Nat) /\ <<>> \o y = y
    BY <2>1 DEF y
  <2>4. QED BY <1>1, <1>2, <1>4, <1>5, <2>2, <2>3 DEF x, y
<1>7. After(seq) = Take(Places(seq, N), PageSize)
  BY <1>6 DEF After
<1> HIDE DEF P, N
<1>8. PICK b \in seq .. N : /\ Take(Places(seq, N), PageSize) = Places(seq, b)
                            /\ Len(Take(Places(seq, N), PageSize)) # PageSize => b = N
  BY <1>0, PlacesTake
<1>9. QED BY <1>7, <1>8 DEF N

\* Without a bound the page ends with the log, and begins with it unless it is full.
LEMMA LatestIsPlaces ==
    ASSUME Len(log) \in Nat, DOMAIN log = 1 .. Len(log)
    PROVE  \E start \in 0 .. Len(log) :
              Latest = Places(start, Len(log)) /\ (Len(Latest) # PageSize => start = 0)
<1> DEFINE N == Len(log)
           t == Reverse(Rows)
           m == Min({PageSize, Len(t)})
           r == SubSeq(t, 1, m)
           l == Reverse(r)
<1>0. N \in Nat /\ PageSize \in Nat
  BY ReadersAssumption
<1>1. Rows \in Seq(Nat) /\ Len(Rows) = N /\ \A i \in 1 .. N : Rows[i] = i
  BY <1>0 DEF Rows
<1>2. t \in Seq(Nat) /\ Len(t) = N /\ \A i \in 1 .. N : t[i] = N - i + 1
  <2>1. t = [i \in 1 .. N |-> Rows[N - i + 1]]
    BY <1>1 DEF Reverse
  <2>2. \A i \in 1 .. N : N - i + 1 \in 1 .. N
    BY <1>0
  <2>3. t = [i \in 1 .. N |-> N - i + 1]
    BY <1>1, <2>1, <2>2
  <2> HIDE DEF t, N
  <2>4. QED BY <1>0, <2>2, <2>3
<1> HIDE DEF t, N
<1>3. m \in {PageSize, Len(t)} /\ m <= PageSize /\ m <= Len(t)
  <2>1. PageSize \in Int /\ Len(t) \in Int
    BY <1>0, <1>2
  <2>2. QED BY <2>1, MinOfTwo
<1> HIDE DEF m
<1>4. m \in Nat /\ N - m \in 0 .. N /\ (m # PageSize => N - m = 0)
  BY <1>0, <1>2, <1>3
<1>5. r \in Seq(Nat) /\ Len(r) = m /\ \A i \in 1 .. m : r[i] = N - i + 1
  <2>1. \A i \in 1 .. m : i \in 1 .. N
    BY <1>0, <1>2, <1>3, <1>4
  <2>2. \A i \in 1 .. m : t[i] = N - i + 1 /\ t[i] \in Nat
    BY <1>2, <2>1
  <2>3. r \in Seq(Nat) /\ Len(r) = (IF 1 <= m THEN m - 1 + 1 ELSE 0)
        /\ \A i \in 1 .. m - 1 + 1 : r[i] = t[1 + i - 1]
    BY <1>4, <2>2, SubSeqProperties
  <2> HIDE DEF r
  <2>4. Len(r) = m
    BY <1>4, <2>3
  <2>5. ASSUME NEW i \in 1 .. m PROVE r[i] = N - i + 1
    <3>1. i \in 1 .. m - 1 + 1 /\ 1 + i - 1 = i
      BY <1>4
    <3>2. QED BY <2>2, <2>3, <3>1
  <2>6. QED BY <2>3, <2>4, <2>5
<1> HIDE DEF r
<1>6. ArePlaces(l, N - m, N)
  <2>1. l = [i \in 1 .. m |-> r[m - i + 1]]
    BY <1>5 DEF Reverse
  <2>2. \A i \in 1 .. m : m - i + 1 \in 1 .. m /\ N - (m - i + 1) + 1 = N - m + i
    BY <1>0, <1>4
  <2>3. \A i \in 1 .. m : N - m + i \in Nat
    BY <1>4
  <2>4. l = [i \in 1 .. m |-> N - m + i]
    BY <1>5, <2>1, <2>2
  <2> HIDE DEF l
  <2>5. l \in Seq(Nat) /\ Len(l) = m /\ \A i \in 1 .. m : l[i] = N - m + i
    BY <1>4, <2>3, <2>4
  <2>6. N - (N - m) = m
    BY <1>0, <1>4
  <2>7. QED BY <2>5, <2>6 DEF ArePlaces
<1>7. Len(l) = m
  <2> HIDE DEF l
  <2>1. N - (N - m) = m
    BY <1>0, <1>4
  <2>2. QED BY <1>6, <2>1 DEF ArePlaces
<1> HIDE DEF l
<1>8. l = Places(N - m, N)
  <2>1. N - m \in Nat /\ N - m <= N
    BY <1>0, <1>4
  <2>2. QED BY <1>0, <1>6, <2>1, PlacesUnique
<1>9. Latest = l
  <2>1. Take(t, PageSize) = r
    BY DEF Take, r, m
  <2>2. QED BY <2>1 DEF Latest, l, t
<1>10. QED BY <1>4, <1>7, <1>8, <1>9 DEF N

\* The events recorded from a time on are on the page, unless it is full.
LEMMA SincePage ==
    ASSUME Len(log) \in Nat, DOMAIN log = 1 .. Len(log), NEW time
    PROVE  Len(Since(time)) # PageSize =>
              \A n \in DOMAIN log : log[n].at >= time => n \in ToSet(Since(time))
<1> DEFINE P == {n \in DOMAIN log : log[n].at >= time}
           t == Where(Rows, P)
           m == Min({PageSize, Len(t)})
<1>1. Rows \in Seq(Nat) /\ ToSet(Rows) = DOMAIN log
  BY DEF Rows, ToSet
<1>2. t \in Seq(Nat) /\ ToSet(t) = DOMAIN log \cap P
  <2> HIDE DEF P
  <2>1. QED BY <1>1, WhereType, WhereSet
<1>3. Since(time) = SubSeq(t, 1, m)
  BY DEF Since, Take
<1> HIDE DEF t
<1>4. m \in {PageSize, Len(t)} /\ m \in Nat /\ m <= Len(t) /\ Len(t) \in Nat
  <2>1. Len(t) \in Nat /\ PageSize \in Nat
    BY <1>2, ReadersAssumption
  <2>2. PageSize \in Int /\ Len(t) \in Int
    BY <2>1
  <2>3. m \in {PageSize, Len(t)} /\ m <= PageSize /\ m <= Len(t)
    BY <2>2, MinOfTwo
  <2> HIDE DEF m
  <2>4. QED BY <2>1, <2>3
<1> HIDE DEF m
<1>5. Len(SubSeq(t, 1, m)) = m
  <2>1. \A i \in 1 .. m : i \in 1 .. Len(t)
    BY <1>4
  <2>2. \A i \in 1 .. m : t[i] \in Nat
    BY <1>2, <2>1
  <2>3. Len(SubSeq(t, 1, m)) = (IF 1 <= m THEN m - 1 + 1 ELSE 0)
    BY <1>4, <2>2, SubSeqProperties
  <2>4. QED BY <1>4, <2>3
<1>6. CASE m = Len(t)
  <2>1. SubSeq(t, 1, m) = t
    BY <1>2, <1>6, SubSeqFull
  <2>2. QED BY <1>2, <1>3, <2>1
<1>7. CASE m = PageSize
  BY <1>3, <1>5, <1>7, ReadersAssumption
<1>8. QED BY <1>4, <1>6, <1>7

-----------------------------------------------------------------------------
(* The readers' invariant                                                   *)

Entry == [kind : Kinds, at : Nat, pass : BOOLEAN]

Watches == [at : {"off", "refresh", "sleep", "failed"}, from : Nat, seen : Nat]

ClientRecords ==
    [by : {"seq", "cursor", "time"}, since : Int, at : {"idle", "asked"}, offer : Int]

ReadersTyped ==
    /\ clock \in Nat
    /\ log \in Seq(Entry)
    /\ reading \in [Proc -> Nat \cup {None}]
    /\ watch \in Watches /\ client \in ClientRecords

\* Told is what the watch has gone past, in all its states.
WatchInv ==
    /\ watch.seen \in watch.from .. Len(log)
    /\ told = Tells(Places(watch.from, watch.seen))

\* What a client was shown ends where it goes on.
SeqInv ==
    \/ client.since = None /\ shown = {}
    \/ client.since = 0 /\ shown = {}
    \/ /\ client.since \in DOMAIN log
       /\ \E first \in 1 .. client.since : shown = first .. client.since

\* The cursor that an answer offers is not past the log, whatever is committed
\* between its two reads, and what is not past the one that was kept was shown.
CursorInv ==
    /\ client.offer \in 0 .. Len(log)
    /\ client.since \in {None} \cup (0 .. Len(log))
    /\ ~cut => \A n \in DOMAIN log : Shown(n) \/ n > client.since

\* The same of times, for what a pass recorded.
TimeInv ==
    /\ client.offer \in 0 .. clock
    /\ client.since \in {None} \cup (0 .. clock)
    /\ ~cut => \A n \in DOMAIN log : log[n].pass => Shown(n) \/ log[n].at >= client.since

ClientInv ==
    /\ client.by = "seq" => SeqInv
    /\ client.by = "cursor" => CursorInv
    /\ client.by = "time" => TimeInv

ReadersInv == ReadersTyped /\ WatchInv /\ ClientInv

-----------------------------------------------------------------------------
(* The log grows                                                            *)

\* Committed events stay where they are, and what a pass adds is recorded now.
LogGoesOn ==
    /\ Len(log) \in Nat /\ DOMAIN log = 1 .. Len(log)
    /\ Len(log') \in Nat /\ DOMAIN log' = 1 .. Len(log')
    /\ Len(log) <= Len(log')
    /\ \A n \in DOMAIN log : n \in DOMAIN log' /\ log'[n] = log[n]
    /\ \A n \in DOMAIN log' : n \notin DOMAIN log =>
          n > Len(log) /\ (log'[n].pass => log'[n].at = clock)
    /\ \A n \in DOMAIN log : log[n].at \in Nat
    /\ clock \in Nat /\ clock' \in Nat /\ clock <= clock'

\* An event that is committed.
LEMMA WrittenGoesOn ==
    ASSUME ReadersTyped, NEW time \in Nat, NEW pass \in BOOLEAN, pass => time = clock,
           Written(time, pass), clock' = clock
    PROVE  log' \in Seq(Entry) /\ LogGoesOn
<1>1. PICK kind \in Kinds : log' = Append(log, [kind |-> kind, at |-> time, pass |-> pass])
  BY DEF Written
<1> DEFINE e == [kind |-> kind, at |-> time, pass |-> pass]
<1>2. e \in Entry /\ e.pass = pass /\ e.at = time
  BY DEF Entry
<1> HIDE DEF e
<1>3. log' = Append(log, e)
  BY <1>1 DEF e
<1>4. log \in Seq(Entry) /\ clock \in Nat
  BY DEF ReadersTyped
<1>5. \A n \in DOMAIN log : log[n].at \in Nat
  <2>1. \A n \in DOMAIN log : log[n] \in Entry
    BY <1>4
  <2>2. QED BY <2>1 DEF Entry
<1>6. /\ log' \in Seq(Entry) /\ Len(log') = Len(log) + 1 /\ Len(log) \in Nat
      /\ DOMAIN log = 1 .. Len(log) /\ DOMAIN log' = 1 .. Len(log) + 1
      /\ log'[Len(log) + 1] = e /\ \A n \in DOMAIN log : log'[n] = log[n]
  BY <1>2, <1>3, <1>4
<1>7. \A n \in DOMAIN log' : n \notin DOMAIN log => n = Len(log) + 1
  BY <1>6
<1>8. QED BY <1>2, <1>4, <1>5, <1>6, <1>7 DEF LogGoesOn

\* Nothing is committed.
LEMMA SameGoesOn ==
    ASSUME ReadersTyped, log' = log, clock' = clock \/ clock' = clock + 1
    PROVE  log' \in Seq(Entry) /\ LogGoesOn
<1>1. log \in Seq(Entry) /\ clock \in Nat
  BY DEF ReadersTyped
<1>2. \A n \in DOMAIN log : log[n].at \in Nat
  <2>1. \A n \in DOMAIN log : log[n] \in Entry
    BY <1>1
  <2>2. QED BY <2>1 DEF Entry
<1>3. QED BY <1>1, <1>2 DEF LogGoesOn

\* The steps of the writers and of the clock leave the readers alone, and the other way round.
LEMMA ReadersSteps ==
    ASSUME [ReadersNext]_readersVars
    PROVE  \/ UNCHANGED <<watch, told, client, shown, cut>>
           \/ UNCHANGED <<clock, log, reading>> /\ (WatchStart \/ WatchPoll \/ WatchSleep \/ WatchStop)
           \/ UNCHANGED <<clock, log, reading>> /\ (Ask \/ Answer)
<1>1. ASSUME NEW p \in Proc, ReadClock(p) \/ Execute(p)
      PROVE  UNCHANGED <<watch, told, client, shown, cut>>
  BY <1>1 DEF ReadClock, Execute
<1>2. Pass \/ Advance => UNCHANGED <<watch, told, client, shown, cut>>
  BY DEF Pass, Advance
<1>3. WatchStart \/ WatchPoll \/ WatchSleep \/ WatchStop => UNCHANGED <<clock, log, reading>>
  BY DEF WatchStart, WatchPoll, WatchSleep, WatchStop
<1>4. Ask \/ Answer => UNCHANGED <<clock, log, reading>>
  BY DEF Ask, Answer
<1>5. UNCHANGED readersVars => UNCHANGED <<watch, told, client, shown, cut>>
  BY DEF readersVars
<1>6. QED BY <1>1, <1>2, <1>3, <1>4, <1>5 DEF ReadersNext

\* The log goes on in every step.
LEMMA LogSteps ==
    ASSUME ReadersTyped, [ReadersNext]_readersVars
    PROVE  log' \in Seq(Entry) /\ LogGoesOn /\ reading' \in [Proc -> Nat \cup {None}]
<1>0. clock \in Nat /\ reading \in [Proc -> Nat \cup {None}]
  BY DEF ReadersTyped
<1>1. CASE UNCHANGED <<clock, log, reading>>
  BY <1>0, <1>1, SameGoesOn
<1>2. ASSUME NEW p \in Proc, ReadClock(p)
      PROVE  log' \in Seq(Entry) /\ LogGoesOn /\ reading' \in [Proc -> Nat \cup {None}]
  <2>1. log' = log /\ clock' = clock /\ reading' = [reading EXCEPT ![p] = clock]
    BY <1>2 DEF ReadClock
  <2>2. log' \in Seq(Entry) /\ LogGoesOn
    BY <2>1, SameGoesOn
  <2>3. QED BY <1>0, <2>1, <2>2
<1>3. ASSUME NEW p \in Proc, Execute(p)
      PROVE  log' \in Seq(Entry) /\ LogGoesOn /\ reading' \in [Proc -> Nat \cup {None}]
  <2>1. /\ reading[p] # None /\ Written(reading[p], FALSE) /\ clock' = clock
        /\ reading' = [reading EXCEPT ![p] = None]
    BY <1>3 DEF Execute
  <2>2. reading[p] \in Nat
    BY <1>0, <2>1
  <2>3. log' \in Seq(Entry) /\ LogGoesOn
    BY <2>1, <2>2, WrittenGoesOn
  <2>4. QED BY <1>0, <2>1, <2>3
<1>4. CASE Pass
  <2>1. Written(clock, TRUE) /\ clock' = clock /\ reading' = reading
    BY <1>4 DEF Pass
  <2>2. log' \in Seq(Entry) /\ LogGoesOn
    BY <1>0, <2>1, WrittenGoesOn
  <2>3. QED BY <1>0, <2>1, <2>2
<1>5. CASE Advance
  <2>1. log' = log /\ clock' = clock + 1 /\ reading' = reading
    BY <1>5 DEF Advance
  <2>2. log' \in Seq(Entry) /\ LogGoesOn
    BY <2>1, SameGoesOn
  <2>3. QED BY <1>0, <2>1, <2>2
<1>6. WatchStart \/ WatchPoll \/ WatchSleep \/ WatchStop \/ Ask \/ Answer
      => UNCHANGED <<clock, log, reading>>
  BY DEF WatchStart, WatchPoll, WatchSleep, WatchStop, Ask, Answer
<1>7. UNCHANGED readersVars => UNCHANGED <<clock, log, reading>>
  BY DEF readersVars
<1>8. QED BY <1>1, <1>2, <1>3, <1>4, <1>5, <1>6, <1>7 DEF ReadersNext

-----------------------------------------------------------------------------
(* The watch                                                                *)

ToldOf(l) == {n \in DOMAIN l : l[n].kind = "told"}

\* What is told of a stretch of the log does not change when it grows.
LEMMA TellsStays ==
    ASSUME LogGoesOn, NEW from \in Nat, NEW to \in from .. Len(log)
    PROVE  Tells(Places(from, to))' = Tells(Places(from, to))
<1> DEFINE s == Places(from, to)
           P == ToldOf(log)
           Q == ToldOf(log')
<1>1. s \in Seq(from + 1 .. to)
  BY PlacesType
<1>2. \A n \in from + 1 .. to : n \in P <=> n \in Q
  <2>1. \A n \in from + 1 .. to : n \in DOMAIN log /\ n \in DOMAIN log' /\ log'[n] = log[n]
    BY DEF LogGoesOn
  <2>2. QED BY <2>1 DEF ToldOf
<1>3. Tells(s) = Where(s, P) /\ Tells(s)' = Where(s, Q)
  BY DEF Tells, ToldOf, Places, Where
<1> HIDE DEF s, P, Q
<1>4. Where(s, P) = Where(s, Q)
  BY <1>1, <1>2, WhereSame
<1>5. QED BY <1>3, <1>4 DEF s

\* Every step keeps WatchInv.
LEMMA WatchStep ==
    ASSUME ReadersTyped, WatchInv, [ReadersNext]_readersVars
    PROVE  WatchInv' /\ watch' \in Watches
<1>1. LogGoesOn
  BY LogSteps
<1>2. PICK from \in Nat, seen \in Nat :
          watch \in Watches /\ watch.from = from /\ watch.seen = seen /\ seen \in from .. Len(log)
  <2>1. watch \in Watches
    BY DEF ReadersTyped
  <2>2. watch.from \in Nat /\ watch.seen \in Nat
    BY <2>1 DEF Watches
  <2>3. QED BY <2>1, <2>2 DEF WatchInv
<1>3. Len(log) \in Nat /\ DOMAIN log = 1 .. Len(log) /\ Len(log') \in Nat /\ Len(log) <= Len(log')
  BY <1>1 DEF LogGoesOn
<1>4. seen <= Len(log) /\ from <= seen /\ seen \in 0 .. Len(log)
  BY <1>2, <1>3
<1>5. told = Tells(Places(from, seen))
  BY <1>2 DEF WatchInv
<1>6. ASSUME NEW f \in Nat, NEW s \in f .. Len(log), watch' \in Watches,
             watch'.from = f, watch'.seen = s, told' = Tells(Places(f, s))
      PROVE  WatchInv' /\ watch' \in Watches
  <2>1. Tells(Places(f, s))' = Tells(Places(f, s))
    BY <1>1, TellsStays
  <2>2. Tells(Places(watch.from, watch.seen))' = Tells(Places(f, s))'
    BY <1>6
  <2>3. s \in f .. Len(log')
    BY <1>3
  <2>4. QED BY <1>6, <2>1, <2>2, <2>3 DEF WatchInv
<1>7. CASE UNCHANGED <<watch, told>>
  BY <1>2, <1>5, <1>6, <1>7
<1>8. CASE WatchStart
  <2>1. PICK s \in {0, Len(log)} : watch' = [at |-> "refresh", from |-> s, seen |-> s] /\ told' = <<>>
    BY <1>8 DEF WatchStart
  <2>2. s \in Nat /\ s \in s .. Len(log) /\ s <= s
    <3>1. PICK k \in Nat : k = Len(log)
      BY <1>3
    <3>2. s = 0 \/ s = k
      BY <3>1
    <3>3. s \in s .. k /\ s \in Nat /\ s <= s
      BY <3>2
    <3>4. QED BY <3>1, <3>3
  <2>3. watch' \in Watches /\ watch'.from = s /\ watch'.seen = s
    BY <2>1, <2>2 DEF Watches
  <2>4. Places(s, s) = <<>>
    BY <2>2, PlacesType
  <2>5. Tells(Places(s, s)) = <<>>
    BY <2>4, WhereEmpty DEF Tells
  <2>6. QED BY <1>6, <2>1, <2>2, <2>3, <2>5
<1>9. CASE WatchPoll
  <2> DEFINE page == After(watch.seen)
  <2>1. CASE Readable(page)
    <3>1. told' = told \o Tells(page)
          /\ watch' = [watch EXCEPT !.at = "sleep", !.seen = SeenAfter(page)]
      BY <1>9, <2>1 DEF WatchPoll
    <3>2. PICK end \in seen .. Len(log) : page = Places(seen, end)
      BY <1>2, <1>3, <1>4, AfterIsPlaces
    <3> HIDE DEF page
    <3>3. end \in Nat /\ seen <= end /\ from <= end /\ end \in from .. Len(log)
      BY <1>4, <3>2
    <3>4. SeenAfter(page) = end
      <4>1. CASE seen = end
        <5>1. page = <<>>
          BY <3>2, <3>3, <4>1, PlacesType
        <5>2. QED BY <1>2, <4>1, <5>1 DEF SeenAfter
      <4>2. CASE seen < end
        <5>1. page # <<>> /\ Last(page) = end
          BY <3>2, <3>3, <4>2, PlacesType
        <5>2. QED BY <5>1 DEF SeenAfter
      <4>3. seen = end \/ seen < end
        BY <3>3
      <4>4. QED BY <4>1, <4>2, <4>3, Zenon
    <3>5. Tells(Places(from, end)) = Tells(Places(from, seen)) \o Tells(Places(seen, end))
      <4> DEFINE x == Places(from, seen)
                 y == Places(seen, end)
                 P == ToldOf(log)
      <4>1. Places(from, end) = x \o y
        BY <1>4, <3>3, PlacesConcat
      <4>2. x \in Seq(Nat) /\ y \in Seq(Nat)
        BY <1>4, <3>3, PlacesUnique DEF ArePlaces
      <4>3. Tells(x \o y) = Where(x \o y, P) /\ Tells(x) = Where(x, P) /\ Tells(y) = Where(y, P)
        BY DEF Tells, ToldOf
      <4> HIDE DEF x, y, P
      <4>4. Where(x \o y, P) = Where(x, P) \o Where(y, P)
        BY <4>2, WhereConcat
      <4>5. QED BY <4>1, <4>3, <4>4 DEF x, y
    <3>6. watch' \in Watches /\ watch'.from = from /\ watch'.seen = end
      BY <1>2, <3>1, <3>3, <3>4 DEF Watches
    <3>7. told' = Tells(Places(from, end))
      BY <1>5, <3>1, <3>2, <3>5
    <3>8. QED BY <1>6, <3>3, <3>6, <3>7
  <2>2. CASE ~Readable(page)
    <3>1. watch' = [watch EXCEPT !.at = "failed"] /\ told' = told
      BY <1>9, <2>2 DEF WatchPoll
    <3>2. watch' \in Watches /\ watch'.from = from /\ watch'.seen = seen
      BY <1>2, <3>1 DEF Watches
    <3>3. QED BY <1>2, <1>5, <1>6, <3>1, <3>2
  <2>3. QED BY <2>1, <2>2
<1>10. CASE WatchSleep \/ WatchStop
  <2>1. /\ told' = told
        /\ watch' = [watch EXCEPT !.at = "refresh"] \/ watch' = [watch EXCEPT !.at = "off"]
    BY <1>10 DEF WatchSleep, WatchStop
  <2>2. watch' \in Watches /\ watch'.from = from /\ watch'.seen = seen
    BY <1>2, <2>1 DEF Watches
  <2>3. QED BY <1>2, <1>5, <1>6, <2>1, <2>2
<1>11. Ask \/ Answer => UNCHANGED <<watch, told>>
  BY DEF Ask, Answer
<1>12. QED BY <1>7, <1>8, <1>9, <1>10, <1>11, ReadersSteps

-----------------------------------------------------------------------------
(* The client                                                               *)

\* What the pages of an answer show.
LEMMA PageShows ==
    ASSUME NEW N \in Nat, Len(log) = N, DOMAIN log = 1 .. N, client.since \in Int,
           client.since # None => client.since >= 0,
           client.by # "time" => client.since = None \/ client.since <= N
    PROVE  /\ client.since # None /\ client.by # "time" =>
                 \E end \in client.since .. N :
                    /\ ToSet(Page) = client.since + 1 .. end
                    /\ Page = <<>> => end = client.since
                    /\ Page # <<>> => client.since < end /\ Last(Page) = end
                    /\ Len(Page) # PageSize => end = N
           /\ client.since = None =>
                 \E start \in 0 .. N :
                    /\ ToSet(Page) = start + 1 .. N
                    /\ Page = <<>> => start = N
                    /\ Page # <<>> => start < N /\ Last(Page) = N
                    /\ Len(Page) # PageSize => start = 0
           /\ client.since # None /\ client.by = "time" /\ Len(Page) # PageSize =>
                 \A n \in DOMAIN log : log[n].at >= client.since => n \in ToSet(Page)
<1>0. ASSUME NEW a \in Nat, NEW b \in Nat, a <= b, Page = Places(a, b)
      PROVE  /\ ToSet(Page) = a + 1 .. b
             /\ Page = <<>> => a = b
             /\ Page # <<>> => a < b /\ Last(Page) = b
  <2>1. a = b \/ a < b
    BY <1>0
  <2>2. QED BY <1>0, <2>1, PlacesType
<1>1. ASSUME client.since # None, client.by # "time"
      PROVE  \E end \in client.since .. N :
                    /\ ToSet(Page) = client.since + 1 .. end
                    /\ Page = <<>> => end = client.since
                    /\ Page # <<>> => client.since < end /\ Last(Page) = end
                    /\ Len(Page) # PageSize => end = N
  <2>1. PICK k \in 0 .. N : k = client.since
    BY <1>1
  <2>2. Page = After(k)
    BY <1>1, <2>1 DEF Page
  <2>3. PICK end \in k .. N :
            After(k) = Places(k, end) /\ (Len(After(k)) # PageSize => end = N)
    BY AfterIsPlaces, Zenon
  <2>4. k \in Nat /\ end \in Nat /\ k <= end
    BY <2>1, <2>3
  <2>5. QED BY <1>0, <2>1, <2>2, <2>3, <2>4
<1>2. ASSUME client.since = None
      PROVE  \E start \in 0 .. N :
                    /\ ToSet(Page) = start + 1 .. N
                    /\ Page = <<>> => start = N
                    /\ Page # <<>> => start < N /\ Last(Page) = N
                    /\ Len(Page) # PageSize => start = 0
  <2>1. Page = Latest
    BY <1>2 DEF Page
  <2>2. PICK start \in 0 .. N :
            Latest = Places(start, N) /\ (Len(Latest) # PageSize => start = 0)
    BY LatestIsPlaces, Zenon
  <2>3. start \in Nat /\ start <= N
    BY <2>2
  <2>4. QED BY <1>0, <2>1, <2>2, <2>3
<1>3. ASSUME client.since # None, client.by = "time", Len(Page) # PageSize
      PROVE  \A n \in DOMAIN log : log[n].at >= client.since => n \in ToSet(Page)
  <2>1. Page = Since(client.since)
    BY <1>3 DEF Page
  <2>2. QED BY <1>3, <2>1, SincePage
<1>4. QED BY <1>1, <1>2, <1>3

\* What is committed leaves the client's invariant alone.
LEMMA ClientGrows ==
    ASSUME LogGoesOn, client \in ClientRecords, UNCHANGED <<client, shown, cut>>, ClientInv
    PROVE  ClientInv'
<1>1. PICK m \in Nat, n \in Nat : m = Len(log) /\ n = Len(log') /\ m <= n
  BY DEF LogGoesOn
<1>2. /\ DOMAIN log = 1 .. m /\ DOMAIN log' = 1 .. n
      /\ \A k \in 1 .. n : k \notin 1 .. m => k > m /\ (log'[k].pass => log'[k].at = clock)
      /\ \A k \in 1 .. m : log'[k] = log[k]
  BY <1>1 DEF LogGoesOn
<1>3. PICK c \in Nat, d \in Nat : c = clock /\ d = clock' /\ c <= d
  BY DEF LogGoesOn
<1>4. client' = client /\ shown' = shown /\ cut' = cut /\ client.since \in Int /\ client.offer \in Int
  BY DEF ClientRecords
<1>5. SeqInv => SeqInv'
  <2>1. 1 .. m \subseteq 1 .. n
    BY <1>1
  <2>2. QED BY <1>2, <1>4, <2>1 DEF SeqInv
<1>6. CursorInv => CursorInv'
  <2> SUFFICES ASSUME CursorInv PROVE CursorInv'
    OBVIOUS
  <2>1. client.offer \in 0 .. m /\ client.since \in {None} \cup (0 .. m)
    BY <1>1 DEF CursorInv
  <2>2. client.offer \in 0 .. n /\ client.since \in {None} \cup (0 .. n)
    BY <1>1, <2>1
  <2>3. ASSUME ~cut, NEW k \in 1 .. n PROVE Shown(k) \/ k > client.since
    <3>1. CASE k \in 1 .. m
      BY <1>2, <2>3, <3>1 DEF CursorInv
    <3>2. CASE k \notin 1 .. m
      BY <1>2, <2>1, <3>2 DEF None
    <3>3. QED BY <3>1, <3>2
  <2>4. QED BY <1>1, <1>2, <1>4, <2>2, <2>3 DEF CursorInv, Shown
<1>7. TimeInv => TimeInv'
  <2> SUFFICES ASSUME TimeInv PROVE TimeInv'
    OBVIOUS
  <2>1. client.offer \in 0 .. c /\ client.since \in {None} \cup (0 .. c)
    BY <1>3 DEF TimeInv
  <2>2. client.offer \in 0 .. d /\ client.since \in {None} \cup (0 .. d)
    BY <1>3, <2>1
  <2>3. ASSUME ~cut, NEW k \in 1 .. n, log'[k].pass PROVE Shown(k) \/ log'[k].at >= client.since
    <3>1. CASE k \in 1 .. m
      BY <1>2, <2>3, <3>1 DEF TimeInv
    <3>2. CASE k \notin 1 .. m
      <4>1. log'[k].at = c
        BY <1>2, <1>3, <2>3, <3>2
      <4>2. c >= client.since
        BY <2>1 DEF None
      <4>3. QED BY <4>1, <4>2
    <3>3. QED BY <3>1, <3>2
  <2>4. QED BY <1>2, <1>3, <1>4, <2>2, <2>3 DEF TimeInv, Shown
<1>8. QED BY <1>4, <1>5, <1>6, <1>7 DEF ClientInv

\* A call begins: the view is refreshed and the clock read.
LEMMA ClientAsks ==
    ASSUME LogGoesOn, client \in ClientRecords, ClientInv, Ask, UNCHANGED <<clock, log>>
    PROVE  ClientInv' /\ client' \in ClientRecords
<1>1. PICK m \in Nat : m = Len(log)
  BY DEF LogGoesOn
<1>2. PICK c \in Nat : c = clock
  BY DEF LogGoesOn
<1>3. client' = [client EXCEPT !.at = "asked", !.offer = Offer]
      /\ shown' = shown /\ cut' = cut /\ log' = log /\ clock' = clock
  BY DEF Ask
<1>4. /\ client.by = "cursor" => Offer = m
      /\ client.by = "time" => Offer = c
      /\ client.by = "seq" => Offer = 0
  BY <1>1, <1>2 DEF Offer
<1>5. client.by \in {"seq", "cursor", "time"}
  BY DEF ClientRecords
<1>6. Offer \in Nat
  BY <1>4, <1>5
<1> HIDE DEF Offer
<1>7. /\ client' \in ClientRecords /\ client'.by = client.by /\ client'.since = client.since
      /\ client'.offer = Offer
  <2>1. PICK o \in Int : o = Offer
    BY <1>6
  <2>2. client' = [client EXCEPT !.at = "asked", !.offer = o]
    BY <1>3, <2>1
  <2>3. QED BY <2>1, <2>2 DEF ClientRecords
<1>8. client.by = "seq" => SeqInv'
  BY <1>3, <1>7 DEF ClientInv, SeqInv
<1>9. client.by = "cursor" => CursorInv'
  <2> SUFFICES ASSUME client.by = "cursor" PROVE CursorInv'
    OBVIOUS
  <2>1. client'.offer \in 0 .. Len(log)
    BY <1>1, <1>4, <1>7
  <2>2. QED BY <1>3, <1>7, <2>1 DEF ClientInv, CursorInv, Shown
<1>10. client.by = "time" => TimeInv'
  <2> SUFFICES ASSUME client.by = "time" PROVE TimeInv'
    OBVIOUS
  <2>1. client'.offer \in 0 .. clock
    BY <1>2, <1>4, <1>7
  <2>2. QED BY <1>3, <1>7, <2>1 DEF ClientInv, TimeInv, Shown
<1>11. QED BY <1>7, <1>8, <1>9, <1>10 DEF ClientInv

\* A call ends: the events are read and the answer is returned, or an error.
LEMMA ClientAnswers ==
    ASSUME LogGoesOn, client \in ClientRecords, ClientInv, Answer, UNCHANGED <<clock, log>>
    PROVE  ClientInv' /\ client' \in ClientRecords
<1>1. PICK N \in Nat : N = Len(log) /\ DOMAIN log = 1 .. N
  BY DEF LogGoesOn
<1>2. PICK c \in Nat : c = clock
  BY DEF LogGoesOn
<1>3. client.by \in {"seq", "cursor", "time"} /\ client.since \in Int /\ client.offer \in Int
  BY DEF ClientRecords
<1>4. \A n \in 1 .. N : log[n].at \in Nat
  BY <1>1 DEF LogGoesOn
<1>5. /\ client.since # None => client.since >= 0
      /\ client.by # "time" => client.since = None \/ client.since <= N
  <2>1. CASE client.by = "seq"
    <3>1. SeqInv
      BY <2>1 DEF ClientInv
    <3>2. client.since = None \/ client.since = 0 \/ client.since \in 1 .. N
      BY <1>1, <3>1 DEF SeqInv
    <3>3. QED BY <3>2, <1>1
  <2>2. CASE client.by = "cursor"
    <3>1. client.since \in {None} \cup (0 .. N)
      BY <1>1, <2>2 DEF ClientInv, CursorInv
    <3>2. QED BY <3>1, <1>1
  <2>3. CASE client.by = "time"
    <3>1. client.since \in {None} \cup (0 .. c)
      BY <1>2, <2>3 DEF ClientInv, TimeInv
    <3>2. QED BY <3>1, <1>2, <2>3
  <2>4. QED BY <1>3, <2>1, <2>2, <2>3
\* An error: nothing was learnt.
<1>6. CASE ~Readable(Page)
  <2>1. client' = [client EXCEPT !.at = "idle"] /\ shown' = shown /\ cut' = cut
        /\ log' = log /\ clock' = clock
    BY <1>6 DEF Answer
  <2>2. /\ client' \in ClientRecords /\ client'.by = client.by /\ client'.since = client.since
        /\ client'.offer = client.offer
    BY <2>1 DEF ClientRecords
  <2>3. SeqInv => SeqInv'
    BY <2>1, <2>2 DEF SeqInv
  <2>4. CursorInv => CursorInv'
    BY <2>1, <2>2 DEF CursorInv, Shown
  <2>5. TimeInv => TimeInv'
    BY <2>1, <2>2 DEF TimeInv, Shown
  <2>6. QED BY <2>2, <2>3, <2>4, <2>5 DEF ClientInv
<1>7. CASE Readable(Page)
  <2>1. /\ shown' = shown \cup ToSet(Page)
        /\ client' = [client EXCEPT !.at = "idle", !.since = Kept(Page)]
        /\ cut' = (cut \/ Len(Page) = PageSize) /\ log' = log /\ clock' = clock
    BY <1>7 DEF Answer
  <2>2. /\ client.since # None /\ client.by # "time" =>
              \E end \in client.since .. N :
                 /\ ToSet(Page) = client.since + 1 .. end
                 /\ Page = <<>> => end = client.since
                 /\ Page # <<>> => client.since < end /\ Last(Page) = end
                 /\ Len(Page) # PageSize => end = N
        /\ client.since = None =>
              \E start \in 0 .. N :
                 /\ ToSet(Page) = start + 1 .. N
                 /\ Page = <<>> => start = N
                 /\ Page # <<>> => start < N /\ Last(Page) = N
                 /\ Len(Page) # PageSize => start = 0
        /\ client.since # None /\ client.by = "time" /\ Len(Page) # PageSize =>
              \A n \in DOMAIN log : log[n].at >= client.since => n \in ToSet(Page)
    <3>1. Len(log) = N /\ DOMAIN log = 1 .. N
      BY <1>1
    <3>2. QED BY <1>3, <1>5, <3>1, PageShows
  <2>3. PICK page : page = Page
    OBVIOUS
  <2>4. PICK kept : kept = Kept(Page)
    OBVIOUS
  <2>5. ASSUME kept \in Int
        PROVE  client' \in ClientRecords /\ client'.by = client.by /\ client'.since = kept
               /\ client'.offer = client.offer
    BY <2>1, <2>4, <2>5 DEF ClientRecords
  <2>6. CASE client.by = "seq"
    <3>1. PICK s \in Int : s = client.since
      BY <1>3
    <3>2. SeqInv
      BY <2>6 DEF ClientInv
    <3>3. kept = IF page # <<>> THEN Last(page) ELSE Max({0, s})
      BY <2>3, <2>4, <2>6, <3>1 DEF Kept
    <3>4. Max({0, s}) \in {0, s} /\ Max({0, s}) >= 0 /\ Max({0, s}) >= s
      BY <3>1, MaxOfTwo
    <3>5. CASE s = None
      <4>1. PICK start \in 0 .. N :
               /\ ToSet(page) = start + 1 .. N
               /\ page = <<>> => start = N
               /\ page # <<>> => start < N /\ Last(page) = N
        BY <2>2, <2>3, <3>1, <3>5
      <4>2. shown = {}
        BY <3>1, <3>2, <3>5, <1>1 DEF SeqInv, None
      <4>3. shown' = start + 1 .. N
        BY <2>1, <2>3, <4>1, <4>2
      <4>4. CASE page = <<>>
        <5>1. kept = 0 /\ shown' = {}
          BY <3>3, <3>4, <3>5, <4>1, <4>3, <4>4 DEF None
        <5>2. QED BY <2>5, <2>6, <5>1 DEF ClientInv, SeqInv
      <4>5. CASE page # <<>>
        <5>1. kept = N /\ N \in 1 .. N /\ start + 1 \in 1 .. N
          BY <3>3, <4>1, <4>5
        <5>2. QED BY <1>1, <2>1, <2>5, <2>6, <4>3, <5>1 DEF ClientInv, SeqInv
      <4>6. QED BY <4>4, <4>5
    <3>6. CASE s # None
      <4>1. PICK end \in s .. N :
               /\ ToSet(page) = s + 1 .. end
               /\ page = <<>> => end = s
               /\ page # <<>> => s < end /\ Last(page) = end
        BY <2>2, <2>3, <2>6, <3>1, <3>6
      <4>2. shown' = shown \cup (s + 1 .. end) /\ s >= 0
        BY <1>5, <2>1, <2>3, <3>1, <3>6, <4>1
      <4>3. kept = end
        BY <3>3, <3>4, <4>1, <4>2
      <4>4. CASE shown = {} /\ s = 0
        <5>1. shown' = 1 .. end
          BY <4>2, <4>4
        <5>2. end = 0 => shown' = {}
          BY <5>1
        <5>3. end # 0 => end \in 1 .. N /\ 1 \in 1 .. end
          BY <4>1, <4>4
        <5>4. QED BY SMTT(30), <1>1, <2>1, <2>5, <2>6, <4>3, <5>1, <5>2, <5>3 DEF ClientInv, SeqInv
      <4>5. CASE ~(shown = {} /\ s = 0)
        <5>1. PICK first \in 1 .. s : shown = first .. s /\ s \in 1 .. N
          BY <1>1, <3>1, <3>2, <3>6, <4>5 DEF SeqInv
        <5>2. shown' = first .. end /\ end \in 1 .. N /\ first \in 1 .. end
          BY <4>1, <4>2, <5>1
        <5>3. QED BY <1>1, <2>1, <2>5, <2>6, <4>3, <5>2 DEF ClientInv, SeqInv
      <4>6. QED BY <4>4, <4>5
    <3>7. QED BY <3>5, <3>6
  <2>7. CASE client.by = "cursor"
    <3>1. CursorInv
      BY <2>7 DEF ClientInv
    <3>2. kept = client.offer /\ kept \in 0 .. N
      BY <1>1, <2>4, <2>7, <3>1 DEF Kept, CursorInv
    <3>3. client' \in ClientRecords /\ client'.by = "cursor" /\ client'.since = kept
          /\ client'.offer = kept
      BY <1>1, <2>5, <2>7, <3>2
    <3>4. ASSUME ~cut', NEW n \in 1 .. N PROVE n \in shown'
      <4>1. ~cut /\ Len(Page) # PageSize
        BY <2>1, <3>4
      <4>2. CASE client.since = None
        <5>1. ToSet(Page) = 1 .. N
          BY <2>2, <4>1, <4>2
        <5>2. QED BY <2>1, <5>1
      <4>3. CASE client.since # None
        <5>1. PICK s \in 0 .. N : s = client.since
          BY <1>1, <3>1, <4>3 DEF CursorInv
        <5>2. ToSet(Page) = s + 1 .. N
          BY <2>2, <2>7, <4>1, <4>3, <5>1
        <5>3. n \in shown \/ n > s
          BY <1>1, <3>1, <4>1, <4>3, <5>1 DEF CursorInv, Shown
        <5>4. QED BY <2>1, <5>1, <5>2, <5>3
      <4>4. QED BY <4>2, <4>3
    <3>5. CursorInv'
      BY <1>1, <2>1, <3>2, <3>3, <3>4 DEF CursorInv, Shown
    <3>6. QED BY <3>3, <3>5 DEF ClientInv
  <2>8. CASE client.by = "time"
    <3>1. TimeInv
      BY <2>8 DEF ClientInv
    <3>2. kept = client.offer /\ kept \in 0 .. c
      BY <1>2, <2>4, <2>8, <3>1 DEF Kept, TimeInv
    <3>3. client' \in ClientRecords /\ client'.by = "time" /\ client'.since = kept
          /\ client'.offer = kept
      BY <1>2, <2>5, <2>8, <3>2
    <3>4. ASSUME ~cut', NEW n \in 1 .. N, log[n].pass PROVE n \in shown'
      <4>1. ~cut /\ Len(Page) # PageSize
        BY <2>1, <3>4
      <4>2. CASE client.since = None
        <5>1. ToSet(Page) = 1 .. N
          BY <2>2, <4>1, <4>2
        <5>2. QED BY <2>1, <5>1
      <4>3. CASE client.since # None
        <5>1. n \in shown \/ log[n].at >= client.since
          BY <1>1, <3>1, <3>4, <4>1, <4>3 DEF TimeInv, Shown
        <5>2. log[n].at >= client.since => n \in ToSet(Page)
          BY <1>1, <2>2, <2>8, <4>1, <4>3
        <5>3. QED BY <2>1, <5>1, <5>2
      <4>4. QED BY <4>2, <4>3
    <3>5. TimeInv'
      BY <1>1, <1>2, <2>1, <3>2, <3>3, <3>4 DEF TimeInv, Shown
    <3>6. QED BY <3>3, <3>5 DEF ClientInv
  <2>9. QED BY <1>3, <2>6, <2>7, <2>8
<1>8. QED BY <1>6, <1>7

-----------------------------------------------------------------------------
(* The readers' theorems                                                    *)

\* ReadersInv is what every behaviour of the readers keeps.
LEMMA ReadersAlways == ReadersSpec => []ReadersInv
<1>1. ReadersInit => ReadersInv
  <2> SUFFICES ASSUME ReadersInit PROVE ReadersInv
    OBVIOUS
  <2>1. PICK by \in Clients : client = [by |-> by, since |-> None, at |-> "idle", offer |-> 0]
    BY DEF ReadersInit
  <2>2. client \in ClientRecords /\ client.since = None /\ client.offer = 0
    BY <2>1, ClientsAssumption DEF ClientRecords, None
  <2>3. /\ clock = 0 /\ log = <<>> /\ reading = [p \in Proc |-> None]
        /\ watch = [at |-> "off", from |-> 0, seen |-> 0]
        /\ told = <<>> /\ shown = {}
    BY DEF ReadersInit
  <2>4. ReadersTyped
    <3>1. log \in Seq(Entry)
      BY <2>3
    <3>2. watch \in Watches
      BY <2>3 DEF Watches
    <3>3. QED BY <2>2, <2>3, <3>1, <3>2 DEF ReadersTyped
  <2>5. Len(log) = 0 /\ DOMAIN log = {}
    BY <2>3
  <2>6. WatchInv
    <3>1. Places(0, 0) = <<>>
      <4>1. 0 \in Nat /\ 0 <= 0
        OBVIOUS
      <4>2. QED BY <4>1, PlacesType
    <3>2. Tells(Places(0, 0)) = <<>>
      BY <3>1, WhereEmpty DEF Tells
    <3>3. QED BY <2>3, <2>5, <3>2 DEF WatchInv
  <2>7. ClientInv
    BY <2>2, <2>3, <2>5 DEF ClientInv, SeqInv, CursorInv, TimeInv
  <2>8. QED BY <2>4, <2>6, <2>7 DEF ReadersInv
<1>2. ReadersInv /\ [ReadersNext]_readersVars => ReadersInv'
  <2> SUFFICES ASSUME ReadersInv, [ReadersNext]_readersVars PROVE ReadersInv'
    OBVIOUS
  <2>1. ReadersTyped /\ WatchInv /\ ClientInv
    BY DEF ReadersInv
  <2>2. log' \in Seq(Entry) /\ LogGoesOn /\ reading' \in [Proc -> Nat \cup {None}]
    BY <2>1, LogSteps
  <2>3. WatchInv' /\ watch' \in Watches
    BY <2>1, WatchStep
  <2>4. client \in ClientRecords
    BY <2>1 DEF ReadersTyped
  <2>5. ClientInv' /\ client' \in ClientRecords
    <3>1. CASE UNCHANGED <<client, shown, cut>>
      BY <2>1, <2>2, <2>4, <3>1, ClientGrows
    <3>2. CASE UNCHANGED <<clock, log, reading>> /\ (Ask \/ Answer)
      BY <2>1, <2>2, <2>4, <3>2, ClientAsks, ClientAnswers
    <3>3. WatchStart \/ WatchPoll \/ WatchSleep \/ WatchStop => UNCHANGED <<client, shown, cut>>
      BY DEF WatchStart, WatchPoll, WatchSleep, WatchStop
    <3>4. QED BY <3>1, <3>2, <3>3, ReadersSteps
  <2>6. ReadersTyped'
    BY <2>2, <2>3, <2>5 DEF ReadersTyped, LogGoesOn
  <2>7. QED BY <2>3, <2>5, <2>6 DEF ReadersInv
<1>3. QED BY <1>1, <1>2, PTL DEF ReadersSpec

\* The watch has told every event that needs a human between the place where it
\* began and the place where it is, once and in the log's order (cmd_watch), for
\* every length of page and whatever is committed between its polls.
THEOREM WatchTellsEachCorrect == ReadersSpec => []WatchTellsEach
<1>1. ReadersInv => WatchTellsEach
  BY DEF ReadersInv, WatchInv, WatchTellsEach
<1>2. QED BY <1>1, ReadersAlways, PTL

\* A client of get_temporal_context that passes on the last seq misses nothing;
\* one that passes the cursor, nothing unless an answer was cut; and one that
\* passes the time, besides, only what was recorded by actions.
THEOREM ClientMissesCorrect == ReadersSpec => []ClientMissesOnlyWhatIsCut
<1>1. ReadersInv => ClientMissesOnlyWhatIsCut
  <2> SUFFICES ASSUME ReadersInv PROVE ClientMissesOnlyWhatIsCut
    OBVIOUS
  <2>1. ClientInv
    BY DEF ReadersInv
  <2>2. ASSUME client.by = "seq", shown # {}
        PROVE  \E first \in DOMAIN log : shown = first .. client.since
    <3>1. client.since \in DOMAIN log /\ \E first \in 1 .. client.since : shown = first .. client.since
      BY <2>1, <2>2 DEF ClientInv, SeqInv
    <3>2. log \in Seq(Entry)
      BY DEF ReadersInv, ReadersTyped
    <3>3. \A first \in 1 .. client.since : first \in DOMAIN log
      BY <3>1, <3>2
    <3>4. QED BY <3>1, <3>3
  <2>3. ASSUME client.by = "cursor", ~cut PROVE \A n \in DOMAIN log : Shown(n) \/ n > client.since
    BY <2>1, <2>3 DEF ClientInv, CursorInv
  <2>4. ASSUME client.by = "time", ~cut
        PROVE  \A n \in DOMAIN log : log[n].pass => Shown(n) \/ log[n].at >= client.since
    BY <2>1, <2>4 DEF ClientInv, TimeInv
  <2>5. QED BY <2>2, <2>3, <2>4 DEF ClientMissesOnlyWhatIsCut
<1>2. QED BY <1>1, ReadersAlways, PTL

=============================================================================
